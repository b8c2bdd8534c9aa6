-------------------------------- MODULE Http --------------------------------
(***************************************************************************)
(* HTTP sessions (Http.cc): one request after the other over connections   *)
(* that are kept, taken over from other sessions of the site, or lost.     *)
(* A message is a sequence of tokens: status line, header fields, chunk    *)
(* sizes, body bytes.  A request and each token carry the file they are    *)
(* about, so that an answer to something else shows.                       *)
(*                                                                         *)
(* Operators map w = [f |-> session, c |-> connection] to what a call       *)
(* leaves.  Left out: proxies and tunnels, TLS, cookies, POST and the other  *)
(* QUOTE commands, compression, redirection (a refusal like others), rate    *)
(* limits; sending is immediate.                                           *)
(***************************************************************************)
EXTENDS Integers, Sequences, FiniteSets

CONSTANTS
    Sessions,
    ModesOf,      \* session -> what its user does
    Priority,     \* session -> FileAccess::priority
    Takeover,     \* net:connection-takeover
    Limit,        \* net:connection-limit
    N,            \* length of a file and of a PROPFIND reply
    GetFrom, PutFrom, \* offsets at which files are opened
    K,            \* files that GetInfoArray asks about
    UsePropfind,  \* subset of BOOLEAN: http:use-propfind
    ListByPropfind, \* ... also for GetInfoArray
    Dates,        \* subset of BOOLEAN: the date of a stored file is to be set
    SizedListing, \* PROPFIND replies may have a length instead of chunks
    Kinds,        \* what can go wrong: "lost", "reset", "timeout", "no ranges"
    Refusals,     \* status codes of refusals: 401, 404, 405, 503
    Faults,       \* bound: how often
    MaxOpens      \* bound: requests of users

ASSUME HttpAssumption ==
    /\ IsFiniteSet(Sessions) /\ DOMAIN ModesOf = Sessions /\ DOMAIN Priority = Sessions /\ {N, K, Limit, Faults, MaxOpens} \subseteq Nat /\ N > 0 /\ K > 0 /\ Limit > 0
    /\ GetFrom \subseteq 0..N /\ PutFrom \subseteq 0..(N - 1) /\ {Takeover, ListByPropfind, SizedListing} \subseteq BOOLEAN /\ UsePropfind \subseteq BOOLEAN

VARIABLES
    ses,      \* session -> the fields of Http and its bases
    conn,     \* session -> its Connection, the network and the server behind it
    user,     \* session -> what its user has read; whether a code was left when it opened
    stored,   \* session -> the file on the server that it stores
    opens, faults

vars == <<ses, conn, user, stored, opens, faults>>

NoFile == <<0, 0, 0>>

\* Init() and FileAccess::Close
NewSession(propfind) ==
    [mode |-> "CLOSED", state |-> "DISCONNECTED", error |-> "OK", file |-> NoFile,
     pos |-> 0, real |-> -1, body_size |-> -1, bytes |-> 0, entity_size |-> -1,
     status |-> FALSE, code |-> 0, keep |-> FALSE, method |-> "none",
     chunked |-> FALSE, trailer |-> FALSE, chunk_size |-> -1, chunk_pos |-> 0,
     sent_eot |-> FALSE, no_ranges |-> FALSE, propfind |-> "none", use_propfind |-> propfind,
     date |-> FALSE, proppatch |-> FALSE, auth |-> FALSE,
     curr |-> 1, array_send |-> 1,
     answer |-> NoFile, info |-> <<>>]         \* whose answer was taken, for the properties

NoConn == [on |-> FALSE]
\* What a connection has: tokens received, and sent by the server; requests sent; what the server does
NewConn == [on |-> TRUE, net |-> "syn", buf |-> <<>>, eof |-> FALSE, err |-> FALSE,
            wire |-> <<>>, out |-> <<>>, shut |-> FALSE, put |-> <<>>]

Init ==
    /\ \E propfind \in UsePropfind : ses = [s \in Sessions |-> NewSession(propfind)]
    /\ conn = [s \in Sessions |-> NoConn]
    /\ user = [s \in Sessions |-> [from |-> 0, got |-> <<>>, eof |-> FALSE, stale |-> FALSE]]
    /\ stored = [s \in Sessions |-> <<>>]
    /\ opens = 0 /\ faults = 0

W(s) == [f |-> ses[s], c |-> conn[s]]
SetW(s, w) == ses' = [ses EXCEPT ![s] = w.f] /\ conn' = [conn EXCEPT ![s] = w.c]

Storing(f) == f.mode = "STORE" /\ ~f.proppatch       \* ModeIs(STORE)
Token(t, for, x) == [t |-> t, for |-> for, x |-> x]
FileOf(f) == IF f.mode = "ARRAY_INFO" THEN <<f.file[1], f.file[2], f.curr>> ELSE f.file

-----------------------------------------------------------------------------
(* Disconnecting.                                                          *)

\* ResetRequestData
ResetRequest(f) ==
    [f EXCEPT !.body_size = -1, !.bytes = 0, !.real = IF f.no_ranges THEN 0 ELSE -1, !.status = FALSE,
              !.sent_eot = FALSE, !.keep = FALSE, !.array_send = f.curr, !.chunked = FALSE,
              !.trailer = FALSE, !.chunk_size = -1, !.chunk_pos = 0, !.propfind = "none"]

AuthNeeded(code) == code = 401

\* Fault: a store that has begun is begun again behind what was sent.
DisconnectQuietly(w) ==
    [f |-> [ResetRequest([w.f EXCEPT !.method = "none"]) EXCEPT !.state = "DISCONNECTED"], c |-> NoConn]

\* DisconnectLL: a store that has begun fails, unless it is to be repeated with
\* authorization, from its beginning (request_pos is always 0 here).
Disconnect(w) ==
    LET f == w.f
        fails == /\ f.state # "DONE" /\ f.real > 0 /\ f.error = "OK" /\ ~AuthNeeded(f.code) /\ Storing(f)
        again == Storing(f) /\ AuthNeeded(f.code)
        g == ResetRequest([f EXCEPT !.method = "none"])
    IN  [f |-> [g EXCEPT !.state = "DISCONNECTED", !.error = IF fails THEN "STORE_FAILED" ELSE @,
                         !.auth = @ /\ (f.error # "OK" \/ AuthNeeded(f.code)),
                         !.pos = IF again THEN 0 ELSE @],
         c |-> NoConn]

DoneDisconnected(w) ==
    LET v == Disconnect([w EXCEPT !.f.state = "DONE"]) IN [v EXCEPT !.f.state = "DONE"]

Fails(w, error) == [w EXCEPT !.f.error = error]

\* Fault: what is left of the body is taken to be short.
ReusableAnyhow(f, c) == f.keep /\ ~Storing(f) /\ ~c.eof /\ f.state \in {"RECEIVING_BODY", "DONE"}

\* Close: whether the connection is left where the next answer begins.
Reusable(f, c) ==
    /\ f.keep /\ ~Storing(f) /\ ~c.eof /\ f.state \in {"RECEIVING_BODY", "DONE"}
    /\ \/ f.method = "HEAD"
       \/ /\ f.body_size >= 0
          /\ f.body_size = f.bytes + (IF f.chunked THEN 0 ELSE Len(c.buf))

\* Close
CloseSession(w) ==
    LET v == IF ~w.c.on THEN Disconnect(w)
             ELSE IF Reusable(w.f, w.c)
             THEN [f |-> ResetRequest([w.f EXCEPT !.state = "CONNECTED"]),
                   c |-> [w.c EXCEPT !.buf = IF w.f.method = "HEAD" \/ w.f.chunked THEN @ ELSE <<>>]]
             ELSE Disconnect(w)
    IN  [v EXCEPT !.f = [NewSession(w.f.use_propfind) EXCEPT !.state = v.f.state, !.real = v.f.real, !.code = v.f.code,
                                           !.method = v.f.method, !.keep = v.f.keep]]

-----------------------------------------------------------------------------
(* Requests.                                                               *)

\* The method that SendRequest sends for the mode.
Method(f) ==
    CASE f.mode = "RETRIEVE" -> "GET"
      [] f.mode = "STORE" -> IF f.proppatch THEN "PROPPATCH" ELSE "PUT"
      [] f.mode \in {"CHANGE_DIR", "ARRAY_INFO"} -> IF f.use_propfind THEN "PROPFIND" ELSE "HEAD"
      [] f.mode = "MAKE_DIR" -> "MKCOL"
      [] f.mode = "REMOVE" -> "DELETE"

\* SendRequest, about a file
SendRequest(w, file) ==
    LET f == w.f
        m == Method(f)
        first == IF m \in {"GET", "PUT"} /\ f.pos > 0 /\ ~(m = "GET" /\ f.no_ranges) THEN f.pos ELSE -1
        n == IF m = "PUT" /\ f.entity_size >= 0 THEN f.entity_size - f.pos ELSE -1
    IN  [f |-> [f EXCEPT !.method = m, !.keep = FALSE, !.chunked = FALSE, !.trailer = FALSE, !.chunk_size = -1,
                         !.chunk_pos = 0, !.no_ranges = FALSE,
                         !.real = IF Storing(f) THEN f.pos ELSE IF f.pos = 0 THEN 0 ELSE @,
                         !.entity_size = IF f.mode = "MAKE_DIR" THEN 0 ELSE @],
         c |-> [w.c EXCEPT !.out = Append(@, [m |-> m, for |-> file, first |-> first, n |-> n])]]

\* SendArrayInfoRequest: one request, or as many as the server keeps the connection for
RECURSIVE SendAhead(_, _)
SendAhead(w, upto) ==
    IF w.f.array_send > upto THEN w
    ELSE SendAhead(SendRequest([w EXCEPT !.f.array_send = @ + 1],
                               <<w.f.file[1], w.f.file[2], w.f.array_send>>), upto)

SendArrayInfoRequest(w) ==
    SendAhead([w EXCEPT !.f.array_send = IF @ < w.f.curr THEN w.f.curr ELSE @],
              IF w.f.keep THEN K ELSE w.f.curr)

\* ProceedArrayInfo
ProceedArrayInfo(w) ==
    LET v == [w EXCEPT !.f.curr = @ + 1] IN
    IF v.f.curr > K THEN [v EXCEPT !.f.state = "DONE"]
    ELSE IF v.f.keep
    THEN [SendArrayInfoRequest([v EXCEPT !.f.status = FALSE, !.f.code = 0, !.f.state = "CONNECTED"])
              EXCEPT !.f.state = "RECEIVING_HEADER"]
    ELSE Disconnect(v)

-----------------------------------------------------------------------------
(* Answers.                                                                *)

\* Do, RECEIVING_BODY
DoBody(w) == IF w.c.err THEN Disconnect(w) ELSE w

\* Do, pre_RECEIVING_BODY
PreBody(w) ==
    LET f == w.f
        unsupported == f.mode = "CHANGE_DIR" /\ f.method = "PROPFIND" /\ f.code = 405
        reading == f.method = "PROPFIND" /\ f.mode \in {"CHANGE_DIR", "ARRAY_INFO"}
        size == IF f.body_size >= 0 /\ ~Storing(f) /\ f.mode # "MAKE_DIR"
                   /\ (f.real < 0 \/ (f.entity_size < 0 /\ f.pos = 0))
                THEN f.body_size ELSE f.entity_size
    IN  IF f.code = 416 THEN [w EXCEPT !.f.state = "DONE"]
        ELSE IF f.code = 401 THEN Disconnect([w EXCEPT !.f.state = "RECEIVING_BODY", !.f.auth = TRUE])
        ELSE IF f.code # 200
        THEN IF unsupported THEN Disconnect([w EXCEPT !.f.use_propfind = FALSE])
             ELSE IF f.mode = "ARRAY_INFO"
             THEN Disconnect([w EXCEPT !.f.curr = @ + 1, !.f.state = "RECEIVING_BODY"])
             ELSE Fails([w EXCEPT !.f.state = "RECEIVING_BODY"], "NO_FILE")
        ELSE IF f.mode = "CHANGE_DIR" /\ ~reading THEN [w EXCEPT !.f.state = "DONE"]
        ELSE DoBody([w EXCEPT !.f.propfind = IF reading THEN "open" ELSE @, !.f.entity_size = size,
                              !.f.real = IF @ < 0 THEN 0 ELSE @, !.f.state = "RECEIVING_BODY"])

\* The first line.  What is no status line is taken for the body of an HTTP/0.9 answer.
StatusLine(w) ==
    LET t == Head(w.c.buf)
        v == [w EXCEPT !.f.status = TRUE, !.f.answer = t.for]
    IN  IF t.t # "status"
        THEN IF Storing(w.f) THEN DoneDisconnected(v) ELSE PreBody([v EXCEPT !.f.code = 200])
        ELSE IF t.x = 503 THEN Disconnect([v EXCEPT !.f.code = 503, !.f.keep = TRUE])
        ELSE [v EXCEPT !.f.code = t.x, !.f.keep = TRUE, !.c.buf = Tail(@)]

\* HandleHeaderLine, for all lines
HeaderLines(w, x) ==
    LET f == w.f IN
    [w EXCEPT !.f.body_size = IF x.len >= 0 THEN x.len ELSE @,
              !.f.real = IF x.first >= 0 THEN x.first ELSE @,
              !.f.entity_size = IF x.first >= 0 /\ ~Storing(f) THEN N ELSE @,
              !.f.chunked = x.chunked, !.f.chunk_size = IF x.chunked THEN -1 ELSE @,
              !.f.keep = x.keep, !.f.no_ranges = x.none]

\* The empty line after the header
EndOfHeader(w) ==
    LET f == w.f IN
    IF f.mode = "ARRAY_INFO"
    THEN IF f.method = "PROPFIND"
         THEN IF f.code = 405 THEN Disconnect([w EXCEPT !.f.use_propfind = FALSE]) ELSE PreBody(w)
         ELSE ProceedArrayInfo(IF f.code = 200 THEN [w EXCEPT !.f.info = Append(@, <<FileOf(f), f.answer>>)] ELSE w)
    ELSE IF f.mode \in {"STORE", "MAKE_DIR"} /\ f.code = 200
    THEN IF f.sent_eot \/ f.proppatch \/ f.pos = f.entity_size
         THEN LET v == DoneDisconnected(w) IN
              IF Storing(f) /\ f.date /\ f.use_propfind
              THEN [v EXCEPT !.f.proppatch = TRUE, !.f.state = "DISCONNECTED"] ELSE v
         ELSE Disconnect(w)
    ELSE PreBody(w)

\* The empty line after the last chunk
EndOfTrailer(w) ==
    LET v == [w EXCEPT !.f.trailer = FALSE, !.f.chunked = FALSE] IN
    IF w.f.propfind # "none" THEN [v EXCEPT !.f.propfind = "eof", !.f.state = "CONNECTED"]
    ELSE [v EXCEPT !.f.state = "DONE"]

\* Do, RECEIVING_HEADER: one line
DoHeader(w) ==
    LET f == w.f  c == w.c IN
    IF c.err THEN IF Storing(f) /\ f.code \notin {0, 200} THEN PreBody(w) ELSE Disconnect(w)
    ELSE IF c.buf = <<>> THEN IF c.eof THEN Disconnect(w) ELSE w
    ELSE IF ~f.status THEN StatusLine(w)
    ELSE LET t == Head(c.buf)  v == [w EXCEPT !.c.buf = Tail(@)] IN
         CASE t.t = "end" /\ f.trailer -> EndOfTrailer(v)
           [] t.t = "fields" -> EndOfHeader(HeaderLines(v, t.x))
           [] OTHER -> v

\* Do, CONNECTED
DoConnected(w) ==
    LET f == w.f IN
    IF w.c.eof THEN Disconnect(w)
    ELSE IF f.mode = "CLOSED" THEN w
    ELSE IF Storing(f) /\ f.pos > 0 /\ f.entity_size >= 0 /\ f.pos >= f.entity_size
    THEN [w EXCEPT !.f.state = "DONE"]
    ELSE LET v == IF f.mode = "ARRAY_INFO" THEN SendArrayInfoRequest(w) ELSE SendRequest(w, f.file)
         IN  DoHeader([v EXCEPT !.f.state = "RECEIVING_HEADER"])

\* Do, what a PROPFIND has got (GetInfoArray, CHANGE_DIR)
PropfindDone(w) ==
    LET v == [w EXCEPT !.f.propfind = "none", !.f.state = "DONE"] IN
    IF w.f.mode = "CHANGE_DIR" THEN v ELSE ProceedArrayInfo(v)

DoState(w) ==
    CASE w.f.state = "CONNECTING" ->
           IF w.c.net = "rst" THEN Disconnect(w)
           ELSE IF w.c.net = "syn" THEN w ELSE DoConnected([w EXCEPT !.f.state = "CONNECTED"])
      [] w.f.state = "CONNECTED" -> DoConnected(w)
      [] w.f.state = "RECEIVING_HEADER" -> DoHeader(w)
      [] w.f.state = "RECEIVING_BODY" -> DoBody(w)
      [] OTHER -> w

\* Do with a connection
Do(s) ==
    /\ ses[s].error = "OK" /\ conn[s].on
    /\ LET v == IF ses[s].propfind = "eof" THEN PropfindDone(W(s)) ELSE W(s)
           w == IF ses[s].propfind = "eof" /\ ses[s].mode = "CHANGE_DIR" THEN v ELSE DoState(v)
       IN  SetW(s, w)
    /\ UNCHANGED <<user, stored, opens, faults>>

-----------------------------------------------------------------------------
(* Connecting.                                                             *)

Idle(o) == conn[o].on /\ ses[o].state = "CONNECTED" /\ ses[o].mode = "CLOSED"
Interruptible(s, o) ==
    conn[o].on /\ ses[o].state # "CONNECTING" /\ Takeover /\ Priority[o] < Priority[s]
LimitReached == Cardinality({o \in Sessions : conn[o].on}) >= Limit

\* Do, DISCONNECTED, up to where a connection is needed: a store that is complete, files all known
NeedsConnection(f) ==
    /\ f.error = "OK" /\ f.state = "DISCONNECTED" /\ f.mode # "CLOSED"
    /\ ~(Storing(f) /\ f.pos > 0 /\ f.entity_size >= 0 /\ f.pos >= f.entity_size)
    /\ ~(f.mode = "ARRAY_INFO" /\ f.curr > K)

NothingToDo(s) ==
    LET f == ses[s] IN
    /\ f.error = "OK" /\ f.state = "DISCONNECTED" /\ f.mode # "CLOSED" /\ ~NeedsConnection(f)
    /\ ses' = [ses EXCEPT ![s].state = "DONE"]
    /\ UNCHANGED <<conn, user, stored, opens, faults>>

\* MoveConnectionHere: from an idle session
TakeConnection(s, o) ==
    /\ NeedsConnection(ses[s]) /\ o # s /\ Idle(o)
    /\ ses' = [ses EXCEPT ![s] = [@ EXCEPT !.state = "CONNECTED", !.method = ses[o].method],
                          ![o] = Disconnect(W(o)).f]
    /\ conn' = [conn EXCEPT ![s] = conn[o], ![o] = NoConn]
    /\ UNCHANGED <<user, stored, opens, faults>>

\* GetBetterConnection(2): at the limit the connection of a less important session is closed.
Interrupt(s, o) ==
    /\ NeedsConnection(ses[s]) /\ o # s /\ ~\E i \in Sessions \ {s} : Idle(i)
    /\ LimitReached /\ Interruptible(s, o)
    /\ SetW(o, Disconnect(W(o)))
    /\ UNCHANGED <<user, stored, opens, faults>>

\* The timer allows a new connection.
Connect(s) ==
    /\ NeedsConnection(ses[s]) /\ ~LimitReached /\ ~\E o \in Sessions \ {s} : Idle(o)
    /\ ses' = [ses EXCEPT ![s].state = "CONNECTING"]
    /\ conn' = [conn EXCEPT ![s] = NewConn]
    /\ UNCHANGED <<user, stored, opens, faults>>

IdleTimeout(s) ==
    /\ Idle(s) /\ SetW(s, Disconnect(W(s)))
    /\ UNCHANGED <<user, stored, opens, faults>>

\* CheckTimeout, in the states that call it; before any byte of a body has come ranges are given up.
Timeout(s) ==
    LET f == ses[s]  v == Disconnect(W(s)) IN
    /\ "timeout" \in Kinds /\ faults < Faults /\ f.error = "OK" /\ conn[s].on /\ conn[s].buf = <<>>
    /\ f.state \in {"CONNECTING", "RECEIVING_HEADER", "RECEIVING_BODY"}
    /\ SetW(s, IF f.state = "RECEIVING_BODY" /\ f.bytes = 0
               THEN [v EXCEPT !.f.no_ranges = TRUE, !.f.real = 0] ELSE v)
    /\ faults' = faults + 1
    /\ UNCHANGED <<user, stored, opens>>

-----------------------------------------------------------------------------
(* Reading and writing.                                                    *)

\* Fault: the wish for an offset is taken for its fulfilment.
SkipNothing(f) == FALSE
\* Whether the next byte comes before the one that is wanted.
MustSkip(f) == f.real < f.pos

\* _Read, one byte: what is left, and what it returns
RECURSIVE ReadByte(_)
ReadByte(w) ==
    LET f == w.f
        c == w.c
        again == [w |-> w, r |-> "again", b |-> NoFile]
        lost == [again EXCEPT !.w = Disconnect(w)]
        rest == [w EXCEPT !.c.buf = Tail(@)]
        next == [rest EXCEPT !.f.real = @ + 1, !.f.bytes = @ + 1, !.f.chunk_pos = IF f.chunked THEN @ + 1 ELSE @]
    IN  CASE c.buf = <<>> /\ c.err -> lost
          [] c.buf = <<>> /\ c.eof /\ (f.bytes < f.body_size \/ f.chunked) -> lost
          [] \/ c.buf = <<>> /\ c.eof /\ f.bytes >= f.body_size /\ ~f.chunked
             \/ ~f.chunked /\ f.body_size >= 0 /\ f.bytes >= f.body_size
             \/ ~f.chunked /\ f.entity_size >= 0 /\ f.pos >= f.entity_size -> [again EXCEPT !.r = "eof"]
          [] c.buf = <<>> /\ ~c.eof /\ ~c.err
             /\ (f.chunked \/ f.bytes < f.body_size \/ f.body_size < 0)
             /\ (f.chunked \/ f.entity_size < 0 \/ f.pos < f.entity_size) -> again
          [] c.buf # <<>> /\ f.chunked /\ f.chunk_size = -1 ->
               IF Head(c.buf).t # "size" THEN [again EXCEPT !.w = Fails(w, "FATAL")]
               ELSE ReadByte([rest EXCEPT !.f.chunk_size = Head(c.buf).x, !.f.chunk_pos = 0])
          [] c.buf # <<>> /\ f.chunked /\ f.chunk_size = 0 ->
               [again EXCEPT !.w.f = [f EXCEPT !.trailer = TRUE, !.state = "RECEIVING_HEADER", !.body_size = f.bytes]]
          [] c.buf # <<>> /\ f.chunked /\ f.chunk_size > 0 /\ f.chunk_pos = f.chunk_size ->
               ReadByte([w EXCEPT !.f.chunk_size = -1])
          [] OTHER -> IF MustSkip(f) THEN ReadByte(next) ELSE [w |-> next, r |-> "data", b |-> Head(c.buf)]

\* Read
Read(w) ==
    IF w.f.state = "DONE" THEN [w |-> w, r |-> "eof", b |-> NoFile]
    ELSE IF w.f.state # "RECEIVING_BODY" \/ w.f.real < 0 THEN [w |-> w, r |-> "again", b |-> NoFile]
    ELSE LET x == ReadByte(w) IN IF x.r = "data" THEN [x EXCEPT !.w.f.pos = @ + 1] ELSE x

UserReads(s) ==
    /\ ses[s].mode = "RETRIEVE" /\ ses[s].error = "OK" /\ ~user[s].eof
    /\ LET x == Read(W(s)) IN
       /\ SetW(s, x.w)
       /\ user' = [user EXCEPT ![s].got = IF x.r = "data" THEN Append(@, x.b) ELSE @, ![s].eof = (x.r = "eof")]
    /\ UNCHANGED <<stored, opens, faults>>

\* The buffer that collects the answer to a PROPFIND (IOBufferFileAccess)
PropfindReads(s) ==
    /\ ses[s].propfind = "open" /\ ses[s].error = "OK"
    /\ LET x == Read(W(s))
           v == [x.w EXCEPT !.f.info = IF x.r = "data" THEN Append(@, <<FileOf(ses[s]), x.b.for>>) ELSE @]
       IN  SetW(s, IF x.r = "eof" THEN [v EXCEPT !.f.propfind = "eof"] ELSE v)
    /\ UNCHANGED <<user, stored, opens, faults>>

MayWrite(f) == Storing(f) /\ f.error = "OK" /\ f.state = "RECEIVING_HEADER" /\ ~f.status

\* Write (Do, which it begins with, is an action of its own): the byte at pos
UserWrites(s) ==
    /\ MayWrite(ses[s]) /\ ~ses[s].sent_eot /\ ses[s].pos < N
    /\ conn' = [conn EXCEPT ![s].out = Append(@, [m |-> "data", for |-> ses[s].file, first |-> ses[s].pos, n |-> 0])]
    /\ ses' = [ses EXCEPT ![s].pos = @ + 1, ![s].real = @ + 1]
    /\ UNCHANGED <<user, stored, opens, faults>>

\* StoreStatus and SendEOT, when all is written
UserEnds(s) ==
    LET f == ses[s] IN
    /\ Storing(f) /\ f.error = "OK" /\ f.state = "RECEIVING_HEADER" /\ ~f.sent_eot /\ f.pos = N
    /\ ses' = [ses EXCEPT ![s].sent_eot = TRUE]
    /\ conn' = [conn EXCEPT ![s].shut = (f.entity_size < 0)]
    /\ UNCHANGED <<user, stored, opens, faults>>

Open(s, mode, at, sized, date) ==
    /\ ses[s].mode = "CLOSED" /\ opens < MaxOpens
    /\ opens' = opens + 1
    /\ ses' = [ses EXCEPT ![s].mode = mode, ![s].file = <<s, opens + 1, 0>>, ![s].pos = at, ![s].real = -1,
                          ![s].entity_size = IF sized THEN N ELSE -1, ![s].date = date]
    /\ user' = [user EXCEPT ![s] = [from |-> at, got |-> <<>>, eof |-> FALSE, stale |-> ses[s].code = 416]]
    /\ stored' = [stored EXCEPT ![s] = [i \in 1..at |-> i - 1]]
    /\ UNCHANGED <<conn, faults>>

UserOpens(s) ==
    \E mode \in ModesOf[s] :
      \/ mode = "RETRIEVE" /\ \E at \in GetFrom : Open(s, mode, at, FALSE, FALSE)
      \/ mode = "STORE" /\ \E at \in PutFrom, sized \in BOOLEAN, date \in Dates : Open(s, mode, at, sized, date)
      \/ mode \notin {"RETRIEVE", "STORE"} /\ (mode = "ARRAY_INFO" /\ ses[s].use_propfind => ListByPropfind)
         /\ Open(s, mode, 0, FALSE, FALSE)

\* Close, when it has finished or at any other time.  It reads what has come meanwhile.
UserCloses(s) ==
    /\ ses[s].mode # "CLOSED"
    /\ \E n \in IF conn[s].on THEN 0..Len(conn[s].wire) ELSE {0} :
         SetW(s, CloseSession(IF n = 0 THEN W(s)
                              ELSE [W(s) EXCEPT !.c.buf = @ \o SubSeq(conn[s].wire, 1, n),
                                                !.c.wire = SubSeq(@, n + 1, Len(@))]))
    /\ user' = [user EXCEPT ![s] = [from |-> 0, got |-> <<>>, eof |-> FALSE, stale |-> FALSE]]
    /\ UNCHANGED <<stored, opens, faults>>

-----------------------------------------------------------------------------
(* The network and the server.                                             *)

Established(s) ==
    /\ conn[s].on /\ conn[s].net = "syn"
    /\ conn' = [conn EXCEPT ![s].net = "up"]
    /\ UNCHANGED <<ses, user, stored, opens, faults>>

\* The next token comes when the last one is handled, or the end.
Arrive(s) ==
    /\ conn[s].on /\ conn[s].buf = <<>>
    /\ LET c == conn[s] IN
       conn' = [conn EXCEPT ![s] =
         IF c.wire # <<>> THEN [c EXCEPT !.wire = Tail(@), !.buf = Append(@, Head(c.wire))]
         ELSE [c EXCEPT !.eof = @ \/ c.net = "fin", !.err = @ \/ c.net = "rst"]]
    /\ UNCHANGED <<ses, user, stored, opens, faults>>

\* The connection breaks, and something of what was sent is lost.
Lose(s) ==
    /\ conn[s].on /\ faults < Faults
    /\ \E k \in {"fin", "rst"}, n \in 0..Len(conn[s].wire) :
         /\ (IF k = "fin" THEN "lost" ELSE "reset") \in Kinds
         /\ conn[s].net = "up" \/ (conn[s].net = "syn" /\ k = "rst")
         /\ conn' = [conn EXCEPT ![s].net = k, ![s].wire = SubSeq(@, 1, n), ![s].out = <<>>]
    /\ faults' = faults + 1
    /\ UNCHANGED <<ses, user, stored, opens>>

Bytes(req, from) == [i \in 1..(N - from) |-> Token("byte", req.for, from + i - 1)]

\* An answer: its tokens.  No body in answer to HEAD.
Answer(req, code, from, chunked, keep, none) ==
    LET body == IF code \notin {200, 416} THEN <<Token("byte", req.for, -1)>>
                ELSE IF code = 200 /\ req.m \in {"GET", "PROPFIND"} THEN Bytes(req, from) ELSE <<>>
        sent == IF req.m = "HEAD" THEN <<>>
                ELSE IF chunked
                THEN (IF body = <<>> THEN <<>> ELSE <<Token("size", req.for, Len(body))>>) \o body
                     \o <<Token("size", req.for, 0), Token("end", req.for, 0)>>
                ELSE body
        first == IF code = 200 /\ from > 0 THEN from ELSE -1
    IN  <<Token("status", req.for, code),
          Token("fields", req.for, [len |-> IF chunked THEN -1 ELSE Len(body), first |-> first,
                                    chunked |-> chunked, keep |-> keep, none |-> none])>> \o sent

\* How the server may answer a request: <<tokens, whether that is a fault, whether it closes>>
Answers(req) ==
    LET ranged == req.m = "GET" /\ req.first > 0
        sized(chunked) == ~chunked \/ req.m \in {"GET", "PROPFIND"}
        good(from, none) == {<<Answer(req, 200, from, ch, keep, none), none, ~keep>> :
                               ch \in {x \in BOOLEAN : sized(x) /\ (x \/ SizedListing \/ req.m # "PROPFIND")}, keep \in BOOLEAN}
        bad(code) == IF code \in Refusals THEN {<<Answer(req, code, 0, FALSE, TRUE, FALSE), TRUE, FALSE>>} ELSE {}
    IN  (IF ranged /\ req.first >= N THEN {<<Answer(req, 416, 0, FALSE, TRUE, FALSE), FALSE, FALSE>>}
         ELSE good(IF ranged THEN req.first ELSE 0, FALSE))
        \cup (IF ranged /\ "no ranges" \in Kinds THEN good(0, TRUE) ELSE {})
        \cup (UNION {bad(code) : code \in {404, 503, 401}})
        \cup (IF req.m \in {"PROPFIND", "PROPPATCH"} THEN bad(405) ELSE {})

\* The server sends an answer, and may close after it.
Reply(s, req) ==
    \E a \in Answers(req) :
      /\ a[2] => faults < Faults
      /\ faults' = faults + (IF a[2] THEN 1 ELSE 0)
      /\ conn' = [conn EXCEPT ![s].wire = @ \o a[1], ![s].out = IF req.m = "PUT" THEN @ ELSE Tail(@),
                              ![s].put = <<>>, ![s].net = IF a[3] THEN "fin" ELSE @]
      /\ UNCHANGED <<ses, user, opens>>

ServerAnswers(s) ==
    /\ conn[s].on /\ conn[s].net = "up" /\ conn[s].put = <<>> /\ conn[s].out # <<>>
    /\ LET r == Head(conn[s].out) IN
       IF r.m = "PUT"
       THEN /\ conn' = [conn EXCEPT ![s].put = <<r>>, ![s].out = Tail(@)]
            /\ stored' = [stored EXCEPT ![s] = IF r.first > 0 THEN SubSeq(@, 1, IF r.first < Len(@) THEN r.first ELSE Len(@)) ELSE <<>>]
            /\ UNCHANGED <<ses, user, opens, faults>>
       ELSE IF r.m = "data"      \* of a PUT that it has refused
       THEN /\ conn' = [conn EXCEPT ![s].out = Tail(@)]
            /\ UNCHANGED <<ses, user, stored, opens, faults>>
       ELSE Reply(s, r) /\ UNCHANGED stored

\* The body of a PUT, of the length announced or up to the end
ServerStores(s) ==
    /\ conn[s].on /\ conn[s].net = "up" /\ conn[s].put # <<>>
    /\ LET c == conn[s]  r == Head(c.put) IN
       \/ /\ c.out # <<>> /\ Head(c.out).m = "data"
          /\ stored' = [stored EXCEPT ![s] = Append(@, Head(c.out).first)]
          /\ conn' = [conn EXCEPT ![s].out = Tail(@), ![s].put = <<[r EXCEPT !.n = @ - 1]>>]
          /\ UNCHANGED <<ses, user, opens, faults>>
       \/ /\ r.n = 0 \/ (r.n < 0 /\ c.shut /\ c.out = <<>>)
          /\ Reply(s, r) /\ UNCHANGED stored
       \/ /\ r.n # 0        \* refused before it is complete
          /\ \E a \in {x \in Answers(r) : x[2]} :
               /\ faults < Faults /\ faults' = faults + 1
               /\ conn' = [conn EXCEPT ![s].wire = @ \o a[1], ![s].put = <<>>]
          /\ UNCHANGED <<ses, user, stored, opens>>

-----------------------------------------------------------------------------
Next ==
    \E s \in Sessions :
      \/ Do(s) \/ NothingToDo(s) \/ Connect(s) \/ IdleTimeout(s) \/ Timeout(s)
      \/ \E o \in Sessions : TakeConnection(s, o) \/ Interrupt(s, o)
      \/ UserOpens(s) \/ UserReads(s) \/ PropfindReads(s) \/ UserWrites(s) \/ UserEnds(s) \/ UserCloses(s)
      \/ Established(s) \/ Arrive(s) \/ Lose(s) \/ ServerAnswers(s) \/ ServerStores(s)

Spec == Init /\ [][Next]_vars

-----------------------------------------------------------------------------
(* Properties.                                                             *)

TypeOK ==
    \A s \in Sessions :
      LET f == ses[s] IN
      /\ f.state \in {"DISCONNECTED", "CONNECTING", "CONNECTED", "RECEIVING_HEADER", "RECEIVING_BODY", "DONE"}
      /\ f.state \in {"CONNECTING", "CONNECTED", "RECEIVING_HEADER", "RECEIVING_BODY"} => conn[s].on
      /\ f.state \in {"DISCONNECTED", "CONNECTING"} => f.propfind = "none"
      /\ f.pos \in 0..(N * K) /\ f.real \in -1..(N * K) /\ f.bytes \in 0..(N * K) /\ f.curr \in 1..(K + 1)

\* What the user of a session has read are the bytes of its file, from the offset it
\* opened it at, each once; and it is told the end only when it has them all (Read, whatever
\* connection, retry or range the bytes have come by).
ReadsRight ==
    \A s \in Sessions :
      LET u == user[s] IN
      /\ \A i \in DOMAIN u.got : u.got[i] = Token("byte", ses[s].file, u.from + i - 1)
      /\ u.eof /\ ses[s].error = "OK" => u.from + Len(u.got) = N

\* A status or an error that a session has taken is the answer to its own request, and what
\* it notes about a file is about that file: nothing of an earlier answer is left on a
\* connection that is used again.
Answered ==
    TypeOK /\ \A s \in Sessions :
      LET f == ses[s] IN
      /\ f.mode # "CLOSED" /\ f.status => SubSeq(f.answer, 1, 2) = SubSeq(f.file, 1, 2)
      /\ \A i \in DOMAIN f.info : f.info[i][1] = f.info[i][2]

\* A store is reported done only when the server has all of the file.  The exception is a
\* defect: the code of an earlier answer (416, the end of a file that was read) is still there
\* when the store begins, and ends it as well if the connection is lost before its answer.
StoredAll ==
    \A s \in Sessions :
      ses[s].mode = "STORE" /\ ses[s].state = "DONE" /\ ses[s].error = "OK" /\ ~user[s].stale
      => stored[s] = [i \in 1..N |-> i - 1]
=============================================================================
