------------------------------ MODULE FileCopy ------------------------------
(***************************************************************************)
(* FileCopy::Do and its two peers (src/FileCopy.cc): a get peer that reads  *)
(* a session (FileCopyPeerFA) and a put peer that writes to a session or   *)
(* to a local file (FileCopyPeerFDStream).  A byte is its offset in the    *)
(* source file, which is 0, 1, ..., N-1; so buffers, what is on its way to *)
(* the server and the target file are sequences of offsets.                *)
(*                                                                         *)
(* The session is an FTP one (src/ftpclass.cc: Read, Write, StoreStatus).  *)
(* It works by itself between the calls of Do, unless its peer is          *)
(* suspended; the actions named Src and Dst are what it does then.         *)
(***************************************************************************)
EXTENDS Integers, Sequences

CONSTANTS N,            \* size of the source
          Copies,       \* copies to choose from: whether to a local file (else to a session),
                        \* IOBuffer::PUT_LL_MIN, and bounds of the failures of the source and of
                        \* the target (REST refused included)
          MaxBuf,       \* xfer:buffer-size, also the most one Read returns
          SkipMin       \* FileCopy::skip_threshold

ASSUME FileCopyAssumption ==
    /\ {N, SkipMin} \subseteq Nat /\ MaxBuf \in Nat \ {0}
    /\ Copies \subseteq [to_file : BOOLEAN, put_min : Nat \ {0}, src_faults : Nat, dst_faults : Nat]

FileEnd == -1     \* FILE_END, as a seek position
NoSize == -1      \* NO_SIZE
NoSizeYet == -2   \* NO_SIZE_YET

VARIABLES
    chosen,           \* the one of Copies it is
    cont,            \* FileCopy::cont: the target may exist already
    dated,           \* the date of the source is known beforehand
    state, error,    \* of the FileCopy
    put_eof_pos,
    remove_source_later,
    fall,            \* its Do falls through to the next state
    ran,             \* the peers whose Do has been called since
    get, put,        \* the peers
    gs, ps,          \* their sessions; for a local file ps is the descriptor
    wire,            \* written to the session, not yet stored by the server
    target,          \* the target file
    faults           \* failures so far of <<source, destination>>

kind == <<chosen, cont, dated>>
copy == <<state, error, put_eof_pos, remove_source_later, fall>>
source == <<get, gs>>
dest == <<put, ps, wire, target>>
vars == <<kind, copy, ran, source, dest, faults>>

to_file == chosen.to_file     \* the class of the put peer
Source == [i \in 1..N |-> i - 1]
MinOf(a, b) == IF a < b THEN a ELSE b
MaxOf(a, b) == IF a < b THEN b ELSE a
Front(s, n) == SubSeq(s, 1, n)
Rest(s, n) == SubSeq(s, n + 1, Len(s))
Closed == [st |-> "closed", pos |-> 0, real |-> -1, io |-> FALSE]

-----------------------------------------------------------------------------
(* The get peer.  pos is the position of the first byte in buf. *)

\* A peer is done; a get peer, too, when its file is being removed.
GetDone(g) == g.err \/ (g.eof /\ g.buf = <<>> /\ ~g.removing)

\* GetRealPos: the server refused REST and starts at 0, or the position of
\* the session is not where the buffer ends.
RealGet(s) ==
    LET refused == s.gs.real = 0 /\ s.gs.pos > 0
        t == IF refused THEN [s EXCEPT !.get.can = FALSE, !.gs.pos = 0] ELSE s
    IN IF s.gs.st \notin {"conn", "data", "failed"} \/ s.get.eof THEN s
       ELSE IF t.get.pos + Len(t.get.buf) # t.gs.pos
       THEN [t EXCEPT !.get.pos = t.gs.pos, !.get.buf = <<>>]
       ELSE t

SeekGet(s, x) ==
    IF s.get.pos = x THEN s
    ELSE [get |-> [s.get EXCEPT !.seek = x, !.pos = x, !.buf = <<>>, !.eof = FALSE],
          gs |-> Closed]

\* OpenSession: past the known end there is nothing to read.
OpenGet(s) ==
    LET g == s.get
        past == g.size # NoSize /\ g.size # NoSizeYet /\ (g.seek > g.size \/ (g.seek = g.size /\ g.size > 0))
    IN IF s.gs.st # "closed" THEN s
       ELSE IF past THEN [s EXCEPT !.get.pos = g.seek, !.get.eof = TRUE]
       ELSE [get |-> [g EXCEPT !.pos = g.seek, !.buf = <<>>],
             gs |-> [Closed EXCEPT !.st = "conn", !.pos = g.seek]]

\* Get_LL and Ftp::Read: the possible states after it.
GetLL(s) ==
    LET a == OpenGet(s)
        b == RealGet(a)
    IN IF a.get.eof THEN {a}
       ELSE IF b.get.pos # a.get.pos THEN {b}
       ELSE CASE b.gs.st = "failed" -> {[b EXCEPT !.get.err = TRUE]}
              [] b.gs.st = "data" /\ b.gs.pos = N -> {[b EXCEPT !.get.eof = TRUE, !.gs = Closed]}
              [] b.gs.st = "data" /\ b.gs.pos < N /\ b.gs.real = b.gs.pos ->
                   {b} \cup {[b EXCEPT !.gs.pos = @ + n, !.gs.real = b.gs.pos + n,
                                       !.get.buf = @ \o SubSeq(Source, b.gs.pos + 1, b.gs.pos + n)]
                             : n \in 1..MinOf(MaxBuf, N - b.gs.pos)}
              [] OTHER -> {b}

Getting == [get |-> get, gs |-> gs]
SetGet(s) == get' = s.get /\ gs' = s.gs

\* FileCopyPeerFA::Do of the get peer
GetDo ==
    /\ ~fall /\ ~get.susp /\ "get" \notin ran /\ ~error
    /\ ran' = ran \cup {"get"}
    /\ \/ /\ get.removing  \* the file is removed, or that fails
          /\ SetGet([get |-> [get EXCEPT !.removing = FALSE, !.susp = TRUE], gs |-> Closed])
       \/ /\ GetDone(get)
          /\ SetGet(Getting)
       \/ /\ ~get.removing /\ ~GetDone(get)
          /\ CASE gs.st = "closed" /\ get.want /\ get.size = NoSizeYet /\ ~get.start ->
                    SetGet([Getting EXCEPT !.gs.st = "info"])
               [] gs.st = "info" -> SetGet(Getting)
               [] gs.st = "replied" ->
                    SetGet([get |-> [get EXCEPT !.size = gs.pos], gs |-> Closed])
               [] OTHER ->
                    IF get.eof THEN SetGet(Getting) ELSE \E s \in GetLL(Getting) : SetGet(s)
    /\ UNCHANGED <<kind, copy, dest, faults>>

-----------------------------------------------------------------------------
(* The put peer.  pos is the position of the byte that follows buf. *)

Putting == [put |-> put, ps |-> ps, wire |-> wire, target |-> target]
SetPut(o) == put' = o.put /\ ps' = o.ps /\ wire' = o.wire /\ target' = o.target

PutDone(p) == p.err \/ (p.eof /\ p.buf = <<>> /\ p.done)
Open(o) == o.ps.st \notin {"closed", "info", "replied"}
Close(o) == [o EXCEPT !.ps = Closed, !.wire = <<>>]

\* GetRealPos: the session is not where the peer takes it to be.
RealPut(o) ==
    IF ~to_file /\ Open(o) /\ o.put.pos - Len(o.put.buf) # o.ps.pos
    THEN [o EXCEPT !.put.buf = <<>>, !.put.can = FALSE, !.put.pos = o.ps.pos]
    ELSE o

\* FileCopyPeer::SetSize; at FILE_END the position becomes known.
SetSize(p, size) ==
    [p EXCEPT !.size = size, !.seek = IF @ # FileEnd THEN @ ELSE IF size >= 0 THEN size ELSE 0]

\* Seek of FileCopyPeerFA and of FileCopyPeerFDStream.
SeekPut(o, x) ==
    LET p == o.put
        to == IF x = FileEnd THEN Len(o.target) ELSE x
        q == [p EXCEPT !.seek = x, !.pos = @ - Len(p.buf), !.buf = <<>>, !.eof = FALSE]
    IN IF p.pos = x THEN o
       ELSE IF to_file
       THEN [o EXCEPT !.put = [q EXCEPT !.seek = to, !.pos = to], !.ps.pos = to]
       ELSE [Close(o) EXCEPT !.put = IF x = FileEnd THEN [q EXCEPT !.want = TRUE, !.size = NoSizeYet]
                                     ELSE [q EXCEPT !.pos = x]]

CanSeekPut(p, x) == x = 0 \/ p.can

\* Fault: believes that all it has written is stored.
StoreFailedTrusting(o) == [Close(o) EXCEPT !.put.pos = @ - Len(o.put.buf), !.put.buf = <<>>]

\* STORE_FAILED: continue where the file on the server ends, or start anew.
StoreFailed(o) == SeekPut(Close(o), IF o.put.can /\ o.put.seek > 0 THEN FileEnd ELSE 0)

\* OpenSession: what is beyond the expected size need not be sent.
OpenPut(o) ==
    LET p == o.put
        past == p.e_size >= 0 /\ p.size >= 0 /\ p.seek >= p.e_size
        q == IF past THEN [p EXCEPT !.eof = TRUE, !.err = p.seek > p.e_size] ELSE p
    IN IF o.ps.st # "closed" THEN o
       ELSE IF past /\ ~dated THEN [o EXCEPT !.put = q]
       ELSE [o EXCEPT !.put = [q EXCEPT !.pos = p.seek + Len(p.buf)],
                      !.ps = [Closed EXCEPT !.st = "conn", !.pos = p.seek]]

\* write(2) of d at p
Overlay(t, p, d) ==
    [i \in 1..MaxOf(Len(t), p + Len(d)) |->
        IF i \in p + 1..p + Len(d) THEN d[i - p] ELSE IF i <= Len(t) THEN t[i] ELSE -1]

\* Put_LL of the bytes d: the possible pairs of state and bytes taken.
PutLL(o, d) ==
    LET a == OpenPut(o)
        b == RealPut(a)
        Stored(n) == [b EXCEPT !.wire = @ \o Front(d, n), !.ps.pos = @ + n, !.ps.io = n > 0 \/ @, !.put.seek = @ + n]
        Written(n) == [o EXCEPT !.target = Overlay(@, o.ps.pos, Front(d, n)), !.ps.pos = @ + n]
        No(s) == {[o |-> s, n |-> 0]}
    IN IF to_file
       THEN IF o.ps.st = "refused" /\ d # <<>> THEN No([o EXCEPT !.put.err = TRUE])
            ELSE {[o |-> Written(n), n |-> n] : n \in 0..Len(d)}
       ELSE IF a.put.err THEN No(a)
       ELSE IF b.put.pos # a.put.pos THEN No(b)
       ELSE IF d = <<>> /\ b.put.eof THEN No(b)
       ELSE CASE b.ps.st = "failed" -> No(StoreFailed(b))
              [] b.ps.st = "refused" -> No([b EXCEPT !.put.err = TRUE])
              [] b.ps.st = "data" -> {[o |-> Stored(n), n |-> n] : n \in 0..Len(d)}
              [] OTHER -> No(b)

\* Buffer::Put
BufferPut(o, d) == [o EXCEPT !.put.buf = @ \o d, !.put.pos = @ + Len(d)]

\* IOBuffer::Put: large data goes past an empty buffer.
Put(o, d) ==
    IF Len(d) < chosen.put_min \/ o.put.buf # <<>> THEN {BufferPut(o, d)}
    ELSE {BufferPut([r.o EXCEPT !.put.pos = @ + r.n], Rest(d, r.n)) : r \in PutLL(o, d)}

\* Fault: does not wait for the reply.
StoreStatusHasty(o) ==
    IF o.ps.st = "data" THEN {[Close(o) EXCEPT !.put.verify = TRUE, !.wire = o.wire]} ELSE {o}

\* The end of the Do of a put peer: everything is written and eof is set.
StoreStatus(o) ==
    CASE o.ps.st \in {"closed", "stored"} -> {[Close(o) EXCEPT !.put.verify = TRUE]}
      [] o.ps.st = "data" /\ to_file -> {[o EXCEPT !.put.verify = TRUE]}
      [] o.ps.st = "data" /\ ~to_file -> {[o EXCEPT !.ps.st = "wait"]}  \* SendEOT
      [] o.ps.st = "failed" -> {StoreFailed(o)}
      [] o.ps.st = "refused" -> {[o EXCEPT !.put.err = TRUE]}
      [] OTHER -> {o}

\* case PUT of Do: write, then ask for the end (a file: one or the other).
PutCase(o) ==
    LET Ends(q) == q.put.buf = <<>> /\ q.put.eof /\ ~q.put.err
        After(r) == IF r.n = 0 THEN r.o ELSE [r.o EXCEPT !.put.buf = Rest(@, r.n)]
    IN IF to_file
       THEN IF Ends(o) THEN StoreStatus(o) ELSE {After(r) : r \in PutLL(o, o.put.buf)}
       ELSE UNION {IF Ends(After(r)) THEN StoreStatus(After(r)) ELSE {After(r)} : r \in PutLL(o, o.put.buf)}

\* FileCopyPeerFA::Do and FileCopyPeerFDStream::Do of the put peer
PutDo ==
    /\ ~fall /\ ~put.susp /\ "put" \notin ran /\ ~error
    /\ ran' = ran \cup {"put"}
    /\ IF PutDone(put) THEN SetPut(Putting)
       ELSE IF put.verify THEN SetPut([Putting EXCEPT !.put.done = TRUE])
       ELSE CASE ~to_file /\ ps.st = "closed" /\ put.want /\ put.size = NoSizeYet ->
                   SetPut([Putting EXCEPT !.ps.st = "info"])
              [] ps.st = "info" -> SetPut(Putting)
              [] ps.st = "replied" ->
                   SetPut([Close(Putting) EXCEPT !.put = SetSize(put, ps.pos)])
              [] OTHER -> \E o \in PutCase(Putting) : SetPut(o)
    /\ UNCHANGED <<kind, copy, source, faults>>

-----------------------------------------------------------------------------
(* FileCopy::Do.  A pass of the scheduler calls the Do of each peer that   *)
(* is not suspended, in any order, before it calls this one again.         *)

Turn(st) ==
    /\ state = st /\ ~error
    /\ fall \/ ((get.susp \/ "get" \in ran) /\ (put.susp \/ "put" \in ran))

\* The call ends in state st, or falls through to it.
Enter(st, falls) == state' = st /\ fall' = falls /\ ran' = {}
Leave == Enter(state, FALSE)
Fail == error' = TRUE /\ Enter(state, FALSE)
Settled == UNCHANGED <<kind, put_eof_pos, remove_source_later, faults>>
Fine == UNCHANGED error

G == RealGet(Getting)
P == RealPut(Putting)
SuspendGet(s, b) == [s EXCEPT !.get.susp = b]
SuspendPut(o, b) == [o EXCEPT !.put.susp = b]
Known(size) == size # NoSize /\ size # NoSizeYet

\* case INITIAL, with the size of the source to be found first.
Initial_Info ==
    /\ Turn("INITIAL") /\ cont /\ ~to_file /\ get.size = NoSizeYet
    /\ SetPut(SuspendPut([Putting EXCEPT !.put.want = TRUE, !.put.size = NoSizeYet], TRUE))
    /\ SetGet([Getting EXCEPT !.get.start = FALSE, !.get.susp = FALSE, !.get.want = TRUE])
    /\ Enter("GET_INFO_WAIT", TRUE) /\ Fine /\ Settled

GetInfoWait ==
    /\ Turn("GET_INFO_WAIT")
    /\ IF get.err THEN Fail
       ELSE Fine /\ IF get.size = NoSizeYet THEN Leave ELSE Enter("INITIAL", TRUE)
    /\ UNCHANGED <<source, dest>> /\ Settled

\* case INITIAL: with -c the target is sought to its end.
Initial ==
    /\ Turn("INITIAL") /\ ~(cont /\ ~to_file /\ get.size = NoSizeYet)
    /\ LET g == [get EXCEPT !.want = @ \/ get.size = NoSizeYet]
           p == [put EXCEPT !.e_size = IF Known(get.size) THEN get.size ELSE @,
                            !.want = @ \/ cont]
           o == [Putting EXCEPT !.put = p]
       IN IF cont
          THEN /\ SetGet(SuspendGet([Getting EXCEPT !.get = g], TRUE))
               /\ SetPut(SuspendPut(SeekPut(o, FileEnd), FALSE))
               /\ Enter("PUT_WAIT", TRUE)
          ELSE /\ SetGet(SuspendGet([Getting EXCEPT !.get = [g EXCEPT !.start = TRUE]], FALSE))
               /\ SetPut(o)
               /\ Enter("DO_COPY", TRUE)
    /\ Fine /\ Settled

IOReady ==
    IF to_file THEN TRUE
    ELSE put.seek = 0 \/ (~(put.seek = FileEnd /\ put.size = NoSizeYet) /\ ps.st \in {"data", "wait"})

\* case PUT_WAIT: the target is complete, or the get peer follows the put peer.
PutWait ==
    /\ Turn("PUT_WAIT")
    /\ LET complete == put.seek # FileEnd /\ get.size >= 0 /\ put.seek >= get.size
           s == IF get.can THEN SeekGet(Getting, P.put.pos) ELSE Getting
       IN IF put.err THEN Fail /\ UNCHANGED <<source, dest>>
          ELSE IF complete \/ ~IOReady
          THEN /\ Fine /\ UNCHANGED <<source, dest>>
               /\ IF ~complete THEN Leave
                  ELSE IF dated THEN Enter("pre_CONFIRM_WAIT", TRUE) ELSE Enter("pre_GET_DONE_WAIT", TRUE)
          ELSE /\ Fine /\ SetPut(P)
               /\ SetGet(SuspendGet([s EXCEPT !.get.start = TRUE], FALSE))
               /\ Enter("DO_COPY", TRUE)
    /\ Settled

\* case DO_COPY.  Errors of the peers; the put position is not known yet.
GetFailed == get.err /\ get.buf = <<>>
DoCopy_Error ==
    /\ Turn("DO_COPY") /\ (put.err \/ GetFailed)
    /\ Fail /\ Settled /\ UNCHANGED <<source, dest>>

DoCopy_PosUnknown ==
    /\ Turn("DO_COPY") /\ ~put.err /\ ~GetFailed /\ put.seek = FileEnd
    /\ SetPut(SuspendPut(Putting, FALSE)) /\ SetGet(SuspendGet(Getting, TRUE))
    /\ Leave /\ Fine /\ Settled

Copying == Turn("DO_COPY") /\ ~put.err /\ ~GetFailed /\ put.seek # FileEnd
Resumed(s) == SuspendGet(s, FALSE)
PutResumed == SuspendPut(P, FALSE)

\* CheckFileSizeAtEOF
SizeOK == LET pos == MaxOf(G.get.pos, P.put.pos)
          IN ~Known(get.size) \/ pos <= 0 \/ pos >= get.size

AtEof(s, o) ==
    /\ SetGet(Resumed(s)) /\ SetPut(SuspendPut(o, FALSE))
    /\ IF SizeOK THEN Enter("pre_CONFIRM_WAIT", TRUE) /\ Fine ELSE Fail

\* The put peer is behind: the get peer is sought back.
DoCopy_PutBehind ==
    /\ Copying /\ P.put.pos < G.get.pos
    /\ SetPut(PutResumed)
    /\ IF P.put.pos = 0 \/ G.get.can
       THEN SetGet(SeekGet(Resumed(G), P.put.pos)) /\ Leave /\ Fine
       ELSE SetGet(Resumed(G)) /\ Fail
    /\ Settled

\* The get peer is behind: it was complete, or its data is skipped, or the put
\* peer is sought back.
DoCopy_GetBehind ==
    /\ Copying /\ P.put.pos > G.get.pos
    /\ LET skip == P.put.pos - G.get.pos
           n == MinOf(skip, Len(G.get.buf))
       IN IF get.size >= 0 /\ P.put.pos >= get.size THEN AtEof(G, P)
          ELSE /\ Leave /\ Fine
               /\ IF ~CanSeekPut(P.put, G.get.pos) \/ skip < SkipMin
                  THEN /\ SetGet(Resumed([G EXCEPT !.get.pos = @ + n, !.get.buf = Rest(@, n)]))
                       /\ SetPut(PutResumed)
                  ELSE /\ SetGet(Resumed(G))
                       /\ SetPut(SeekPut(PutResumed, G.get.pos))
    /\ Settled

InStep == Copying /\ P.put.pos = G.get.pos
Full == Len(P.put.buf) >= MaxBuf

DoCopy_Eof ==
    /\ InStep /\ G.get.buf = <<>> /\ G.get.eof
    /\ AtEof(G, P) /\ Settled

IdleAnyway == TRUE  \* fault: the buffer of the put peer is not looked at
Idle == P.put.buf = <<>>

\* Nothing to copy: the put peer sleeps when it has nothing left to write.
DoCopy_NoData ==
    /\ InStep /\ G.get.buf = <<>> /\ ~G.get.eof
    /\ SetGet(SuspendGet(G, Full))
    /\ SetPut(SuspendPut(P, Idle))
    /\ Leave /\ Fine /\ Settled

DoCopy_Data ==
    /\ InStep /\ G.get.buf # <<>>
    /\ SetGet(SuspendGet([G EXCEPT !.get.pos = @ + Len(G.get.buf), !.get.buf = <<>>], Full))
    /\ \E o \in Put(PutResumed, G.get.buf) : SetPut(o)
    /\ Leave /\ Fine /\ Settled

\* The put peer shall finish; its position may still turn out to be wrong.
PreConfirmWait ==
    /\ state = "pre_CONFIRM_WAIT" /\ ~error
    /\ SetPut(SuspendPut([P EXCEPT !.put.eof = TRUE, !.put.e_size = IF Known(get.size) THEN get.size ELSE @], FALSE))
    /\ put_eof_pos' = P.put.pos
    /\ SetGet(SuspendGet(Getting, TRUE))
    /\ Enter("CONFIRM_WAIT", TRUE) /\ Fine /\ UNCHANGED <<kind, remove_source_later, faults>>

ConfirmWait ==
    /\ Turn("CONFIRM_WAIT")
    /\ SetPut(IF put.err THEN Putting ELSE P) /\ UNCHANGED source
    /\ IF put.err THEN Fail
       ELSE /\ Fine
            /\ IF put_eof_pos # P.put.pos \/ put.seek = FileEnd THEN Enter("DO_COPY", FALSE)
               ELSE IF PutDone(P.put) THEN Enter("pre_GET_DONE_WAIT", TRUE)
               ELSE Leave
    /\ Settled

PreGetDoneWait ==
    /\ state = "pre_GET_DONE_WAIT" /\ ~error
    /\ SetGet([get |-> [get EXCEPT !.buf = <<>>, !.eof = TRUE, !.susp = FALSE], gs |-> Closed])
    /\ SetPut(SuspendPut(Putting, TRUE))
    /\ Enter("GET_DONE_WAIT", TRUE) /\ Fine /\ Settled

GetDoneWait ==
    /\ Turn("GET_DONE_WAIT")
    /\ IF get.err THEN Fail /\ UNCHANGED <<source, remove_source_later>>
       ELSE /\ Fine /\ remove_source_later' = FALSE
            /\ LET s == IF remove_source_later
                        THEN [Getting EXCEPT !.get.removing = TRUE, !.gs.st = "remove"] ELSE Getting
               IN IF GetDone(s.get)
                  THEN SetGet(SuspendGet(s, TRUE)) /\ Enter("ALL_DONE", FALSE)
                  ELSE SetGet(s) /\ Leave
    /\ UNCHANGED <<kind, dest, put_eof_pos, faults>>

Do ==
    \/ Initial_Info \/ GetInfoWait \/ Initial \/ PutWait
    \/ DoCopy_Error \/ DoCopy_PosUnknown \/ DoCopy_PutBehind \/ DoCopy_GetBehind
    \/ DoCopy_Eof \/ DoCopy_NoData \/ DoCopy_Data
    \/ PreConfirmWait \/ ConfirmWait \/ PreGetDoneWait \/ GetDoneWait

-----------------------------------------------------------------------------
(* What happens to the sessions between the calls of Do. *)

Outside == ~fall /\ ~error /\ state # "ALL_DONE"
SrcFault == faults[1] < chosen.src_faults /\ faults' = [faults EXCEPT ![1] = @ + 1]
DstFault == faults[2] < chosen.dst_faults /\ faults' = [faults EXCEPT ![2] = @ + 1]
NoFault == UNCHANGED faults
SrcStays == UNCHANGED <<kind, copy, ran, dest>>
DstStays == UNCHANGED <<kind, copy, ran, source>>

\* Nothing is transferred when pos is the expected size already.
Complete(size, pos) == size > 0 /\ pos >= size

\* The transfer begins, from pos or (REST is refused) from 0; a wanted size
\* comes with it.
SrcConnect ==
    /\ Outside /\ ~get.susp /\ gs.st = "conn"
    /\ \E rest \in BOOLEAN :
          /\ IF rest \/ gs.pos = 0 THEN NoFault ELSE ~Complete(get.size, gs.pos) /\ SrcFault
          /\ gs' = [gs EXCEPT !.st = "data", !.real = IF rest THEN gs.pos ELSE 0]
    /\ get' = [get EXCEPT !.size = IF get.want THEN N ELSE @]
    /\ SrcStays

\* The connection is lost: the session connects anew by itself, or gives up.
SrcFail ==
    /\ Outside /\ ~get.susp /\ gs.st \in {"conn", "data"} /\ SrcFault
    /\ \E st \in {"conn", "failed"} : gs' = [gs EXCEPT !.st = st, !.real = -1]
    /\ UNCHANGED get /\ SrcStays

\* The answer to GetInfoArray, which may be an error.
SrcInfo ==
    /\ Outside /\ ~get.susp /\ gs.st = "info"
    /\ \/ NoFault /\ gs' = [gs EXCEPT !.st = "replied", !.pos = N]
       \/ SrcFault /\ gs' = [gs EXCEPT !.st = "replied", !.pos = NoSize]
    /\ UNCHANGED get /\ SrcStays

\* The server opens the file to store into, after REST or from the start.
DstConnect ==
    /\ Outside /\ ~put.susp /\ ps.st = "conn" /\ ~Complete(put.e_size, ps.pos)
    /\ \E rest \in BOOLEAN :
          LET p == IF rest THEN ps.pos ELSE 0
          IN /\ IF p = ps.pos THEN NoFault ELSE DstFault
             /\ ps' = [ps EXCEPT !.st = "data", !.pos = p]
             /\ target' = Front(target, MinOf(p, Len(target)))
    /\ UNCHANGED <<put, wire>> /\ DstStays

DstComplete ==
    /\ Outside /\ ~put.susp /\ ps.st = "conn" /\ Complete(put.e_size, ps.pos)
    /\ ps' = [ps EXCEPT !.st = "wait"]
    /\ UNCHANGED <<put, wire, target, faults>> /\ DstStays

\* The server stores what has arrived.
DstStore ==
    /\ Outside /\ wire # <<>>
    /\ target' = Append(target, Head(wire)) /\ wire' = Tail(wire)
    /\ UNCHANGED <<put, ps, faults>> /\ DstStays

\* The connection is lost with what was on its way: an error of the session
\* (STORE_FAILED) if anything was written to it, or a fatal one.
DstFail ==
    /\ Outside /\ ~put.susp /\ ps.st \in {"conn", "data", "wait"} /\ DstFault
    /\ \E st \in {"refused"} \cup (IF to_file THEN {} ELSE IF ps.io THEN {"failed"} ELSE {"conn"}) :
          ps' = [ps EXCEPT !.st = st]
    /\ wire' = <<>>
    /\ UNCHANGED <<put, target>> /\ DstStays

\* The server confirms that the file is stored.
DstStored ==
    /\ Outside /\ ~put.susp /\ ps.st = "wait" /\ wire = <<>>
    /\ ps' = [ps EXCEPT !.st = "stored"]
    /\ UNCHANGED <<put, wire, target, faults>> /\ DstStays

DstInfo ==
    /\ Outside /\ ~put.susp /\ ps.st = "info"
    /\ \/ NoFault /\ ps' = [ps EXCEPT !.st = "replied", !.pos = Len(target)]
       \/ DstFault /\ ps' = [ps EXCEPT !.st = "replied", !.pos = NoSize]
    /\ UNCHANGED <<put, wire, target>> /\ DstStays

Sessions == SrcConnect \/ SrcInfo \/ DstConnect \/ DstComplete \/ DstStore \/ DstStored \/ DstInfo
Failures == SrcFail \/ DstFail

-----------------------------------------------------------------------------
GetPeer(size) ==
    [pos |-> 0, buf |-> <<>>, eof |-> FALSE, err |-> FALSE, susp |-> TRUE, seek |-> 0, can |-> TRUE,
     size |-> size, want |-> FALSE, start |-> TRUE, removing |-> FALSE]
PutPeer ==
    [pos |-> 0, buf |-> <<>>, eof |-> FALSE, err |-> FALSE, susp |-> TRUE, seek |-> 0, can |-> TRUE,
     size |-> NoSizeYet, want |-> FALSE, e_size |-> NoSize, verify |-> FALSE, done |-> FALSE]

Init ==
    /\ state = "INITIAL" /\ error = FALSE /\ put_eof_pos = 0 /\ remove_source_later \in BOOLEAN
    /\ cont \in BOOLEAN /\ dated \in BOOLEAN
    /\ fall = FALSE /\ ran = {} /\ faults = <<0, 0>> /\ wire = <<>>
    /\ \E size \in {N, NoSizeYet} : get = GetPeer(size)
    /\ put = PutPeer
    /\ gs = Closed
    /\ chosen \in Copies
    /\ ps = IF to_file THEN [Closed EXCEPT !.st = "data"] ELSE Closed
    /\ \E n \in 0..N : target = IF cont \/ ~to_file THEN Front(Source, n) ELSE <<>>

Next == Do \/ GetDo \/ PutDo \/ Sessions \/ Failures

Spec == Init /\ [][Next]_vars

-----------------------------------------------------------------------------
Offset == 0..N - 1
TypeOK ==
    /\ target \in Seq(Offset) /\ wire \in Seq(Offset)
    /\ get.buf \in Seq(Offset) /\ put.buf \in Seq(Offset)
    /\ get.pos \in 0..N /\ put.pos \in 0..N
    /\ get.seek \in 0..N /\ put.seek \in {FileEnd} \cup 0..2 * N

\* A copy that ends without an error has made the target equal to the source,
\* and only then the source is removed.
Faithful == ~error /\ state \in {"GET_DONE_WAIT", "ALL_DONE"} => target = Source

\* No byte is ever stored where it does not belong.
InPlace == TypeOK /\ \A i \in DOMAIN target : target[i] = i - 1

\* Every copy ends.  Not so when a store has failed: when Do finds the end of the source
\* between the answer that says how much is stored and the call that opens the session there,
\* the end is announced before the rest is written, and no confirmation comes.
CopyEnds == <>(error \/ state = "ALL_DONE" \/ (~to_file /\ faults[2] > 0))

FairSpec ==
    /\ Spec
    /\ WF_vars(Do) /\ WF_vars(GetDo) /\ WF_vars(PutDo)
    /\ SF_vars(GetDo /\ get'.buf # get.buf) /\ SF_vars(PutDo /\ put'.buf # put.buf)
    /\ WF_vars(SrcConnect) /\ WF_vars(SrcInfo) /\ WF_vars(DstConnect) /\ WF_vars(DstComplete)
    /\ WF_vars(DstStore) /\ WF_vars(DstStored) /\ WF_vars(DstInfo)

=============================================================================
