-------------------------------- MODULE Ftp --------------------------------
(***************************************************************************)
(* FTP sessions (src/ftpclass.cc): Do, ReceiveResp, CheckResp, the queue   *)
(* of expected replies, and the connection a session has, abandons, or     *)
(* takes over from another session of the same site.  Of the operations,   *)
(* CHANGE_DIR, REMOVE (the others that send one command and have no data   *)
(* connection take the same path), RETRIEVE and STORE.                     *)
(*                                                                         *)
(* Data connections are passive.  Left out: proxies, TLS, FEAT and the     *)
(* other tuning of a connection, TYPE, MODE, SIZE, MDTM, ALLO, listings    *)
(* (LIST is a RETRIEVE without REST), FXP, web-mode.  USER and PASS are    *)
(* one command.  Timers are nondeterministic; the settings modelled are    *)
(* constants, others have their defaults (use-abor, use-quit).             *)
(*                                                                         *)
(* A path is a sequence of names.  The file that a session reads is, in    *)
(* every directory, N bytes long; byte i of it is <<directory, i>>.  What  *)
(* session s writes at position i is the byte i; store[s] is the file on   *)
(* the server that it writes.                                              *)
(***************************************************************************)
EXTENDS Integers, Sequences, FiniteSets, SequencesExt

CONSTANTS
    Sessions,
    ModesOf,          \* session -> the operations that its user calls
    Priority,         \* session -> FileAccess::priority
    Dirs,             \* directories of the server; <<>> is the home of the user
    N,                \* size of the files
    SyncModes,        \* subset of BOOLEAN: ftp:sync-mode
    Tvfs,             \* the server supports TVFS (ftp:use-tvfs is auto)
    Takeover,         \* net:connection-takeover
    Limit,            \* net:connection-limit
    MaxOpens,         \* bound: operations of one session
    FaultKinds,       \* what can go wrong
    Faults            \* bound: how often

Kinds == {"lost", "refused", "421", "4xx", "5xx", "rest", "rest 4xx", "truncated", "reset"}

Unknown == <<"?">>     \* real_cwd is null
ASSUME FtpAssumption ==
    /\ IsFiniteSet(Sessions) /\ <<>> \in Dirs /\ Dirs \subseteq Seq(STRING) /\ Unknown \notin Dirs
    /\ {N, Faults, Limit} \subseteq Nat /\ Limit > 0 /\ {Tvfs, Takeover} \subseteq BOOLEAN
    /\ SyncModes \subseteq BOOLEAN /\ FaultKinds \subseteq Kinds
    /\ DOMAIN ModesOf = Sessions /\ DOMAIN Priority = Sessions

VARIABLES ses, conn, store, opens, faults
vars == <<ses, conn, store, opens, faults>>

Missing == <<"missing">>    \* a directory that does not exist

\* The fields of a session
IdleSession(sync) ==
    [mode |-> "CLOSED", state |-> "INITIAL", error |-> "OK", eof |-> FALSE,
     norest |-> FALSE,                        \* NOREST_MODE
     io |-> FALSE,                            \* IO_FLAG
     pos |-> 0, real |-> -1,                  \* pos, real_pos
     cwd |-> <<>>, rcwd |-> Unknown,          \* cwd, real_cwd
     file |-> <<>>,                           \* file of CHANGE_DIR
     pasv |-> "none",                         \* pasv_state
     sync |-> sync,                           \* SYNC_MODE
     asserts |-> TRUE]                        \* no assert() has failed

NoBuf == [dir |-> "none", buf |-> <<>>, eof |-> FALSE, err |-> FALSE]
NoRx == [buf |-> <<>>, fin |-> FALSE]
NoXfer == [op |-> "none", st |-> "none", at |-> 0, short |-> FALSE]
NoConn == [on |-> FALSE]

\* A connection: the Connection and ExpectQueue objects of the client, then
\* what the network and the server have of it.
NewConn ==
    [on |-> TRUE,
     expect |-> <<>>, sync_wait |-> 1,        \* the greeting is expected
     unsent |-> <<>>,                         \* send_cmd_buffer
     data |-> "none", aborted |-> "none",     \* data_sock, aborted_data_sock
     iob |-> NoBuf,                           \* data_iobuf
     quit |-> FALSE,                          \* quit_sent
     rest_pos |-> 0, last_rest |-> 0, got150 |-> FALSE,
     net |-> "syn",                           \* the control connection
     inq |-> <<>>,                            \* commands on their way
     out |-> <<>>,                            \* replies on their way
     scwd |-> <<>>, srest |-> 0,              \* the server's directory and REST
     lsn |-> FALSE,                           \* it listens for a data connection
     dsock |-> "none",                        \* which socket it is connected to
     xfer |-> NoXfer,                         \* RETR or STOR in execution
     rx |-> NoRx]                             \* data on its way to the client

\* A failed assert() ends the program, but not the server.
Running == \A s \in Sessions : ses[s].asserts
Online(s) == Running /\ conn[s].on

\* The actions work on w, a session f and its connection c.
W(s) == [f |-> ses[s], c |-> conn[s]]

-----------------------------------------------------------------------------
(* The queue of expected replies *)

Exp(kind) == [kind |-> kind, arg |-> <<>>]
ExpDir(kind, dir) == [kind |-> kind, arg |-> dir]
CwdKinds == {"CWD", "CWD_CURR", "CWD_STALE"}
First(c, kind) == c.expect # <<>> /\ Head(c.expect).kind = kind
Has(c, kind) == \E i \in DOMAIN c.expect : c.expect[i].kind = kind
HasCWD(c) == \E i \in DOMAIN c.expect : c.expect[i].kind \in CwdKinds
\* FindLastCWD
LastCWD(c) == CHOOSE i \in DOMAIN c.expect :
    /\ c.expect[i].kind \in CwdKinds
    /\ \A j \in DOMAIN c.expect : c.expect[j].kind \in CwdKinds => j <= i

\* ExpectQueue::Close
Stale(e) ==
    CASE e.kind \in {"CWD", "CWD_CURR"} -> [e EXCEPT !.kind = "CWD_STALE"]
      [] e.kind \in {"REST", "FILE_ACCESS"} -> [e EXCEPT !.kind = "IGNORE"]
      [] e.kind = "TRANSFER" -> [e EXCEPT !.kind = "TRANSFER_CLOSED"]
      [] OTHER -> e
CloseExpect(c) == [c EXCEPT !.expect = [i \in DOMAIN @ |-> Stale(@[i])]]

\* SendCmd and Push, which always go together.  For a command that names a
\* file, for is the session's directory, in which it is to be executed.
Cmd(op, path, for) == [op |-> op, path |-> path, for |-> for]
Command(w, cmd, e) == [w EXCEPT !.c.unsent = Append(@, cmd), !.c.expect = Append(@, e)]

\* FlushSendQueue: in sync mode a command waits for the reply to the last.
Flush(w, all) ==
    LET c == w.c
        n == IF all \/ ~w.f.sync THEN Len(c.unsent)
             ELSE IF c.sync_wait <= 0 /\ c.unsent # <<>> THEN 1 ELSE 0
    IN IF ~c.on \/ n = 0 THEN w
       ELSE [w EXCEPT !.c.unsent = SubSeq(@, n + 1, Len(@)), !.c.sync_wait = @ + n,
                      !.c.inq = IF c.net = "up" THEN @ \o SubSeq(c.unsent, 1, n) ELSE @]

-----------------------------------------------------------------------------
(* Closing *)

\* CloseDataConnection and CloseAbortedDataConnection.  The server's socket
\* breaks unless the client has got all that was sent.
CloseData(c) ==
    [c EXCEPT !.data = "none", !.iob = NoBuf,
              !.dsock = IF @ # "data" THEN @
                        ELSE IF c.rx = [buf |-> <<>>, fin |-> TRUE] THEN "closed" ELSE "broken",
              !.rx = IF c.data = "open" THEN NoRx ELSE @]
CloseAborted(c) ==
    [c EXCEPT !.aborted = "none", !.dsock = IF @ = "aborted" THEN "broken" ELSE @]
\* AbortDataConnection
AbortData(c) ==
    LET d == CloseAborted(c)
    IN [d EXCEPT !.aborted = c.data, !.data = "none", !.iob = NoBuf, !.rx = NoRx,
                 !.dsock = IF @ = "data" THEN "aborted" ELSE @]

DataClose(w) ==
    IF ~w.c.on THEN w
    ELSE [w EXCEPT !.c = CloseData(@),
                   !.f.state = IF @ \in {"DATA", "PASV"} THEN "WAITING" ELSE @]

\* Fault: what was written is taken to be stored.
DisconnectNowRetrying(w) == [f |-> [w.f EXCEPT !.state = "INITIAL"], c |-> NoConn]

\* Close of the control connection and DisconnectNow
DisconnectNow(w) ==
    [f |-> [w.f EXCEPT !.state = "INITIAL",
                       !.error = IF w.f.mode = "STORE" /\ w.f.io THEN "STORE_FAILED" ELSE @],
     c |-> NoConn]

\* Once the expected replies are closed: the way to interrupt the transfer
Interrupt(v) ==
    IF Len(v.c.expect) > 1
    THEN IF v.f.state = "PASV" /\ v.f.pasv # "connecting"
         THEN DisconnectNow(v)          \* the server cannot be interrupted
         ELSE DataClose(v)
    ELSE IF v.c.aborted # "none" THEN DisconnectNow(v)
    ELSE [Flush(Command(v, Cmd("ABOR", <<>>, <<>>), Exp("ABOR")), TRUE) EXCEPT !.c = AbortData(@)]

DataAbort(w) ==
    IF ~w.c.on \/ w.f.state = "CONNECTING" \/ w.c.quit \/ w.c.data = "none" \/ w.c.expect = <<>>
    THEN w
    ELSE Interrupt([w EXCEPT !.c = CloseExpect(@)])

\* DisconnectLL: with QUIT if at most one reply is outstanding
Leave(v) ==
    IF v.c.on /\ v.f.state # "CONNECTING" /\ Len(v.c.expect) < 2
    THEN [Command(v, Cmd("QUIT", <<>>, <<>>), Exp("IGNORE")) EXCEPT !.c.quit = TRUE]
    ELSE DisconnectNow(v)
Disconnect(w) ==
    IF ~w.c.on \/ w.c.quit THEN w
    ELSE Leave(DataClose(DataAbort([w EXCEPT !.c = CloseExpect(@)])))

\* HandleTimeout
TimeOut(w) == DisconnectNow([w EXCEPT !.c.quit = TRUE])

-----------------------------------------------------------------------------
(* Changing the directory *)

\* Without TVFS a path is sent name by name, starting at real_cwd, at the
\* root, or at the first name below it.
CwdBase(path, rcwd) ==
    IF rcwd \notin {Unknown, <<>>} /\ IsStrictPrefix(rcwd, path) THEN rcwd
    ELSE IF rcwd = <<>> \/ path = <<>> THEN <<>> ELSE SubSeq(path, 1, 1)

\* The CWD commands to be sent: path, whether it is absolute, and the
\* directory they are meant to lead to.
CwdSteps(path, rcwd) ==
    LET base == CwdBase(path, rcwd)
        first == IF base = rcwd THEN <<>> ELSE <<[op |-> "CWD", path |-> base, to |-> base]>>
    IN IF Tvfs THEN <<[op |-> "CWD", path |-> path, to |-> path]>>
       ELSE first \o [i \in 1..Len(path) - Len(base) |->
                        [op |-> "CWD rel", path |-> <<path[Len(base) + i]>>,
                         to |-> SubSeq(path, 1, Len(base) + i)]]

\* SendCWD
SendCWD(w, path, kind) ==
    LET steps == CwdSteps(path, w.f.rcwd)
        v == [w EXCEPT !.c.unsent = @ \o [i \in DOMAIN steps |-> Cmd(steps[i].op, steps[i].path, <<>>)],
                       !.c.expect = @ \o [i \in DOMAIN steps |-> ExpDir("CWD_CURR", steps[i].to)]]
    IN IF HasCWD(v.c) THEN [v EXCEPT !.c.expect[LastCWD(v.c)].kind = kind] ELSE v

\* In EOF_STATE: a CWD in flight that leads to the right place is enough.
EnsureCWD(w) ==
    LET last == w.c.expect[LastCWD(w.c)]
    IN IF w.f.mode = "CHANGE_DIR" THEN w
       ELSE IF ~HasCWD(w.c)
       THEN IF w.f.rcwd # w.f.cwd THEN SendCWD(w, w.f.cwd, "CWD_CURR") ELSE w
       ELSE IF last.arg # w.f.cwd THEN SendCWD(w, w.f.cwd, "CWD_CURR")
       ELSE [w EXCEPT !.c.expect[LastCWD(w.c)].kind = "CWD_CURR"]

-----------------------------------------------------------------------------
(* Replies.  421 and 426 are codes of the class 4. *)

Class(code) == IF code \in {421, 426} THEN 4 ELSE code
SetError(w, e) == [w EXCEPT !.f.error = e]
\* Retry from EOF_STATE.
Retry(w) == [DataClose(w) EXCEPT !.f.state = "EOF", !.f.eof = FALSE]
NoRest(w) == [w EXCEPT !.f.norest = TRUE, !.f.real = 0,
                       !.f.pos = IF w.f.mode = "STORE" THEN 0 ELSE @]

\* Fault: does not look at the code.
RestCheckIgnoring(w, code) == [w EXCEPT !.f.real = w.c.rest_pos, !.c.last_rest = w.c.rest_pos]

RestCheck(w, code) ==
    IF Class(code) \in {2, 3}
    THEN [w EXCEPT !.f.real = w.c.rest_pos, !.c.last_rest = w.c.rest_pos]
    ELSE LET v == [w EXCEPT !.f.real = 0]
         IN IF w.f.pos = 0 THEN v ELSE IF Class(code) = 5 THEN NoRest(v) ELSE Disconnect(v)

NoFileCheck(w, code) ==
    LET fatal == Class(code) = 5 /\ ~(w.f.mode # "STORE" /\ w.f.io)   \* not Transient5XX
        v == Retry(w)
    IN IF Class(code) = 2 THEN w
       ELSE IF fatal /\ w.f.real > 0 /\ ~w.f.io THEN [NoRest(DataClose(w)) EXCEPT !.f.state = "EOF"]
       ELSE IF fatal THEN SetError(w, "NO_FILE")
       ELSE IF w.f.mode = "STORE" /\ w.f.io THEN SetError(v, "STORE_FAILED") ELSE v

TransferCheck(w, code) ==
    LET v == IF code = 2 THEN [w EXCEPT !.c = CloseAborted(@)] ELSE w
        u == IF code = 426 /\ w.f.mode = "STORE" THEN SetError([DataClose(v) EXCEPT !.f.state = "EOF"], "FATAL")
             ELSE IF code = 2 /\ w.c.data = "none" THEN [v EXCEPT !.f.eof = TRUE] ELSE v
    IN IF code = 2 /\ ~w.c.got150 /\ w.f.state # "DATA"
       THEN [DataClose(v) EXCEPT !.f.state = "EOF", !.f.eof = TRUE]
       ELSE NoFileCheck(u, code)

\* CheckResp of a reply that is not preliminary, for the expectation e
Expected(w, e, code) ==
    LET ok == Class(code) = 2
    IN CASE e.kind \in {"IGNORE", "TRANSFER_CLOSED"} -> w
         [] e.kind = "READY" -> IF ok THEN w ELSE Disconnect(w)
         [] e.kind = "PASS" -> IF ok THEN w
                               ELSE IF Class(code) = 5 THEN SetError(w, "LOGIN_FAILED") ELSE Disconnect(w)
         [] e.kind = "REST" -> RestCheck(w, code)
         [] e.kind = "CWD_STALE" -> IF ok THEN [w EXCEPT !.f.rcwd = e.arg] ELSE w
         [] e.kind \in {"CWD", "CWD_CURR"} ->
              IF ok THEN [w EXCEPT !.f.rcwd = e.arg, !.f.cwd = IF e.kind = "CWD" THEN w.f.file ELSE @]
              ELSE IF Class(code) = 5 THEN SetError(w, "NO_FILE") ELSE Disconnect(w)
         [] e.kind = "ABOR" -> [w EXCEPT !.c = CloseAborted(@)]
         [] e.kind = "FILE_ACCESS" -> NoFileCheck(w, code)
         [] e.kind = "PASV" -> IF ~ok THEN Disconnect(w)
                               ELSE [w EXCEPT !.f.pasv = "have",
                                              !.c.aborted = IF @ = "unbound" THEN "connecting" ELSE @]
         [] e.kind = "TRANSFER" -> TransferCheck(w, code)

\* Fault: a preliminary reply counts as the reply.
CheckRespPreliminary(w, code) ==
    IF w.c.expect = <<>> THEN w
    ELSE Expected([w EXCEPT !.c.expect = Tail(@)], Head(w.c.expect), IF code = 1 THEN 2 ELSE code)

CheckResp(w, code) ==
    LET c == w.c
        v == [w EXCEPT !.c.quit = @ \/ code = 421]
    IN IF code = 1
       THEN [w EXCEPT !.c = [CloseAborted(c) EXCEPT !.got150 = @ \/ First(c, "TRANSFER")]]
       ELSE IF c.expect = <<>> THEN IF code = 2 THEN v ELSE Disconnect(v)
       ELSE Expected([v EXCEPT !.c.expect = Tail(@)], Head(c.expect), code)

\* Fault: a negative reply does not free the way.
ReplyPositive(w, r) ==
    IF ~w.c.on THEN w
    ELSE CheckResp([w EXCEPT !.c.sync_wait = IF r.code = 2 THEN @ - 1 ELSE @], r.code)

\* One reply: a final one frees the way for the next command.  A reply to
\* nothing is ignored, unless it is 421.
Reply(w, r) ==
    LET answers == r.code # 1 /\ w.c.sync_wait > 0
    IN IF w.c.on /\ (answers \/ r.code \in {1, 421})
       THEN CheckResp([w EXCEPT !.c.sync_wait = IF answers THEN @ - 1 ELSE @], r.code)
       ELSE w

\* ReceiveResp: all replies that have arrived, then the end of the
\* connection if the server has closed it.
HangUp(v) == IF v.c.on /\ v.c.net = "down" THEN DisconnectNow(v) ELSE v
ReceiveResp(w) ==
    LET r == w.c.out
        after[n \in 0..Len(r)] == IF n = 0 THEN [w EXCEPT !.c.out = <<>>] ELSE Reply(after[n - 1], r[n])
    IN IF ~w.c.on \/ w.c.net = "syn" THEN w ELSE HangUp(after[Len(r)])

-----------------------------------------------------------------------------
(* Do.  A state begins with FlushSendQueue and ReceiveResp and goes on only *)
(* if they have not changed the state or set an error; then it returns or  *)
(* falls through to the next state.  Do_X(v) is the rest of the state X,   *)
(* after this exchange.                                                    *)

Exchange(w) ==
    ReceiveResp(IF w.f.state = "PASV" /\ w.f.pasv = "connecting" THEN w ELSE Flush(w, FALSE))
Undisturbed(v, state) == v.c.on /\ v.f.state = state /\ v.f.error = "OK"
To(w, state) == [w EXCEPT !.f.state = state]

\* WAITING_STATE
Do_WAITING(v) ==
    IF Undisturbed(v, "WAITING") /\ v.c.expect = <<>> THEN [v EXCEPT !.f.eof = TRUE] ELSE v

\* DATA_OPEN_STATE
Do_DATA(v) ==
    LET b == v.c.iob
        \* the data socket is closed after an error, what was read is kept
        u == IF b.err /\ v.c.data # "none" THEN [v EXCEPT !.c = [CloseData(@) EXCEPT !.iob = b]] ELSE v
        put == v.f.mode = "STORE"
        again == To(DataClose(u), "EOF")
    IN IF ~Undisturbed(v, "DATA") THEN v
       ELSE IF b.err /\ (put \/ (v.c.expect = <<>> /\ b.buf = <<>>))
       THEN IF v.c.expect # <<>> THEN DisconnectNow(u)
            ELSE IF put /\ v.f.io THEN SetError(again, "STORE_FAILED") ELSE again
       ELSE IF ~put /\ b.eof /\ b.buf = <<>>
       THEN [DataClose(u) EXCEPT !.f.state = "WAITING", !.f.eof = v.c.expect = <<>>]
       ELSE u

\* WAITING_150_STATE; timeout: waiting_150_timer has stopped
Do_W150(v, timeout) ==
    LET dir == IF v.f.mode = "STORE" THEN "PUT" ELSE "GET"
        ready == [v EXCEPT !.f.state = "DATA",
                           !.c.iob = IF @.dir = dir THEN @ ELSE [NoBuf EXCEPT !.dir = dir]]
    IN IF Undisturbed(v, "W150") /\ (v.c.got150 \/ v.c.expect = <<>> \/ timeout)
       THEN Do_DATA(Exchange(ready)) ELSE v

\* DATASOCKET_CONNECTING_STATE
Do_PASV(v, timeout) ==
    IF ~Undisturbed(v, "PASV") THEN v
    ELSE CASE v.f.pasv = "none" -> v
           [] v.f.pasv = "have" -> [v EXCEPT !.f.pasv = "connecting", !.c.data = "connecting"]
           [] v.f.pasv = "connecting" ->
                IF v.c.data = "failed" THEN Disconnect(v)
                ELSE IF v.c.data = "open" THEN Do_W150(Exchange(To(v, "W150")), timeout) ELSE v

\* Fault: takes the position of the last REST for that of the next transfer.
SendTransferTrusting(w) ==
    LET op == IF w.f.mode = "STORE" THEN "STOR" ELSE "RETR"
        pasv == Command([w EXCEPT !.f.pasv = "none", !.c.data = "unbound"], Cmd("PASV", <<>>, <<>>), Exp("PASV"))
        rest == IF w.c.last_rest # w.f.pos
                THEN [Command(pasv, [Cmd("REST", <<>>, <<>>) EXCEPT !.path = <<w.f.pos>>], Exp("REST"))
                        EXCEPT !.c.rest_pos = w.f.pos, !.f.real = -1]
                ELSE [pasv EXCEPT !.f.real = w.f.pos]
    IN To(Command(rest, Cmd(op, <<>>, w.f.cwd), Exp("TRANSFER")), "PASV")

\* PASV, REST unless the server is known to be there, and the transfer
SendTransfer(w) ==
    LET op == IF w.f.mode = "STORE" THEN "STOR" ELSE "RETR"
        at == IF w.f.real # -1 THEN w.f.real ELSE w.f.pos
        pasv == Command([w EXCEPT !.f.pasv = "none", !.c.data = "unbound"], Cmd("PASV", <<>>, <<>>), Exp("PASV"))
        rest == IF w.f.real = -1 \/ w.c.last_rest # w.f.real
                THEN [Command(pasv, [Cmd("REST", <<>>, <<>>) EXCEPT !.path = <<at>>], Exp("REST"))
                        EXCEPT !.c.rest_pos = at, !.f.real = -1]
                ELSE pasv
    IN To(Command(rest, Cmd(op, <<>>, w.f.cwd), Exp("TRANSFER")), "PASV")

\* CWD_CWD_WAITING_STATE, when the directory is the wanted one
ChangeDir(u) ==
    LET cd == SendCWD(u, u.f.file, "CWD")
        nothing == cd.c.unsent = u.c.unsent
    IN IF u.f.rcwd = u.f.file THEN [u EXCEPT !.f.cwd = u.f.file]
       ELSE IF nothing THEN [cd EXCEPT !.f.cwd = u.f.file] ELSE cd
Request(w) ==
    LET v == [w EXCEPT !.f.pos = IF w.f.mode = "STORE" /\ w.f.norest THEN 0 ELSE @,
                       !.f.io = FALSE, !.c.got150 = FALSE]
        u == [v EXCEPT !.f.real = IF v.f.norest \/ v.f.pos = 0 THEN 0 ELSE -1]
    IN CASE u.f.mode = "CHANGE_DIR" -> To(ChangeDir(u), "WAITING")
         [] u.f.mode = "REMOVE" -> To(Command(u, Cmd("DELE", <<>>, u.f.cwd), Exp("FILE_ACCESS")), "WAITING")
         [] OTHER -> SendTransfer([u EXCEPT !.f.asserts = @ /\ u.c.data = "none"])
Do_CWD(v, timeout) ==
    IF ~Undisturbed(v, "CWD") \/ (v.f.mode # "CHANGE_DIR" /\ HasCWD(v.c)) THEN v
    ELSE IF v.f.mode \in {"RETRIEVE", "STORE"} THEN Do_PASV(Exchange(Request(v)), timeout)
    ELSE Do_WAITING(Exchange(Request(v)))

\* EOF_STATE
Do_EOF(v, timeout) ==
    IF Undisturbed(v, "EOF")
    THEN Do_CWD(Exchange(To(EnsureCWD([v EXCEPT !.f.rcwd = IF @ = Unknown THEN <<>> ELSE @]), "CWD")), timeout)
    ELSE v

\* CONNECTED_STATE and USER_RESP_WAITING_STATE
Do_CONNECTED(v, timeout) ==
    LET login == Command([v EXCEPT !.f.rcwd = Unknown], Cmd("LOGIN", <<>>, <<>>), Exp("PASS"))
    IN IF ~Undisturbed(v, "CONNECTED") \/ v.c.quit \/ (v.f.sync /\ v.c.expect # <<>>) THEN v
       ELSE Do_EOF(Exchange(To(login, "EOF")), timeout)

\* CONNECTING_STATE
Do_CONNECTING(w, timeout) ==
    CASE w.c.net = "syn" -> w
      [] w.c.net = "down" -> Disconnect(w)
      [] OTHER -> Do_CONNECTED(Exchange([To(w, "CONNECTED") EXCEPT !.c.expect = <<Exp("READY")>>]), timeout)

Do_Quit(v) == IF v.c.on /\ v.c.expect = <<>> THEN DisconnectNow(v) ELSE v

\* The switch; v is w after its exchange.
Do_State(w, v, timeout) ==
    CASE w.c.quit -> Do_Quit(v)
      [] ~w.c.quit /\ (w.f.error # "OK" \/ w.f.eof \/ w.f.mode = "CLOSED") -> v
      [] OTHER ->
           CASE w.f.state = "CONNECTING" -> Do_CONNECTING(w, timeout)
             [] w.f.state = "CONNECTED" -> Do_CONNECTED(v, timeout)
             [] w.f.state = "EOF" -> Do_EOF(v, timeout)
             [] w.f.state = "CWD" -> Do_CWD(v, timeout)
             [] w.f.state = "PASV" -> Do_PASV(v, timeout)
             [] w.f.state = "W150" -> Do_W150(v, timeout)
             [] w.f.state = "DATA" -> Do_DATA(v)
             [] w.f.state = "WAITING" -> Do_WAITING(v)
Do_LL(w, timeout) == Do_State(w, Exchange(w), timeout)

Become(s, w) == ses' = [ses EXCEPT ![s] = w.f] /\ conn' = [conn EXCEPT ![s] = w.c]

\* A session that has a connection
HasConnection(s) == Online(s) /\ ses[s].state # "INITIAL"
Do(s) ==
    /\ HasConnection(s)
    /\ \E timeout \in (IF ses[s].state = "W150" THEN BOOLEAN ELSE {FALSE}) :
         \E w \in {Do_LL(W(s), timeout)} : w # W(s) /\ Become(s, w)
    /\ UNCHANGED <<store, opens, faults>>

-----------------------------------------------------------------------------
(* INITIAL_STATE: take the connection of another session or make one. *)

Others(s) == {o \in Sessions \ {s} : conn[o].on /\ ~conn[o].quit /\ ses[o].state \notin {"CONNECTING", "CONNECTED"}}
Idle(o) == conn[o].data = "none" /\ ses[o].state = "EOF" /\ ses[o].mode = "CLOSED"
LimitReached == Cardinality({s \in Sessions : conn[s].on}) >= Limit

\* GetBetterConnection: in order, an idle connection that is in the same
\* directory, an idle one, the active one of a session of lower priority.
SameDir(s) == {o \in Others(s) : Idle(o) /\ ses[o].rcwd = ses[s].rcwd}
AnyIdle(s) == IF SameDir(s) # {} THEN SameDir(s) ELSE {o \in Others(s) : Idle(o)}
Active(s) == {o \in Others(s) : ~Idle(o) /\ LimitReached /\ Takeover /\ Priority[o] < Priority[s]
                                /\ Len(conn[o].expect) <= (IF conn[o].data = "none" THEN 0 ELSE 1)}
\* An active session is interrupted first.
Interrupted(o) ==
    IF ~Idle(o) /\ conn[o].data # "none" THEN DataClose(DataAbort(W(o))) ELSE W(o)
CanTake(s, o) == o \in AnyIdle(s) \/ (AnyIdle(s) = {} /\ o \in Active(s))

NeedsConnection(s) == Running /\ ~conn[s].on /\ ses[s].mode # "CLOSED" /\ ses[s].error = "OK" /\ ~ses[s].eof

\* Fault: does not take over the directory.
TakeConnectionOnly(s, o) ==
    /\ NeedsConnection(s) /\ CanTake(s, o) /\ Idle(o)
    /\ ses' = [ses EXCEPT ![s].state = "EOF", ![o].state = "INITIAL"]
    /\ conn' = [conn EXCEPT ![s] = CloseExpect(conn[o]), ![o] = NoConn]
    /\ UNCHANGED <<store, opens, faults>>

\* MoveConnectionHere, unless the interruption has cost the connection
TakeConnection(s, o) ==
    /\ NeedsConnection(s) /\ CanTake(s, o)
    /\ LET v == Interrupted(o)
       IN /\ ses' = [ses EXCEPT ![s] = IF ~v.c.on THEN @
                                       ELSE [@ EXCEPT !.state = "EOF", !.rcwd = v.f.rcwd,
                                                      !.asserts = ses[s].asserts /\ v.c.iob = NoBuf],
                                ![o] = [v.f EXCEPT !.state = "INITIAL"]]
          /\ conn' = [conn EXCEPT ![s] = IF v.c.on THEN CloseExpect(v.c) ELSE @, ![o] = NoConn]
    /\ UNCHANGED <<store, opens, faults>>

Connect(s) ==
    /\ NeedsConnection(s) /\ ~LimitReached /\ AnyIdle(s) = {}
    /\ ses' = [ses EXCEPT ![s].state = "CONNECTING"]
    /\ conn' = [conn EXCEPT ![s] = NewConn]
    /\ UNCHANGED <<store, opens, faults>>

-----------------------------------------------------------------------------
(* The user of a session: a job or a FileCopy peer *)

\* Open.  A store starts at 0 or where the file on the server ends.
Open(s) ==
    /\ Running /\ ses[s].mode = "CLOSED" /\ opens[s] < MaxOpens
    /\ opens' = [opens EXCEPT ![s] = @ + 1]
    /\ \E mode \in ModesOf[s] :
       \E at \in (IF mode = "STORE" THEN {0, Len(store[s])} ELSE IF mode = "RETRIEVE" THEN {0, N \div 2} ELSE {0}) :
       \E file \in (IF mode = "CHANGE_DIR" THEN Dirs \cup {Missing} ELSE {<<>>}) :
          ses' = [ses EXCEPT ![s].mode = mode, ![s].pos = at, ![s].real = -1, ![s].file = file]
    /\ UNCHANGED <<conn, store, faults>>

\* Close, at the end of an operation or in the middle of it
CloseSession(w) ==
    LET v == DataClose(DataAbort([w EXCEPT !.f.norest = FALSE, !.f.eof = FALSE]))
        u == [v EXCEPT !.c = CloseExpect(@)]
        x == IF ~v.c.on THEN To(v, "INITIAL")
             ELSE IF v.f.state \in {"CONNECTING", "CONNECTED"} THEN Disconnect(u)
             ELSE IF v.f.state = "INITIAL" THEN u ELSE To(u, "EOF")
    IN [x EXCEPT !.f.mode = "CLOSED", !.f.error = "OK", !.f.file = <<>>]

Close(s) ==
    /\ Running /\ ses[s].mode # "CLOSED"
    /\ \E w \in {CloseSession(W(s))} : Become(s, w)
    /\ UNCHANGED <<store, opens, faults>>

\* CanRead, when it says that there are data
CanRead(w) ==
    /\ w.f.mode = "RETRIEVE" /\ w.f.error = "OK" /\ ~w.f.eof /\ w.c.on
    /\ w.c.iob.buf # <<>> /\ w.f.state # "PASV"
    /\ ~(Has(w.c, "REST") /\ w.f.real = -1)

\* Read: bytes before pos, of a transfer that could not be restarted there,
\* are skipped.
Skipped(w) == IF w.f.real < w.f.pos THEN (IF w.f.pos - w.f.real < Len(w.c.iob.buf) THEN w.f.pos - w.f.real ELSE Len(w.c.iob.buf))
              ELSE 0
Read(s) ==
    /\ Running /\ CanRead(W(s))
    /\ LET skip == Skipped(W(s))
           n == IF skip < Len(conn[s].iob.buf) THEN 1 ELSE 0
       IN /\ ses' = [ses EXCEPT ![s].real = @ + skip + n, ![s].pos = @ + n, ![s].io = @ \/ n = 1,
                                ![s].asserts = @ /\ (n = 1 => ses[s].real + skip = ses[s].pos)]
          /\ conn' = [conn EXCEPT ![s].iob.buf = SubSeq(@, skip + n + 1, Len(@))]
    /\ UNCHANGED <<store, opens, faults>>

\* Write of the byte at pos
Write(s) ==
    /\ ses[s].mode = "STORE" /\ ses[s].error = "OK" /\ ses[s].state = "DATA" /\ Online(s)
    /\ conn[s].iob.dir = "PUT" /\ ~(Has(conn[s], "REST") /\ ses[s].real = -1)
    /\ ses[s].pos < N /\ ~conn[s].iob.eof
    /\ ses' = [ses EXCEPT ![s].pos = @ + 1, ![s].real = @ + 1, ![s].io = TRUE]
    /\ conn' = [conn EXCEPT ![s].iob.buf = Append(@, ses[s].pos)]
    /\ UNCHANGED <<store, opens, faults>>

\* Fault: does not wait for the reply.
StoreStatusHasty(s) ==
    /\ ses[s].mode = "STORE" /\ ses[s].error = "OK" /\ ses[s].pos >= N /\ ~ses[s].eof /\ Online(s)
    /\ conn[s].iob.buf = <<>> \/ conn[s].iob.err
    /\ Become(s, [DataClose(W(s)) EXCEPT !.f.eof = TRUE])
    /\ UNCHANGED <<store, opens, faults>>

\* StoreStatus, called when all is written: SendEOT closes the data
\* connection when the buffer is done.
StoreStatus(s) ==
    /\ ses[s].mode = "STORE" /\ ses[s].error = "OK" /\ ses[s].pos >= N /\ ~ses[s].eof /\ Online(s)
    /\ LET w == W(s)
           b == w.c.iob
           v == IF w.f.state # "DATA" THEN w
                ELSE IF b.buf = <<>> \/ b.err THEN To(DataClose(w), "WAITING") ELSE [w EXCEPT !.c.iob.eof = TRUE]
           u == [v EXCEPT !.f.eof = v.f.state = "WAITING" /\ v.c.expect = <<>>]
       IN u # w /\ Become(s, u)
    /\ UNCHANGED <<store, opens, faults>>

-----------------------------------------------------------------------------
(* The network and the server.  The control connection is in net "syn"     *)
(* before it is established, "leaving" when the server will close it, then *)
(* "down".                                                                 *)

Fault(kind) == kind \in FaultKinds /\ faults < Faults /\ faults' = faults + 1
Fine == faults' = faults
Answer(c, code, op) == [c EXCEPT !.out = Append(@, [code |-> code, op |-> op])]
Up(s) == conn[s].on /\ conn[s].net = "up"
\* What the server or the network does to the connection of s
Becomes(s, c) == conn' = [conn EXCEPT ![s] = c] /\ UNCHANGED <<ses, opens>>

Established(s) ==
    /\ conn[s].on /\ conn[s].net = "syn" /\ Fine /\ UNCHANGED store
    /\ Becomes(s, [conn[s] EXCEPT !.net = "up", !.inq = <<Cmd("HELLO", <<>>, <<>>)>>])

\* The server process is gone, and its end of the data connection with it.
Ended(c, net) ==
    [c EXCEPT !.net = net, !.inq = <<>>, !.lsn = FALSE, !.xfer = NoXfer, !.rx.fin = TRUE,
              !.iob.err = @ \/ c.iob.dir = "PUT", !.data = IF @ = "connecting" THEN "failed" ELSE @]
Lost(s) ==
    /\ conn[s].on /\ conn[s].net \in {"syn", "up"} /\ Fault("lost") /\ UNCHANGED store
    /\ \E n \in 0..Len(conn[s].rx.buf) : Becomes(s, Ended([conn[s] EXCEPT !.rx.buf = SubSeq(@, 1, n)], "down"))
ServerLeaves(s) ==
    /\ Up(s) /\ Fault("421") /\ UNCHANGED store
    /\ Becomes(s, Ended(Answer(conn[s], 421, "none"), "leaving"))
Fin(s) ==
    /\ conn[s].on /\ conn[s].net = "leaving" /\ Fine /\ UNCHANGED store
    /\ Becomes(s, [conn[s] EXCEPT !.net = "down"])

\* A command that is no transfer, and one that the server refuses.  REST
\* is for the next transfer command, refused or not.
Effect(c, cmd) ==
    LET dir == IF cmd.op = "CWD" THEN cmd.path ELSE c.scwd \o cmd.path
    IN CASE cmd.op \in {"CWD", "CWD rel"} ->
              IF dir \in Dirs THEN Answer([c EXCEPT !.scwd = dir], 2, cmd.op) ELSE Answer(c, 5, cmd.op)
         [] cmd.op = "REST" -> Answer([c EXCEPT !.srest = cmd.path[1]], 3, cmd.op)
         [] cmd.op = "PASV" ->      \* on a new port
              Answer([c EXCEPT !.lsn = TRUE, !.dsock = "none", !.rx = NoRx,
                               !.aborted = IF @ = "connecting" THEN "failed" ELSE @], 2, cmd.op)
         [] cmd.op = "QUIT" -> Ended(Answer(c, 2, cmd.op), "leaving")
         [] OTHER -> Answer(c, 2, cmd.op)
Transfers == {"RETR", "STOR"}
Ready(s) == Up(s) /\ conn[s].xfer = NoXfer /\ conn[s].inq # <<>>
Taken(s) == [conn[s] EXCEPT !.inq = Tail(@)]
Execute(s) ==
    /\ Ready(s) /\ Head(conn[s].inq).op \notin Transfers /\ Fine /\ UNCHANGED store
    /\ Becomes(s, Effect(Taken(s), Head(conn[s].inq)))
Refuse(s) ==
    /\ Ready(s) /\ UNCHANGED store
    /\ LET op == Head(conn[s].inq).op
           rest == IF op \in Transfers THEN 0 ELSE conn[s].srest
           Code(c) == Becomes(s, Answer([Taken(s) EXCEPT !.srest = rest], c, op))
       IN \/ Fault("4xx") /\ op \notin {"ABOR", "QUIT", "REST"} /\ Code(4)
          \/ Fault("5xx") /\ op \in {"LOGIN", "DELE", "RETR", "STOR"} /\ Code(5)
          \/ Fault("rest") /\ op = "REST" /\ Code(5)
          \/ Fault("rest 4xx") /\ op = "REST" /\ Code(4)

\* A transfer waits for the data connection, runs, and ends.
Begin(s) ==
    /\ Ready(s) /\ Head(conn[s].inq).op \in Transfers /\ Fine /\ UNCHANGED store
    /\ LET cmd == Head(conn[s].inq)
       IN Becomes(s, [Taken(s) EXCEPT !.srest = 0,
                        !.xfer = [NoXfer EXCEPT !.op = cmd.op, !.st = "wait", !.at = conn[s].srest]])
Waiting(s, sock) == Up(s) /\ conn[s].xfer.st = "wait" /\ (conn[s].dsock # "none") = sock
Run(s) ==
    /\ Waiting(s, TRUE)
    /\ LET c == conn[s]
           x == c.xfer
           file == [i \in 1..N |-> <<c.scwd, i - 1>>]
           Start(n) == Becomes(s, Answer([c EXCEPT !.xfer.st = "run", !.xfer.short = n < N,
                           !.rx = IF x.op = "RETR" /\ c.dsock = "data"
                                  THEN [buf |-> SubSeq(file, x.at + 1, n), fin |-> TRUE] ELSE @], 1, x.op))
       IN /\ \/ Fine /\ Start(N)
             \/ x.op = "RETR" /\ Fault("truncated") /\ \E n \in x.at..N - 1 : Start(n)
          /\ store' = IF x.op = "STOR" /\ x.at = 0 THEN [store EXCEPT ![s] = <<>>] ELSE store
\* 425: the client does not come, because it has given up this transfer.
GivenUp(c) ==
    \E i \in DOMAIN c.expect : c.expect[i].kind = "TRANSFER_CLOSED" /\ \A j \in 1..i - 1 : c.expect[j].kind # "TRANSFER"
Coming(c) ==
    \/ c.aborted \in {"unbound", "connecting"}
    \/ c.data \in {"unbound", "connecting"} /\ ~GivenUp(c)
NoData(s) ==
    /\ Waiting(s, FALSE) /\ ~Coming(conn[s]) /\ Fine /\ UNCHANGED store
    /\ Becomes(s, Answer([conn[s] EXCEPT !.xfer = NoXfer], 4, conn[s].xfer.op))
\* The end of it, or 426
Over(s, code) == Answer([conn[s] EXCEPT !.xfer = NoXfer, !.dsock = "none"], code, conn[s].xfer.op)
Complete(s) ==
    /\ Up(s) /\ conn[s].xfer.st = "run" /\ UNCHANGED store
    /\ LET x == conn[s].xfer
           sock == conn[s].dsock
       IN \/ Fine /\ (IF x.op = "RETR" THEN ~x.short ELSE sock \in {"closed", "broken"}) /\ Becomes(s, Over(s, 2))
          \/ Fine /\ x.op = "RETR" /\ (x.short \/ sock = "broken") /\ Becomes(s, Over(s, 426))
          \/ Fault("4xx") /\ x.op = "STOR" /\ Becomes(s, [Over(s, 426) EXCEPT !.iob.err = @ \/ conn[s].iob.dir = "PUT"])
Abort(s) ==
    /\ Up(s) /\ conn[s].xfer.st = "run" /\ conn[s].inq # <<>> /\ Head(conn[s].inq).op = "ABOR" /\ Fine /\ UNCHANGED store
    /\ Becomes(s, Answer([Over(s, 426) EXCEPT !.inq = Tail(@), !.rx = NoRx], 2, "ABOR"))

\* The data connection: connect, and its data
DataConnect(s) ==
    /\ conn[s].on /\ Fine /\ UNCHANGED store
    /\ \/ /\ conn[s].data = "connecting" /\ conn[s].lsn
          /\ Becomes(s, [conn[s] EXCEPT !.data = "open", !.dsock = "data", !.lsn = FALSE])
       \/ /\ conn[s].aborted = "connecting" /\ conn[s].lsn
          /\ Becomes(s, [conn[s] EXCEPT !.aborted = "open", !.dsock = "aborted", !.lsn = FALSE])
Refused(s) ==
    /\ conn[s].on /\ conn[s].data = "connecting" /\ Fault("refused") /\ UNCHANGED store
    /\ Becomes(s, [conn[s] EXCEPT !.data = "failed"])
Receive(s) ==
    /\ Online(s) /\ conn[s].data = "open" /\ conn[s].iob.dir = "GET" /\ ~conn[s].iob.eof /\ ~conn[s].iob.err
    /\ UNCHANGED store
    /\ LET c == conn[s]
       IN \/ Fine /\ \E n \in 1..Len(c.rx.buf) :
                Becomes(s, [c EXCEPT !.iob.buf = @ \o SubSeq(c.rx.buf, 1, n), !.rx.buf = SubSeq(@, n + 1, Len(@))])
          \/ Fine /\ c.rx = [buf |-> <<>>, fin |-> TRUE] /\ Becomes(s, [c EXCEPT !.iob.eof = TRUE])
          \/ Fault("reset") /\ Becomes(s, [c EXCEPT !.iob.err = TRUE, !.dsock = "broken", !.rx = NoRx])
Store(s) ==
    /\ Up(s) /\ conn[s].xfer.op = "STOR" /\ conn[s].xfer.st = "run" /\ conn[s].dsock = "data"
    /\ conn[s].iob.buf # <<>> /\ ~conn[s].iob.err /\ Fine
    /\ LET at == conn[s].xfer.at
       IN store' = [store EXCEPT ![s] = [i \in 1..(IF at < Len(@) THEN Len(@) ELSE at + 1) |->
                        IF i = at + 1 THEN Head(conn[s].iob.buf) ELSE IF i <= Len(@) THEN @[i] ELSE -1]]
    /\ Becomes(s, [conn[s] EXCEPT !.iob.buf = Tail(@), !.xfer.at = @ + 1])

\* The client's timers: the aborted data connection (or its end), the idle
\* connection, net:timeout
AbortedDone(s) ==
    /\ Online(s) /\ conn[s].aborted # "none"
    /\ conn' = [conn EXCEPT ![s] = CloseAborted(@)] /\ UNCHANGED <<ses, store, opens, faults>>
IdleTimeout(s) ==
    /\ Online(s) /\ ~conn[s].quit /\ ses[s].mode = "CLOSED"
    /\ \E w \in {Disconnect(W(s))} : Become(s, w)
    /\ UNCHANGED <<store, opens, faults>>
NetTimeout(s) ==
    /\ Online(s) /\ ses[s].mode # "CLOSED" /\ ~ses[s].eof /\ Fault("lost")
    /\ Become(s, TimeOut(W(s))) /\ UNCHANGED <<store, opens>>

-----------------------------------------------------------------------------
Init ==
    /\ \E sync \in SyncModes : ses = [s \in Sessions |-> IdleSession(sync)]
    /\ conn = [s \in Sessions |-> NoConn]
    /\ store = [s \in Sessions |-> <<>>]
    /\ opens = [s \in Sessions |-> 0]
    /\ faults = 0

Client(s) == Do(s) \/ Connect(s) \/ (\E o \in Sessions \ {s} : TakeConnection(s, o)) \/ AbortedDone(s)
Server(s) == Established(s) \/ Fin(s) \/ Execute(s) \/ Begin(s) \/ Run(s) \/ NoData(s) \/ Complete(s) \/ Abort(s)
Network(s) == DataConnect(s) \/ Receive(s) \/ Store(s)
User(s) == Open(s) \/ Close(s) \/ Read(s) \/ Write(s) \/ StoreStatus(s)
Failure(s) == Lost(s) \/ ServerLeaves(s) \/ Refuse(s) \/ Refused(s) \/ IdleTimeout(s) \/ NetTimeout(s)

Next == \E s \in Sessions : Client(s) \/ Server(s) \/ Network(s) \/ User(s) \/ Failure(s)
Spec == Init /\ [][Next]_vars

\* The client's Do is called as long as it does something, the timer of an
\* aborted connection ends, and the user of a session reads and writes.
\* The server and the network do their work; no limit on time is assumed.
\* (Idling and the next to it are WF_vars(Do(s)), its ENABLED written out.)
Idling(s) ==
    \/ ~HasConnection(s)
    \/ \A timeout \in (IF ses[s].state = "W150" THEN BOOLEAN ELSE {FALSE}) : Do_LL(W(s), timeout) = W(s)
FairSpec ==
    /\ Spec
    /\ \A s \in Sessions : /\ []<>Idling(s) \/ []<><<Do(s)>>_vars
                           /\ WF_vars(Connect(s)) /\ WF_vars(AbortedDone(s))
                           /\ WF_vars(Server(s)) /\ WF_vars(Network(s))
                           /\ WF_vars(Read(s) \/ Write(s) \/ StoreStatus(s))

-----------------------------------------------------------------------------
(* Properties *)

ExpectKinds == {"READY", "PASS", "CWD", "CWD_CURR", "CWD_STALE", "PASV", "REST", "TRANSFER", "TRANSFER_CLOSED",
                "FILE_ACCESS", "ABOR", "IGNORE"}
TypeOK ==
    \A s \in Sessions :
        /\ ses[s].mode \in {"CLOSED", "CHANGE_DIR", "REMOVE", "RETRIEVE", "STORE"}
        /\ ses[s].state \in {"INITIAL", "CONNECTING", "CONNECTED", "EOF", "CWD", "PASV", "W150", "DATA", "WAITING"}
        /\ ses[s].pos \in 0..N /\ ses[s].real \in -1..N /\ ses[s].cwd \in Dirs
        /\ conn[s].on <=> ses[s].state # "INITIAL"
        /\ conn[s].on => \A i \in DOMAIN conn[s].expect : conn[s].expect[i].kind \in ExpectKinds

\* The final replies of q behind the first n, up to k
Final(r) == r.code # 1
Counted(q, n, k) == Cardinality({j \in n + 1..k : Final(q[j])})
Busy(x) == IF x = NoXfer THEN 0 ELSE 1
\* The commands whose replies can come for what is expected
Answers(kind) ==
    CASE kind = "READY" -> {"HELLO"}
      [] kind = "PASS" -> {"LOGIN"}
      [] kind \in CwdKinds -> {"CWD", "CWD rel"}
      [] kind \in {"TRANSFER", "TRANSFER_CLOSED"} -> {"RETR", "STOR"}
      [] kind = "FILE_ACCESS" -> {"DELE"}
      [] kind = "IGNORE" -> {"REST", "DELE", "QUIT"}
      [] OTHER -> {kind}

\* The expectations e are, in this order, those of the final replies of q
\* behind the first n, of the transfer x, of the commands I on their way and
\* of the commands U that are not yet sent; all but the last are waited for.
Lined(e, wait, x, I, U, q, n) ==
    LET m == Counted(q, n, Len(q)) + Busy(x) IN
    /\ wait = m + Len(I) /\ Len(e) = m + Len(I) + Len(U)
    /\ \A j \in n + 1..Len(q) : Final(q[j]) => q[j].op \in Answers(e[Counted(q, n, j)].kind)
    /\ x # NoXfer => x.op \in Answers(e[m].kind)
    /\ \A j \in 1..Len(I) : I[j].op \in Answers(e[m + j].kind)
    /\ \A j \in 1..Len(U) : U[j].op \in Answers(e[m + Len(I) + j].kind)

\* Every reply will be taken for the reply to the command it answers, and
\* sync_wait counts the replies that are awaited: whatever has been
\* pipelined, abandoned, aborted or taken over (ExpectQueue, CheckResp).
RepliesMatched ==
    \A s \in Sessions : Up(s) /\ ses[s].state # "CONNECTING" =>
        LET c == conn[s] IN Lined(c.expect, c.sync_wait, c.xfer, c.inq, c.unsent, c.out, 0)

\* A command that names a file is executed in the directory that is current
\* for the session it is sent for (EOF_STATE, CWD_CWD_WAITING_STATE).
RightDirectory ==
    \A s \in Sessions : Ready(s) /\ Head(conn[s].inq).op \in {"DELE", "RETR", "STOR"} =>
        Head(conn[s].inq).for = conn[s].scwd

\* What Read delivers is the byte at pos of the file asked for, wherever the
\* server has restarted (RestCheck, real_pos, skipping in Read).
ReadsRight ==
    \A s \in Sessions : Running /\ CanRead(W(s)) /\ Skipped(W(s)) < Len(conn[s].iob.buf) =>
        conn[s].iob.buf[Skipped(W(s)) + 1] = <<ses[s].cwd, ses[s].pos>>

\* The end of a file is reported behind its last byte (eof in DATA_OPEN_STATE,
\* WAITING_STATE and TransferCheck).
EofComplete ==
    \A s \in Sessions : ses[s].mode = "RETRIEVE" /\ ses[s].eof /\ ses[s].error = "OK" => ses[s].pos = N

\* On the server there is neither a hole nor a misplaced byte: pos, REST and
\* what the data connection has taken agree (Write, RestCheck, STORE_FAILED).
StoresContiguous == \A s \in Sessions : \A i \in DOMAIN store[s] : store[s][i] = i - 1

\* StoreStatus says OK when all that was written is stored.
StoreComplete ==
    \A s \in Sessions : ses[s].mode = "STORE" /\ ses[s].eof /\ ses[s].error = "OK" => Len(store[s]) >= ses[s].pos

\* A change of directory that is Done has changed it.
ChdirOver(s) == ses[s].mode = "CHANGE_DIR" /\ ses[s].state = "WAITING" /\ conn[s].expect = <<>>
ChdirDone ==
    \A s \in Sessions : ChdirOver(s) /\ ses[s].error = "OK" => ses[s].cwd = ses[s].file

\* An operation that is reported to have succeeded has: TransferCheck,
\* StoreStatus and Done agree with what happened on the server; and no
\* assert() has failed on the way.
Success == TypeOK /\ Running /\ EofComplete /\ StoreComplete /\ ChdirDone

\* Every operation ends, with success or with an error, unless it is closed:
\* no reply is waited for that will not come (sync-mode, WAITING_STATE,
\* data connections that nobody opens or closes), and retries end when the
\* failures do.
RequestEnds ==
    \A s \in Sessions :
        ses[s].mode # "CLOSED" ~> (ses[s].mode = "CLOSED" \/ ses[s].eof \/ ses[s].error # "OK" \/ ChdirOver(s))
============================================================================
