-------------------------------- MODULE Pget --------------------------------
(***************************************************************************)
(* pget (pgetJob.cc): a file is downloaded by one main copy, that begins at *)
(* its beginning, and by chunks that write further on, each over a          *)
(* connection of its own; a status file beside the local file says what is  *)
(* still missing, for pget -c to go on from when lftp has been killed.      *)
(*                                                                         *)
(* A byte is its offset.  The copies are what FileCopy promises: they write *)
(* their range from its beginning to its end, and GetPos is what they have  *)
(* written.  Left out: rates, status lines, temporary names, preallocation, *)
(* a remote target.                                                         *)
(***************************************************************************)
EXTENDS Integers, FiniteSetsExt

CONSTANTS
    N,              \* size of the remote file in the end
    MaxChunks,      \* -n
    MinChunk,       \* pget:min-chunk-size
    Slow,           \* a chunk is slow that has less than this part of what the main copy has (16)
    Careful,        \* the user says -c when there is a status file, and only then
    AnyMoment,      \* the status may be saved while the end of a chunk has been seen by one part only
    Errors, Crashes \* bounds: copies that fail, ends of the program

ASSUME PgetAssumption ==
    /\ {N, MaxChunks, MinChunk, Slow} \subseteq Nat \ {0}
    /\ {Careful, AnyMoment} \subseteq BOOLEAN /\ {Errors, Crashes} \subseteq Nat

VARIABLES
    size,           \* of the remote file, which may grow while pget does not run
    disk, len,      \* the bytes of the local file that are right, and its length; -1: there is none
    status,         \* the status file
    job,            \* the pgetJob
    errors, crashes

vars == <<size, disk, len, status, job, errors, crashes>>

NoChunks == <<>>
NoStatus == [on |-> FALSE, size |-> 0, pos |-> 0, limits |-> FALSE, limit |-> 0, rest |-> <<>>]

\* The job as its constructor leaves it; its chunks are found by where their range began.
NewJob(cont, pos, ends) ==
    [on |-> TRUE, cont |-> cont, pos |-> pos, limit0 |-> 0, chunks |-> NoChunks, no_parallel |-> FALSE, chunks_done |-> FALSE,
     priority_ends |-> ends, ends_pending |-> FALSE, sized |-> "yet", open |-> FALSE, susp |-> FALSE, limited |-> FALSE,
     copied |-> FALSE, removed |-> FALSE, err |-> FALSE, done |-> FALSE]
NoJob == [NewJob(FALSE, 0, FALSE) EXCEPT !.on = FALSE]

Init ==
    /\ size \in {N - 1, N} /\ disk = {} /\ len = -1 /\ status = NoStatus /\ job = NoJob
    /\ errors = 0 /\ crashes = 0

-----------------------------------------------------------------------------
(* The status file.                                                        *)

\* A chunk: the start and limit of a ChunkXfer, GetPos; "err": Error(), "gone": Error() and Done()
Chunk(from, limit) == [start |-> from, pos |-> from, limit |-> limit, st |-> "run", susp |-> FALSE]
Left(j) == {k \in DOMAIN j.chunks : j.chunks[k].st \notin {"done", "gone"}}

\* What the job and the status file are after a part of Do
W == [j |-> job, s |-> status]

\* Fault: of a chunk only the limit is right.
SaveStatusAhead(w) ==
    IF w.j.removed THEN w
    ELSE [w EXCEPT !.s = [on |-> TRUE, size |-> size, pos |-> w.j.pos, limits |-> DOMAIN w.j.chunks # {}, limit |-> w.j.limit0,
                          rest |-> [k \in Left(w.j) |-> [pos |-> w.j.chunks[k].limit, limit |-> w.j.chunks[k].limit]]]]

\* SaveStatus.  Without chunks it says no limits; chunks that are Done are left out.
SaveStatus(w) ==
    IF w.j.removed THEN w
    ELSE [w EXCEPT !.s = [on |-> TRUE, size |-> IF w.j.sized = "known" THEN size ELSE -1, pos |-> w.j.pos,
                          limits |-> DOMAIN w.j.chunks # {}, limit |-> w.j.limit0,
                          rest |-> [k \in Left(w.j) |-> [pos |-> w.j.chunks[k].pos, limit |-> w.j.chunks[k].limit]]]]

\* The chunks LoadStatus reads: it stops behind one that has reached its limit, as the number of
\* the next is not the one it expects.
Read(s) == {k \in DOMAIN s.rest : \A m \in DOMAIN s.rest : m <= k => s.rest[m].pos < s.rest[m].limit}

\* What the remote file has grown by goes to the range that ended with it (the last, as the ranges
\* ascend), or is a range of its own.
Now(s, limit) == IF limit = s.size /\ s.size < size THEN size ELSE limit
Apart(s) == s.size < size /\ s.limit # s.size /\ \A k \in Read(s) : s.rest[k].limit # s.size

\* LoadStatus
LoadStatus(w) ==
    LET s == w.s IN
    IF ~s.on \/ ~s.limits THEN w
    ELSE [w EXCEPT !.j.pos = s.pos, !.j.limit0 = Now(s, s.limit),
                   !.j.chunks = [k \in Read(s) \cup (IF Apart(s) THEN {s.size} ELSE {}) |->
                                    IF k \in Read(s) THEN Chunk(s.rest[k].pos, Now(s, s.rest[k].limit)) ELSE Chunk(k, size)]]

\* LoadStatus0: where the main copy begins
LoadStatus0 == IF status.on THEN status.pos ELSE IF len = -1 THEN 0 ELSE len

-----------------------------------------------------------------------------
(* Do.                                                                     *)

\* InitChunks
InitChunks(w) ==
    LET rem == size - w.j.pos
        part == IF rem \div MaxChunks < MinChunk THEN MinChunk ELSE rem \div MaxChunks
        n == rem \div part - 1
        limit0 == size - part * n
        ends == w.j.priority_ends /\ n >= 2
    IN  IF n < 1 THEN w
        ELSE [w EXCEPT !.j.limit0 = limit0, !.j.ends_pending = ends,
                       !.j.chunks = [k \in {limit0 + part * i : i \in 0..(n - 1)} |->
                                        [Chunk(k, k + part) EXCEPT !.susp = ends /\ k + part < size]]]

\* The chunks are made when the size is known and the local file is open.
MakeChunks(w) ==
    LET v == IF w.j.cont THEN LoadStatus(w) ELSE IF w.j.removed THEN w ELSE [w EXCEPT !.s = NoStatus]
        u == IF DOMAIN v.j.chunks # {} THEN v ELSE InitChunks(v)
    IN  IF w.j.sized = "none" THEN [w EXCEPT !.j.no_parallel = TRUE]
        ELSE IF w.j.sized = "yet" \/ ~w.j.open THEN w
        ELSE IF DOMAIN u.j.chunks = {} THEN [u EXCEPT !.j.no_parallel = TRUE]
        ELSE IF w.j.cont THEN u ELSE SaveStatus(u)

Failed(c) == c.st \in {"err", "gone"}

\* Fault: only the chunks that run count.
CycleHasty(w) ==
    [w EXCEPT !.j.chunks_done = \A k \in DOMAIN w.j.chunks : w.j.chunks[k].st = "run" => w.j.chunks[k].susp]

\* The cycle through the chunks
Cycle(w) ==
    LET cs == w.j.chunks
        plain == w.j.no_parallel \/ \E k \in DOMAIN cs : Failed(cs[k])
    IN  [w EXCEPT !.j.chunks_done = (\A k \in DOMAIN cs : cs[k].st = "done"), !.j.no_parallel = plain,
                  !.j.chunks = IF plain THEN NoChunks ELSE @]

\* The rest of Do
Chunks(w) ==
    LET v == MakeChunks(w) IN
    IF w.j.done THEN w
    ELSE IF DOMAIN w.j.chunks # {} \/ w.j.chunks_done THEN Cycle(w)
    ELSE IF DOMAIN v.j.chunks = {} THEN v ELSE Cycle(v)

\* CopyJob::Do
CopyJobDo(w) == [w EXCEPT !.j.done = w.j.err \/ w.j.copied, !.j.susp = FALSE]
Plain(w) == [w EXCEPT !.j.susp = FALSE, !.j.no_parallel = TRUE]
Wait(w) == [w EXCEPT !.j.susp = TRUE]

\* Fault: the chunks in the middle stay as they are when the ends are done.
AtLimitForgetful(w) ==
    IF w.j.ends_pending /\ w.j.chunks[Max(DOMAIN w.j.chunks)].st = "done" THEN [w EXCEPT !.j.ends_pending = FALSE] ELSE Wait(w)

\* The main copy has come to the first chunk: it waits, or goes on if that one is slow.
AtLimit(w) ==
    LET cs == w.j.chunks
        first == Min(DOMAIN cs)
        next == cs[first]
        last == cs[Max(DOMAIN cs)]
    IN  IF w.j.ends_pending
        THEN IF Failed(last) THEN Plain(w)
             ELSE IF last.st # "done" THEN Wait(w)
             ELSE [w EXCEPT !.j.ends_pending = FALSE, !.j.chunks = [k \in DOMAIN cs |-> [cs[k] EXCEPT !.susp = FALSE]]]
        ELSE IF Failed(next) THEN Plain(w)
        ELSE IF next.st = "done" \/ next.pos - next.start >= w.j.limit0 \div Slow THEN Wait(w)
        ELSE IF DOMAIN cs = {first} THEN [w EXCEPT !.j.susp = FALSE, !.j.no_parallel = TRUE, !.j.chunks = NoChunks]
        ELSE [w EXCEPT !.j.susp = FALSE, !.j.limit0 = next.limit, !.j.chunks = Restrict(cs, DOMAIN cs \ {first})]

\* All chunks are done, and the main copy has come to the first of them.
Stop(w) ==
    IF w.j.chunks_done /\ DOMAIN w.j.chunks # {} /\ w.j.pos >= w.j.limit0
    THEN [w EXCEPT !.j.susp = FALSE, !.j.limited = TRUE, !.j.chunks = NoChunks] ELSE w

DoAll(w) ==
    LET v == Stop(w) IN
    IF w.j.no_parallel THEN CopyJobDo(w)
    ELSE Chunks(IF DOMAIN v.j.chunks = {} \/ v.j.pos < v.j.limit0 THEN CopyJobDo(v) ELSE AtLimit(v))

\* The status file of a finished copy is removed.
Done(w) == IF w.j.copied THEN [w EXCEPT !.s = NoStatus, !.j.removed = TRUE] ELSE w
Step(w) == DoAll(Done(w))

\* Now and then the status is saved first.
Settled == \A k \in DOMAIN job.chunks :
    ~Failed(job.chunks[k]) /\ (job.chunks[k].st = "run" => job.chunks[k].pos < job.chunks[k].limit)
Do ==
    /\ job.on /\ ~job.done
    /\ \E w \in {Step(W)} \cup (IF AnyMoment \/ Settled THEN {Step(SaveStatus(W))} ELSE {}) :
         w # W /\ job' = w.j /\ status' = w.s
    /\ UNCHANGED <<size, disk, len, errors, crashes>>

-----------------------------------------------------------------------------
(* The copies.                                                             *)

Write(p) == disk' = disk \cup {p} /\ len' = IF len > p THEN len ELSE p + 1
Runs == job.on /\ ~job.done /\ ~job.err

\* The session of the main copy knows the size of the file, or that it is not to be known.
Sized ==
    /\ Runs /\ job.sized = "yet"
    /\ \E x \in {"known", "none"} : job' = [job EXCEPT !.sized = x]
    /\ UNCHANGED <<size, disk, len, status, errors, crashes>>

\* The local file is opened for the first that is written.
OpenFile ==
    /\ Runs /\ ~job.open
    /\ job' = [job EXCEPT !.open = TRUE]
    /\ IF job.cont THEN len' = (IF len = -1 THEN 0 ELSE len) /\ UNCHANGED disk ELSE len' = 0 /\ disk' = {}
    /\ UNCHANGED <<size, status, errors, crashes>>

CopyMain ==
    /\ Runs /\ job.open /\ ~job.susp /\ ~job.copied
    /\ IF job.pos >= (IF job.limited THEN job.limit0 ELSE size)
       THEN job' = [job EXCEPT !.copied = TRUE] /\ UNCHANGED <<disk, len>>
       ELSE job' = [job EXCEPT !.pos = @ + 1] /\ Write(job.pos)
    /\ UNCHANGED <<size, status, errors, crashes>>

\* A chunk writes; when its range is written, or it has failed, its job ends.
CopyChunk(k) ==
    /\ job.on /\ k \in DOMAIN job.chunks
    /\ LET c == job.chunks[k] IN
       /\ ~c.susp
       /\ \/ /\ c.st = "run" /\ c.pos < c.limit
             /\ job' = [job EXCEPT !.chunks[k].pos = @ + 1] /\ Write(c.pos)
          \/ /\ c.st = "err" \/ (c.st = "run" /\ c.pos = c.limit)
             /\ job' = [job EXCEPT !.chunks[k].st = IF c.st = "err" THEN "gone" ELSE "done"]
             /\ UNCHANGED <<disk, len>>
    /\ UNCHANGED <<size, status, errors, crashes>>

Fails == errors < Errors /\ errors' = errors + 1 /\ UNCHANGED <<size, disk, len, status, crashes>>
MainFails == Runs /\ ~job.susp /\ ~job.copied /\ Fails /\ job' = [job EXCEPT !.err = TRUE]
ChunkFails(k) ==
    /\ job.on /\ k \in DOMAIN job.chunks /\ job.chunks[k].st = "run" /\ ~job.chunks[k].susp
    /\ Fails /\ job' = [job EXCEPT !.chunks[k].st = "err"]

-----------------------------------------------------------------------------
(* The user: calls pget, kills lftp.                                       *)

Start(how) ==
    /\ ~job.on /\ (Careful => (how = "continue") = status.on)
    /\ \E ends \in BOOLEAN :
         job' = NewJob(how = "continue", IF how = "continue" THEN LoadStatus0 ELSE 0, ends)
    /\ UNCHANGED <<size, disk, len, status, errors, crashes>>

\* lftp is killed, or the job has failed.
Crash ==
    /\ job.on /\ ~(job.done /\ ~job.err) /\ crashes < Crashes
    /\ crashes' = crashes + 1 /\ job' = NoJob
    /\ UNCHANGED <<size, disk, len, status, errors>>

Grow == ~job.on /\ size < N /\ size' = size + 1 /\ UNCHANGED <<disk, len, status, job, errors, crashes>>

Copies == Sized \/ OpenFile \/ CopyMain \/ \E k \in 0..N : CopyChunk(k)
Failures == MainFails \/ (\E k \in 0..N : ChunkFails(k)) \/ Crash
Next == Do \/ Copies \/ Failures \/ Grow \/ \E how \in {"get", "continue"} : Start(how)

Spec == Init /\ [][Next]_vars

\* The scheduler calls Do while there is something to do, and the copies go on: what WF_vars of Do
\* and of Copies says, with ENABLED written out.
Idle == job.on => job.done \/ Step(W) = W
CopiesIdle ==
    job.on => /\ ~Runs \/ (job.sized # "yet" /\ job.open /\ (job.susp \/ job.copied))
              /\ \A k \in DOMAIN job.chunks : job.chunks[k].st \in {"run", "err"} => job.chunks[k].susp
FairSpec == Spec /\ ([]<>Idle \/ []<><<Do>>_vars) /\ ([]<>CopiesIdle \/ []<><<Copies>>_vars)

-----------------------------------------------------------------------------
(* Properties.                                                             *)

\* What a continuation would not fetch is on the disk: at every moment, since lftp may be killed
\* at every moment (SaveStatus, LoadStatus and the order of the first save and the chunks).
Missing == {b \in 0..(N - 1) :
    \/ b >= status.pos /\ (b < status.limit \/ ~status.limits)
    \/ status.limits /\ \E k \in Read(status) : b \in status.rest[k].pos .. (status.rest[k].limit - 1)
    \/ status.limits /\ b >= status.size}
Continuable == IF status.on THEN 0..(len - 1) \ Missing \subseteq disk ELSE 0..(len - 1) \subseteq disk

\* A pget that ends with success leaves the whole file, over any number of crashes.
Whole == job.on /\ job.done /\ ~job.err => 0..(size - 1) \subseteq disk /\ ~status.on

\* A pget ends unless lftp is killed: the main copy and the chunks do not wait for each other for
\* ever (Suspend at the first chunk, --priority-ends, slow and failed chunks).
PgetEnds == job.on ~> (~job.on \/ job.done)
=============================================================================
