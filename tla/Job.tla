-------------------------------- MODULE Job ---------------------------------
(***************************************************************************)
(* The tree of jobs (src/Job.cc) and the shells that drive it              *)
(* (src/CmdExec.cc, the wait, kill and queue commands of src/commands.cc). *)
(*                                                                         *)
(* A job knows its parent and the jobs it waits for, by plain pointers.    *)
(* Killing, interrupting, burying and waiting rearrange both relations;    *)
(* all of it runs inside one call from the Do of some shell, so each such  *)
(* call is one step here, and the tasks interleave between the calls.      *)
(*                                                                         *)
(* Kinds differ in how they take a signal: a shell (CmdExec: top level,    *)
(* subshell; a queue is one that the queue command feeds), a copyenv (get, put: CopyJobEnv), a plain composite   *)
(* (mirror, at, edit: Job::AcceptSig), a copy (CopyJob) that dies at once, *)
(* a proc (SysCmdJob) that only forwards the signal to its process, and    *)
(* the KilledJob that stands in for a killed job somebody waits for.       *)
(***************************************************************************)
EXTENDS Integers, FiniteSets, SequencesExt

CONSTANTS Id,         \* identities (addresses) job objects may have
          Top,        \* the top level shell
          None,       \* the null pointer
          Children,   \* Children[k]: the kinds of job a job of kind k starts
          MaxWork,    \* bound: commands a new job has to work through (a copyenv
                      \* has as many files as it copies at a time)
          MaxTop,     \* bound: commands the top level shell runs
          MaxNo,      \* bound: job numbers in use
          Parallel,   \* cmd:parallel, get -P: jobs awaited at a time
          WaitUp,     \* whether a shell may wait for a job it runs under
          SelfFeed    \* whether a command of a queue may queue another one

Shell == {"shell", "queue"}
Kind == Shell \cup {"copyenv", "plain", "copy", "proc", "killed"}

ASSUME JobAssumption ==
    /\ Top \in Id /\ None \notin Id
    /\ Children \in [{"shell", "copyenv", "plain"} -> SUBSET (Kind \ {"queue", "killed"})]
    /\ MaxWork \in Nat /\ MaxTop \in Nat /\ MaxNo \in Nat /\ Parallel \in Nat \ {0} /\ {WaitUp, SelfFeed} \subseteq BOOLEAN

VARIABLES
    live,      \* all_jobs: the jobs not yet deleted
    parent, waiting, jobno,
    kind,      \* None: the object is deleted
    busy,      \* shells executing a builtin (cd, open, glob)
    work       \* commands, files or the transfer still to be done

vars == <<live, parent, waiting, jobno, kind, busy, work>>

\* The call in progress works on a state of its own; Become ends it.
Now == [live |-> live, parent |-> parent, waiting |-> waiting, jobno |-> jobno,
        kind |-> kind, busy |-> busy, work |-> work]
Become(new) ==
    \E s \in {new} :
       /\ live' = s.live /\ parent' = s.parent /\ waiting' = s.waiting
       /\ jobno' = s.jobno /\ kind' = s.kind /\ busy' = s.busy /\ work' = s.work

-----------------------------------------------------------------------------
(* Job::Done of the different kinds *)
Done(s, j) ==
    \/ s.kind[j] = "killed"
    \/ s.waiting[j] = <<>> /\ j \notin s.busy /\ s.work[j] = 0

ChildrenOf(s, p) == {c \in s.live : s.parent[c] = p}

RECURSIVE Below(_, _)
Below(s, js) == LET more == js \cup UNION {ChildrenOf(s, c) : c \in js}
                IN IF more = js THEN js ELSE Below(s, more)

WhoWaitsForNobody(s, j) == {}  \* fault: wait does not look
WhoWaitsFor(s, j) == {p \in s.live : j \in ToSet(s.waiting[p])}

RECURSIVE WaitLoop(_, _, _)
WaitLoop(s, j, p) == j = p \/ \E k \in ToSet(s.waiting[j]) : WaitLoop(s, k, p)

AddWaitingOnly(s, p, j) ==  \* fault: no SetParent
    [s EXCEPT !.waiting[p] = IF j \in ToSet(@) THEN @ ELSE Append(@, j)]
AddWaiting(s, p, j) ==
    IF j \in ToSet(s.waiting[p]) THEN s
    ELSE [s EXCEPT !.parent[j] = p, !.waiting[p] = Append(@, j)]
RemoveWaiting(s, p, j) == [s EXCEPT !.waiting[p] = Remove(@, j)]

\* DeleteLater(j) and Job::PrepareToDie: numbered children move up when there
\* is a parent to take them, the others die with all that is below them.
\* (Fault: the children moved up keep their parent pointer.)
Lifted(s, j) == IF s.parent[j] = None THEN {} ELSE {c \in ChildrenOf(s, j) : s.jobno[c] # -1}
Delete(s, j, up, stop) ==
    LET gone == {j} \cup Below(s, ChildrenOf(s, j) \ up)
        Reset(f, v) == [c \in Id |-> IF c \in gone THEN v ELSE f[c]]
    IN [live |-> s.live \ gone, busy |-> s.busy \ gone,
        parent |-> [c \in Id |-> IF c \in up THEN s.parent[j]
                                 ELSE IF c \in gone THEN None ELSE s.parent[c]],
        jobno |-> Reset(s.jobno, -1), kind |-> Reset(s.kind, None), work |-> Reset(s.work, 0),
        waiting |-> [p \in Id |-> IF p \in gone THEN <<>>
                                  ELSE IF p = s.parent[j] THEN Remove(s.waiting[p], stop)
                                  ELSE s.waiting[p]]]
Die(s, j) == IF j \notin s.live THEN s ELSE Delete(s, j, Lifted(s, j), j)
-----------------------------------------------------------------------------
(* AcceptSig(SIGINT or SIGTERM): [s |-> the state after, dies |-> WANTDIE].*)

RECURSIVE Signal(_, _), SignalAwaited(_, _, _, _)

\* Pass the signal to the awaited jobs of j from the i-th on; those that want to
\* die are deleted, all says that none refused so far.  A plain job first takes
\* over the jobs they wait for (and comes to them later in the loop); CopyJobEnv
\* skips the job that follows.
SignalAwaited(s, j, i, all) ==
    IF i > Len(s.waiting[j]) THEN [s |-> s, dies |-> all]
    ELSE LET r == s.waiting[j][i]
             a == Signal(s, r)
             up == IF s.kind[j] \in {"plain", "killed"} THEN a.s.waiting[r] ELSE <<>>
             moved == [a.s EXCEPT !.waiting = [@ EXCEPT ![r] = IF up = <<>> THEN @ ELSE <<>>,
                                                        ![j] = Remove(@ \o up, r)],
                                  !.parent = [c \in Id |-> IF c \in ToSet(up) THEN j ELSE @[c]]]
         IN IF a.dies
            THEN SignalAwaited(Die(moved, r), j, IF s.kind[j] = "copyenv" THEN i + 1 ELSE i, all)
            ELSE SignalAwaited(a.s, j, i + 1, FALSE)

Signal(s, j) ==
    LET t == SignalAwaited(s, j, 1, TRUE)
    IN CASE j \in s.busy -> [s |-> [s EXCEPT !.busy = @ \ {j}], dies |-> FALSE]
         [] s.kind[j] \in Shell /\ j \notin s.busy ->
               [t EXCEPT !.dies = t.s.waiting[j] = <<>> /\ s.parent[j] # None]
         [] s.kind[j] = "copyenv" -> t
         [] s.kind[j] \in {"plain", "killed"} -> [t EXCEPT !.dies = TRUE]
         [] s.kind[j] = "copy" -> [s |-> s, dies |-> TRUE]
         [] s.kind[j] \in {"proc", None} -> [s |-> s, dies |-> FALSE]

\* Job::Kill(Job*): a job somebody waits for leaves a KilledJob in its place,
\* which inherits what it waits for (the placeholder takes its identity over).
Kill(s, j) ==
    LET a == Signal(s, j)
        p == a.s.parent[j]
        d == Die(a.s, j)
    IN IF ~a.dies THEN a.s
       ELSE IF j \in a.s.live /\ p # None /\ j \in ToSet(a.s.waiting[p])
       THEN [d EXCEPT !.live = @ \cup {j}, !.kind[j] = "killed", !.parent[j] = p,
                      !.waiting = [@ EXCEPT ![j] = a.s.waiting[j], ![p] = a.s.waiting[p]]]
       ELSE d

RECURSIVE KillEach(_, _), KillWhileListed(_, _)
KillWhileListed(s, q) ==  \* fault: stops at a job an earlier Kill has removed
    IF q = <<>> \/ q[1] \notin s.live THEN s ELSE KillWhileListed(Kill(s, q[1]), Tail(q))
KillEach(s, q) == IF q = <<>> THEN s ELSE KillEach(Kill(s, q[1]), Tail(q))

-----------------------------------------------------------------------------
(* The Do of a job *)

\* FindDoneAwaitedJob, RemoveWaiting, Delete: a finished job is taken off.
Reap(p) ==
    /\ p \in live \ busy
    /\ \E j \in ToSet(waiting[p]) \cap live :
          /\ Done(Now, j)
          /\ Become(Die(RemoveWaiting(Now, p, j), j))

NothingToReap(p) == \A j \in ToSet(waiting[p]) \cap live : ~Done(Now, j)

\* A job without command line of its own finishes: its transfer, its process.
Finish(j) ==
    /\ j \in live /\ kind[j] \in {"copy", "proc"} /\ work[j] > 0
    /\ Become([Now EXCEPT !.work[j] = 0])

\* A builtin command of a shell ends, with or without success.
BuiltinEnds(e) == e \in busy /\ Become([Now EXCEPT !.busy = @ \ {e}])

\* Job::AllocJobno
NextNo(s) == Max({-1} \cup {s.jobno[j] : j \in s.live}) + 1

\* The constructor of a job of kind k and its parent's SetParent.
Create(s, j, k, p, no) ==
    [s EXCEPT !.live = @ \cup {j}, !.kind[j] = k, !.parent[j] = p, !.jobno[j] = no,
              !.work[j] = IF k = "copyenv" THEN Parallel ELSE MaxWork]

\* A composite job that has parts left takes up the next one: nothing to be
\* done for it, or it starts what copies, edits, mirrors or schedules and
\* waits for it.  The shell of an at or repeat job gets a number.
StartPart(p) ==
    /\ p \in live /\ kind[p] \in {"plain", "copyenv"} /\ work[p] > 0 /\ NothingToReap(p)
    /\ Len(waiting[p]) < IF kind[p] = "copyenv" THEN Parallel ELSE 1
    /\ LET s == [Now EXCEPT !.work[p] = @ - 1]
       IN \/ Become(s)
          \/ \E j \in Id \ live, k \in Children[kind[p]] :
                LET no == IF k = "shell" THEN NextNo(s) ELSE -1
                IN no <= MaxNo /\ Become(AddWaiting(Create(s, j, k, p, no), p, j))

-----------------------------------------------------------------------------
(* The commands of a shell.  An interactive one takes the next when it     *)
(* waits for nothing, another as long as fewer than Parallel jobs are      *)
(* awaited.  Before a command is taken from the buffer, done and numbered  *)
(* jobs of this shell, or of nobody, are buried.                           *)

RECURSIVE Bury(_, _)
Bury(s, js) == IF js = {} THEN s
               ELSE LET j == CHOOSE x \in js : TRUE IN Bury(Die(s, j), js \ {j})
BuryDoneJobs(e) ==
    Bury(Now, {j \in live : parent[j] \in {e, None} /\ jobno[j] >= 0 /\ Done(Now, j)})

CanRun(e) ==
    /\ e \in live \ busy /\ kind[e] \in Shell /\ work[e] > 0 /\ NothingToReap(e)
    /\ Len(waiting[e]) < IF e = Top THEN 1 ELSE Parallel

\* The state in which the next command of e runs.
Taken(e) == [BuryDoneJobs(e) EXCEPT !.work[e] = @ - 1]

\* CmdExec::AddNewJob: in the foreground the shell waits for the job, in the
\* background it does not (a background job that is done at once is awaited).
Run(e) ==
    /\ CanRun(e)
    /\ \E j \in Id \ live, k \in Children["shell"], bg \in BOOLEAN :
          LET s == Taken(e)
              new == Create(s, j, k, e, NextNo(s))
          IN NextNo(s) <= MaxNo /\ Become(IF bg THEN new ELSE AddWaiting(new, e, j))

\* The queue command: feed the queue of the current site, or start one.
Queue(e) ==
    /\ CanRun(e)
    /\ \E s \in {Taken(e)} :
       /\ SelfFeed \/ e \notin Below(s, {q \in s.live : s.kind[q] = "queue"})
       /\ \/ \E q \in s.live :
                /\ s.kind[q] = "queue" /\ ~Done(s, q) /\ s.work[q] < MaxWork
                /\ Become([s EXCEPT !.work[q] = @ + 1])
          \/ \E j \in Id \ live :
                /\ NextNo(s) <= MaxNo
                /\ Become([Create(s, j, "queue", e, NextNo(s)) EXCEPT !.work[j] = 1])

\* A command that works by itself: at once, or in later calls of Do.
Builtin(e) ==
    /\ CanRun(e)
    /\ \/ Become(Taken(e))
       \/ Become([Taken(e) EXCEPT !.busy = @ \cup {e}])

\* kill <jobno>, of a job that is still running
KillCommand(e) ==
    /\ CanRun(e)
    /\ \E s \in {Taken(e)} :
       \E j \in s.live : s.jobno[j] >= 0 /\ ~Done(s, j) /\ Become(Kill(s, j))

\* kill all: the numbered jobs, listed beforehand.
KillAll(e) ==
    /\ CanRun(e)
    /\ \E s \in {Taken(e)} :
       \E q \in SetToSeqs({j \in s.live : s.jobno[j] >= 0}) : Become(KillEach(s, q))

\* wait <jobno>, fg
WaitCommand(e) ==
    /\ CanRun(e)
    /\ \E s \in {Taken(e)} :
       \E j \in s.live :
          /\ s.jobno[j] >= 0 /\ WhoWaitsFor(s, j) = {} /\ ~WaitLoop(s, j, e)
          /\ WaitUp \/ e \notin Below(s, {j})
          /\ Become(AddWaiting(s, e, j))

\* wait all
WaitAll(e) ==
    /\ CanRun(e)
    /\ \E s \in {Taken(e)} : Become(FoldSet(LAMBDA c, t : AddWaiting(t, e, c), s, ChildrenOf(s, e)))

\* Ctrl-C and Ctrl-Z at the interactive top level shell.
Interrupt == waiting[Top] # <<>> /\ NothingToReap(Top) /\ Become(Signal(Now, Top).s)
SuspendAll == waiting[Top] # <<>> /\ NothingToReap(Top) /\ Become([Now EXCEPT !.waiting[Top] = <<>>])

Command(e) ==
    \/ Builtin(e) \/ Run(e) \/ Queue(e) \/ KillCommand(e) \/ KillAll(e)
    \/ WaitCommand(e) \/ WaitAll(e)
Work(j) == Reap(j) \/ Finish(j) \/ BuiltinEnds(j) \/ StartPart(j)
Do(j) == Work(j) \/ Command(j)

-----------------------------------------------------------------------------
Init ==
    /\ live = {Top}
    /\ parent = [j \in Id |-> None]
    /\ waiting = [j \in Id |-> <<>>]
    /\ jobno = [j \in Id |-> -1]
    /\ kind = [j \in Id |-> IF j = Top THEN "shell" ELSE None]
    /\ busy = {}
    /\ work = [j \in Id |-> IF j = Top THEN MaxTop ELSE 0]

Next == Interrupt \/ SuspendAll \/ \E j \in Id : Do(j)

Spec == Init /\ [][Next]_vars

\* The scheduler calls the Do of every job again and again (module SMTask): a
\* job that can work does, a shell that can take a command takes it.  (As
\* Builtin is possible whenever CanRun is, and only a command or its deletion
\* takes a command from a live shell, the last line is WF_vars(Command(e)).)
FairSpec ==
    /\ Spec
    /\ \A j \in Id : WF_vars(Work(j))
    /\ \A e \in Id : []<>~CanRun(e) \/ []<><<work'[e] < work[e]>>_vars

-----------------------------------------------------------------------------
TypeOK ==
    /\ live \subseteq Id /\ Top \in live /\ busy \subseteq live
    /\ parent \in [Id -> Id \cup {None}]
    /\ \A j \in Id : waiting[j] \in Seq(Id) /\ IsInjective(waiting[j])
    /\ jobno \in [Id -> -1..MaxNo]
    /\ kind \in [Id -> Kind \cup {None}]
    /\ work \in [Id -> Nat]

\* No job waits for a job that is already deleted, so that every waiter is told
\* of the end of what it waits for (the "simulate normal death" of Job::Kill).
AwaitedAlive == TypeOK /\ \A p \in live : kind[p] # "killed" => ToSet(waiting[p]) \subseteq live

\* Who waits for a job is its parent: Kill, PrepareToDie and the listing of
\* jobs look for the waiter only there.
WaiterIsParent == \A p \in live : kind[p] # "killed" => \A j \in ToSet(waiting[p]) : parent[j] = p

\* "kill all should terminate queued commands too" (tests/lftp-queue-kill), as
\* far as the jobs obey: what is left waits, or is busy, or is a process.
KillAllKills ==
    [][(\E e \in Id : KillAll(e)) =>
          \A j \in live' : jobno'[j] >= 0 =>
             kind[j] = "proc" \/ waiting'[j] # <<>> \/ j \in busy \cap live]_vars

\* Whoever waits is told in the end, however jobs are killed, interrupted,
\* buried and moved about meanwhile.
WaitsEnd == \A p, j \in Id : (p \in live /\ j \in ToSet(waiting[p])) ~> ~(p \in live /\ j \in ToSet(waiting[p]))

=============================================================================
