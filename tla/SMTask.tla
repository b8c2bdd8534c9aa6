------------------------------- MODULE SMTask -------------------------------
(***************************************************************************)
(* The cooperative scheduler every lftp object runs under (src/SMTask.cc,  *)
(* the intrusive lists of src/xlist.h, SMTaskRef of src/SMTask.h).         *)
(*                                                                         *)
(* There is one C++ thread.  Concurrency is the nesting of calls:          *)
(* Schedule iterates over the ready tasks and calls their Do, a Do may     *)
(* create, delete, suspend, resume and Roll other tasks, take and drop     *)
(* counted references, collect garbage, and (readline's getc, GetPass)     *)
(* call Schedule again.  The C++ call stack is the variable ctl; each      *)
(* activation of a list-walking function keeps its own node and next       *)
(* pointers in its frame, as xlist_for_each_safe does.                     *)
(*                                                                         *)
(* The main program is the body of init_task: its constructor calls Enter  *)
(* and nothing leaves it, so init_task is running for ever and stays at    *)
(* the bottom of the stack.                                                *)
(***************************************************************************)
EXTENDS Naturals, Sequences, SequencesExt

CONSTANTS Task,      \* identities (addresses) task objects may have
          InitTask,  \* SMTask::init_task
          Slave,     \* the tasks some other task suspends as its slaves
          Keeper,    \* the tasks that keep counted references to others
          End,       \* the list head seen as a node: get_obj() == 0
          MaxNest,   \* bound: activations of Schedule on the stack
          MaxWork    \* bound: operations one activation of a body performs

ASSUME TaskAssumption ==
    /\ InitTask \in Task
    /\ Slave \subseteq Task
    /\ Keeper \subseteq Task
    /\ End \notin Task
    /\ MaxNest \in Nat
    /\ MaxWork \in Nat

VARIABLES
    all,              \* all_tasks: the objects that exist
    ready, new, deleted, \* ready_tasks, new_tasks, deleted_tasks, head first
    suspended, suspended_slave, deleting,
    running, ref_count,
    holds,            \* <<h, t>>: an SMTaskRef inside object h points to t
    ctl,              \* the C++ call stack, top last
    idle              \* SMTask::Block sleeps in poll

lists == <<ready, new, deleted>>
flags == <<suspended, suspended_slave, deleting>>
counts == <<running, ref_count, holds>>
vars == <<all, lists, flags, counts, ctl, idle>>

-----------------------------------------------------------------------------
(* Lists.  A node is on a list at most once; next() of a node that is not  *)
(* on the list is the null pointer xlist::remove leaves there.             *)

Listed(q, t) == \E i \in DOMAIN q : q[i] = t
Position(q, t) == CHOOSE i \in DOMAIN q : q[i] = t
Unlink(q, t) == RemoveAt(q, Position(q, t))
UnlinkIfListed(q, t) == IF Listed(q, t) THEN Unlink(q, t) ELSE q
First(q) == IF q = <<>> THEN End ELSE q[1]
NextOf(q, t) == IF Position(q, t) = Len(q) THEN End ELSE q[Position(q, t) + 1]

IsSuspended(t) == suspended[t] \/ suspended_slave[t]

-----------------------------------------------------------------------------
(* The call stack. *)

Top == ctl[Len(ctl)]
Caller == SubSeq(ctl, 1, Len(ctl) - 1)
SetTop(f) == [ctl EXCEPT ![Len(ctl)] = f]

\* A body is code of task: its Do called from ScheduleThis ("Do") or from
\* Roll ("Roll"), or its destructor ("Dtor").  left bounds what it may do.
Body(fn, t) == [fn |-> fn, task |-> t, node |-> End, next |-> End,
                pc |-> "body", res |-> FALSE, left |-> MaxWork]
Walk(fn, first) == [fn |-> fn, task |-> End, node |-> first, next |-> End,
                    pc |-> "loop", res |-> FALSE, left |-> 0]

InBody == Top.fn \in {"Do", "Roll"} /\ ~idle
Working == InBody /\ Top.left > 0
Self == Top.task
Worked == [Top EXCEPT !.left = @ - 1]
Nesting == Len(SelectSeq(ctl, LAMBDA f : f.fn = "Schedule"))

\* SMTask::Enter, then the body; f is the calling frame, already advanced.
EnterBody(f, fn, t) ==
    /\ running' = [running EXCEPT ![t] = @ + 1]
    /\ ctl' = Append(SetTop(f), Body(fn, t))

\* A value returned to the caller: res|=... in the two loops; a body that
\* called Roll, Schedule or CollectGarbage ignores it here.
ReturnTo(stack, m) ==
    LET f == stack[Len(stack)]
    IN IF f.fn \in {"Schedule", "ScheduleNew"} /\ m
       THEN [stack EXCEPT ![Len(stack)] = [f EXCEPT !.res = TRUE]]
       ELSE stack

-----------------------------------------------------------------------------
(* SMTask::ScheduleThis(t) called by frame f (already advanced), with the  *)
(* list ready_tasks being q and the reference counts being rc.             *)
ScheduleThis(t, f, q, rc) ==
    /\ ref_count' = rc
    /\ IF running[t] > 0
       THEN /\ ready' = q
            /\ ctl' = SetTop(f)
            /\ UNCHANGED running
       ELSE IF deleting[t] \/ IsSuspended(t)
       THEN /\ ready' = Unlink(q, t)
            /\ ctl' = SetTop(f)
            /\ UNCHANGED running
       ELSE /\ ready' = q
            /\ EnterBody(f, "Do", t)

\* IncRefCount/DecRefCount of the next task, when next is not the list head.
\* (UnpinForgotten, UnpinUnchecked: faults the checks must notice.)
UnpinForgotten(t) == ref_count
UnpinUnchecked(t) == IF t = End THEN ref_count ELSE [ref_count EXCEPT ![t] = @ - 2]
Pin(t) == IF t = End THEN ref_count ELSE [ref_count EXCEPT ![t] = @ + 1]
Unpin(t) == IF t = End \/ ref_count[t] = 0 THEN ref_count
            ELSE [ref_count EXCEPT ![t] = @ - 1]

-----------------------------------------------------------------------------
(* SMTask::Schedule: ScheduleNew, then every ready task, ScheduleNew after *)
(* each, then CollectGarbage.                                              *)

CallSchedule ==
    /\ InBody
    /\ Nesting < MaxNest
    /\ \/ Len(ctl) = 1
       \/ Top.left > 0
    /\ LET caller == SetTop(IF Len(ctl) = 1 THEN Top ELSE Worked)
           schedule == [Walk("Schedule", End) EXCEPT !.pc = "start"]
       IN ctl' = Append(Append(caller, schedule), Walk("ScheduleNew", First(new)))
    /\ UNCHANGED <<all, lists, flags, counts, idle>>

ScheduleStart ==
    /\ Top.fn = "Schedule" /\ Top.pc = "start"
    /\ ctl' = SetTop([Top EXCEPT !.pc = "loop", !.node = First(ready)])
    /\ UNCHANGED <<all, lists, flags, counts, idle>>

ScheduleLoop ==
    /\ Top.fn = "Schedule" /\ Top.pc = "loop" /\ Listed(ready, Top.node)
    /\ LET t == Top.node
           next == NextOf(ready, t)
       IN ScheduleThis(t, [Top EXCEPT !.pc = "ran", !.node = End, !.next = next], ready, Pin(next))
    /\ UNCHANGED <<all, new, deleted, flags, holds, idle>>

\* res|=ScheduleNew(); the frame goes on at "after" when it returns.
ScheduleRan ==
    /\ Top.fn = "Schedule" /\ Top.pc = "ran"
    /\ ctl' = Append(SetTop([Top EXCEPT !.pc = "after"]), Walk("ScheduleNew", First(new)))
    /\ UNCHANGED <<all, lists, flags, counts, idle>>

\* The end of an iteration of either loop: unpin next and step to it.
Advance ==
    /\ Top.fn \in {"Schedule", "ScheduleNew"} /\ Top.pc = "after"
    /\ ref_count' = Unpin(Top.next)
    /\ ctl' = SetTop([Top EXCEPT !.pc = "loop", !.node = Top.next, !.next = End])
    /\ UNCHANGED <<all, lists, flags, running, holds, idle>>

\* The loop has reached the list head: CollectGarbage().
ScheduleCollect ==
    /\ Top.fn = "Schedule" /\ Top.pc = "loop" /\ Top.node = End
    /\ ctl' = Append(SetTop([Top EXCEPT !.pc = "return"]), Walk("Collect", First(deleted)))
    /\ UNCHANGED <<all, lists, flags, counts, idle>>

\* Schedule returns; its callers then Block, which sleeps unless a task
\* moved (block.NoWait).  A new round of the main program may work again.
ScheduleReturn ==
    /\ Top.fn = "Schedule" /\ Top.pc = "return"
    /\ idle' = ~Top.res
    /\ ctl' = IF Len(Caller) = 1 THEN <<[Caller[1] EXCEPT !.left = MaxWork]>> ELSE Caller
    /\ UNCHANGED <<all, lists, flags, counts>>

\* poll returns: a descriptor is ready or the timeout has passed.
Wakeup ==
    /\ idle
    /\ idle' = FALSE
    /\ UNCHANGED <<all, lists, flags, counts, ctl>>

(* SMTask::ScheduleNew *)
ScheduleNewLoop ==
    /\ Top.fn = "ScheduleNew" /\ Top.pc = "loop" /\ Listed(new, Top.node)
    /\ LET t == Top.node
           next == NextOf(new, t)
       IN /\ new' = Unlink(new, t)
          /\ ScheduleThis(t, [Top EXCEPT !.pc = "after", !.node = End, !.next = next], <<t>> \o ready, Pin(next))
    /\ UNCHANGED <<all, deleted, flags, holds, idle>>

ScheduleNewReturn ==
    /\ Top.fn = "ScheduleNew" /\ Top.pc = "loop" /\ Top.node = End
    /\ ctl' = ReturnTo(Caller, Top.res)
    /\ UNCHANGED <<all, lists, flags, counts, idle>>

-----------------------------------------------------------------------------
(* SMTask::CollectGarbage and the destructor it runs. *)

BusyIfRunning(t) == running[t] > 0  \* fault: the count is not looked at
Busy(t) == running[t] > 0 \/ ref_count[t] > 0

CollectLoop ==
    /\ Top.fn = "Collect" /\ Listed(deleted, Top.node)
    /\ LET t == Top.node
           f == [Top EXCEPT !.node = NextOf(deleted, t)]
       IN IF Busy(t)
          THEN /\ ctl' = SetTop(f)
               /\ UNCHANGED deleted
          ELSE /\ deleted' = Unlink(deleted, t)
               /\ ctl' = Append(SetTop(f), Body("Dtor", t))
    /\ UNCHANGED <<all, ready, new, flags, counts, idle>>

CollectReturn ==
    /\ Top.fn = "Collect" /\ Top.node = End
    /\ ctl' = Caller
    /\ UNCHANGED <<all, lists, flags, counts, idle>>

\* Fault: DeleteLater does not queue the object.
DoomUnlisted(t) ==
    /\ deleting' = [deleting EXCEPT ![t] = TRUE]
    /\ UNCHANGED deleted

\* DeleteLater(t): mark it and queue it for CollectGarbage, once.
Doom(t) ==
    /\ deleting' = [deleting EXCEPT ![t] = TRUE]
    /\ deleted' = IF deleting[t] THEN deleted ELSE Append(deleted, t)

\* ~SMTaskRef, or an SMTaskRef of h assigned over: _DeleteRef(t) decrements
\* the count and Deletes t even when other references remain.
DropRef(h, t) ==
    /\ <<h, t>> \in holds
    /\ holds' = holds \ {<<h, t>>}
    /\ ref_count' = Unpin(t)
    /\ Doom(t)
    /\ UNCHANGED <<all, ready, new, suspended, suspended_slave, running, idle>>

\* The destructors of the members of a dying object drop its references.
DtorDropRef ==
    /\ Top.fn = "Dtor"
    /\ \E t \in Task : DropRef(Self, t)
    /\ UNCHANGED ctl

\* ~SMTask, the end of the destructor (the flags of freed memory are reset
\* to one value, so that they do not tell states apart).
DtorReturn ==
    /\ Top.fn = "Dtor"
    /\ \A t \in Task : <<Self, t>> \notin holds
    /\ all' = all \ {Self}
    /\ ready' = UnlinkIfListed(ready, Self)
    /\ new' = UnlinkIfListed(new, Self)
    /\ suspended' = [suspended EXCEPT ![Self] = FALSE]
    /\ suspended_slave' = [suspended_slave EXCEPT ![Self] = FALSE]
    /\ deleting' = [deleting EXCEPT ![Self] = FALSE]
    /\ ctl' = Caller
    /\ UNCHANGED <<deleted, counts, idle>>

-----------------------------------------------------------------------------
(* What the Do of a task, or the main program, may do. *)

\* SMTask::SMTask, the creator keeping the object in an SMTaskRef or not.
NewTask(t, keep) ==
    /\ Working /\ t \notin all /\ (keep => Self \in Keeper)
    /\ all' = all \cup {t}
    /\ new' = <<t>> \o new
    /\ suspended' = [suspended EXCEPT ![t] = FALSE]
    /\ suspended_slave' = [suspended_slave EXCEPT ![t] = FALSE]
    /\ deleting' = [deleting EXCEPT ![t] = FALSE]
    /\ running' = [running EXCEPT ![t] = 0]
    /\ ref_count' = [ref_count EXCEPT ![t] = IF keep THEN 1 ELSE 0]
    /\ holds' = IF keep THEN holds \cup {<<Self, t>>} ELSE holds
    /\ ctl' = SetTop(Worked)
    /\ UNCHANGED <<ready, deleted, idle>>

\* A second SMTaskRef to an existing task.
ShareRef(t) ==
    /\ Working /\ t \in all \ {InitTask} /\ <<Self, t>> \notin holds /\ Self \in Keeper
    /\ ~deleting[t] /\ ~deleting[Self]
    /\ holds' = holds \cup {<<Self, t>>}
    /\ ref_count' = [ref_count EXCEPT ![t] = @ + 1]
    /\ ctl' = SetTop(Worked)
    /\ UNCHANGED <<all, lists, flags, running, idle>>

\* The body drops a reference it holds, or DeleteLater has called the
\* PrepareToDie of a doomed object h, which drops one of h's.
ReleaseRef(h, t) ==
    /\ Working
    /\ h = Self \/ deleting[h]
    /\ DropRef(h, t)
    /\ ctl' = SetTop(Worked)

\* SMTaskRef::borrow: the pointer leaves the reference, the object lives on.
BorrowRef(t) ==
    /\ Working /\ <<Self, t>> \in holds
    /\ holds' = holds \ {<<Self, t>>}
    /\ ref_count' = Unpin(t)
    /\ ctl' = SetTop(Worked)
    /\ UNCHANGED <<all, lists, flags, running, idle>>

\* DeleteLater/Delete of any task in reach, itself included.
DeleteLater(t) ==
    /\ Working /\ t \in all \ {InitTask} /\ ~deleting[t]
    /\ Doom(t)
    /\ ctl' = SetTop(Worked)
    /\ UNCHANGED <<all, ready, new, suspended, suspended_slave, counts, idle>>

Suspend(t) ==
    /\ Working /\ t \in all \ {InitTask}
    /\ \/ /\ ~suspended[t]
          /\ suspended' = [suspended EXCEPT ![t] = TRUE]
          /\ UNCHANGED suspended_slave
       \/ /\ t \in Slave /\ ~suspended_slave[t]
          /\ suspended_slave' = [suspended_slave EXCEPT ![t] = TRUE]
          /\ UNCHANGED suspended
    /\ ctl' = SetTop(Worked)
    /\ UNCHANGED <<all, lists, deleting, counts, idle>>

\* Faults: only one of the lists is looked at; a resumed task is not queued.
RequeuedUnlessNew(t) == IF Listed(new, t) THEN new ELSE Append(new, t)
RequeuedNever(t) == new

\* SMTask::ResumeInternal: back on new_tasks unless it is still listed.
Requeued(t) == IF Listed(new, t) \/ Listed(ready, t) THEN new ELSE Append(new, t)

\* Resume and ResumeSlave; ResumeInternal runs only when neither flag is left.
Resume(t) ==
    /\ Working /\ t \in all \ {InitTask}
    /\ \/ /\ suspended[t]
          /\ suspended' = [suspended EXCEPT ![t] = FALSE]
          /\ UNCHANGED suspended_slave
       \/ /\ suspended_slave[t]
          /\ suspended_slave' = [suspended_slave EXCEPT ![t] = FALSE]
          /\ UNCHANGED suspended
    /\ new' = IF suspended'[t] \/ suspended_slave'[t] THEN new ELSE Requeued(t)
    /\ ctl' = SetTop(Worked)
    /\ UNCHANGED <<all, ready, deleted, deleting, counts, idle>>

MayRollIfAlive(t) == ~deleting[t]  \* fault: running is not looked at
MayRoll(t) == running[t] = 0 /\ ~deleting[t]

\* SMTask::Roll(t): run it now, unless it is already running or dying.
Roll(t) ==
    /\ Working /\ t \in all /\ MayRoll(t)
    /\ EnterBody(Worked, "Roll", t)
    /\ UNCHANGED <<all, lists, flags, ref_count, holds, idle>>

\* Job::KillAll, Job::BuryDoneJobs: CollectGarbage from inside a Do.
CallCollect ==
    /\ Working
    /\ ctl' = Append(SetTop(Worked), Walk("Collect", First(deleted)))
    /\ UNCHANGED <<all, lists, flags, counts, idle>>

\* Do returns MOVED (m) or STALL, then Leave.  Roll calls Do again as long
\* as it moves and is not deleted.
DoReturn(m) ==
    /\ InBody /\ Len(ctl) > 1
    /\ ~(Top.fn = "Roll" /\ m /\ ~deleting[Self])
    /\ running' = [running EXCEPT ![Self] = @ - 1]
    /\ ctl' = ReturnTo(Caller, m)
    /\ UNCHANGED <<all, lists, flags, ref_count, holds, idle>>

-----------------------------------------------------------------------------
Init ==
    /\ all = {InitTask}
    /\ ready = <<>> /\ new = <<InitTask>> /\ deleted = <<>>
    /\ suspended = [t \in Task |-> FALSE]
    /\ suspended_slave = [t \in Task |-> FALSE]
    /\ deleting = [t \in Task |-> FALSE]
    /\ running = [t \in Task |-> IF t = InitTask THEN 1 ELSE 0]
    /\ ref_count = [t \in Task |-> 0]
    /\ holds = {}
    /\ ctl = <<Body("Do", InitTask)>>
    /\ idle = FALSE

Operation(t) ==
    \/ \E keep \in BOOLEAN : NewTask(t, keep)
    \/ ShareRef(t)
    \/ \E h \in Task : ReleaseRef(h, t)
    \/ BorrowRef(t)
    \/ DeleteLater(t)
    \/ Suspend(t)
    \/ Resume(t)
    \/ Roll(t)

Next ==
    \/ CallSchedule \/ ScheduleStart \/ ScheduleLoop \/ ScheduleRan
    \/ Advance \/ ScheduleCollect \/ ScheduleReturn \/ Wakeup
    \/ ScheduleNewLoop \/ ScheduleNewReturn
    \/ CollectLoop \/ CollectReturn \/ DtorDropRef \/ DtorReturn
    \/ \E t \in Task : Operation(t)
    \/ CallCollect
    \/ \E m \in BOOLEAN : DoReturn(m)

Spec == Init /\ [][Next]_vars
FairSpec == Spec /\ WF_vars(Next)

-----------------------------------------------------------------------------
Frame == [fn : {"Do", "Roll", "Dtor", "Schedule", "ScheduleNew", "Collect"},
          task : Task \cup {End}, node : Task \cup {End}, next : Task \cup {End},
          pc : {"body", "start", "loop", "ran", "after", "return"},
          res : BOOLEAN, left : 0..MaxWork]

\* Types of the state; the lists and the call stack are sequences, and the
\* stack is never empty because the main program is its bottom frame.
TypeOK ==
    /\ all \subseteq Task
    /\ ready \in Seq(Task) /\ new \in Seq(Task) /\ deleted \in Seq(Task)
    /\ suspended \in [Task -> BOOLEAN]
    /\ suspended_slave \in [Task -> BOOLEAN]
    /\ deleting \in [Task -> BOOLEAN]
    /\ running \in [Task -> Nat]
    /\ ref_count \in [Task -> Nat]
    /\ holds \subseteq Task \X Task
    /\ ctl \in Seq(Frame) /\ ctl # <<>>
    /\ idle \in BOOLEAN

\* Every object the scheduler, a call in progress or a reference can still
\* reach exists: nothing is used after CollectGarbage has destroyed it.
NoUseAfterFree ==
    /\ \A q \in {ready, new, deleted} : ToSet(q) \subseteq all
    /\ \A r \in holds : r \in all \X all
    /\ \A i \in DOMAIN ctl : {ctl[i].task, ctl[i].node, ctl[i].next} \subseteq all \cup {End}

\* A task that may run is on exactly one of the two lists the scheduler
\* takes tasks from, whatever was suspended and resumed in between.
NoTaskLost ==
    \A t \in all :
        /\ ~(Listed(new, t) /\ Listed(ready, t))
        /\ ~IsSuspended(t) /\ ~deleting[t] => Listed(new, t) \/ Listed(ready, t)

\* ref_count is the number of SMTaskRefs to the object plus the number of
\* list walks that have pinned it, so pins and references never leak.
RefCountExact ==
    \A t \in all :
        ref_count[t] = Cardinality({r \in holds : r[2] = t})
                     + Cardinality({i \in DOMAIN ctl : ctl[i].next = t})

\* No task's code is active twice: the depth of Enter's stack is bounded
\* by the number of tasks, and no Do is re-entered through Roll or Schedule.
Active(t) == \E i \in DOMAIN ctl : ctl[i].fn \in {"Do", "Roll"} /\ ctl[i].task = t
NoReentry ==
    /\ \A i, j \in DOMAIN ctl :
          /\ ctl[i].fn \in {"Do", "Roll"} /\ ctl[j].fn \in {"Do", "Roll"}
          /\ ctl[i].task = ctl[j].task
          => i = j
    /\ \A t \in Task : running[t] = IF Active(t) THEN 1 ELSE 0

\* A doomed object nobody runs or references does not stay for ever.
Collectable(t) == t \in all /\ deleting[t] /\ running[t] = 0 /\ ref_count[t] = 0
GarbageIsCollected == \A t \in Task \ {InitTask} : Collectable(t) ~> ~Collectable(t)

\* A task that may run is run, whatever the other tasks do (a body that
\* suspends or deletes it, or already runs it, takes it off the hook).
Runnable(t) == t \in all /\ ~IsSuspended(t) /\ ~deleting[t] /\ running[t] = 0
RunnableIsRun == \A t \in Task \ {InitTask} : Runnable(t) ~> ~Runnable(t)

=============================================================================
