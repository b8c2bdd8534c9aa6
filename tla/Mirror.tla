------------------------------- MODULE Mirror -------------------------------
(***************************************************************************)
(* The mirror command (MirrorJob.cc, FileSet.cc): a job for each directory, *)
(* which compares two listings and starts jobs that transfer, make, remove  *)
(* and chmod files, and jobs of the same kind for its subdirectories.  All  *)
(* of them share one count of what is running.                              *)
(*                                                                         *)
(* A file is its path below the top, a sequence of names; a FileSet is a    *)
(* function from paths.  Operators map w = [m, n, j, t] (mirrors, count,    *)
(* running jobs, target) to what a label of Do leaves.  Left out: symbolic  *)
(* links, redirections, scripts, --flat, limits of size and age, partial    *)
(* files (FileCopy), owners and times; the order in a FileSet is arbitrary. *)
(* That Do rolls the parent is a scheduling choice, and every one is made.  *)
(***************************************************************************)
EXTENDS Integers, Sequences, FiniteSets, FiniteSetsExt

CONSTANTS
    Options,      \* the mirrors to try: flags and the two trees before
    Faults        \* bound: operations that fail

VARIABLES
    opt,            \* the one that is tried
    mir,            \* directory -> the MirrorJob for it
    transfer_count, \* of the root
    jobs,           \* what mirrors have started: [dir, kind, path, st]
    src, tgt,       \* the two trees: path -> info
    faults

vars == <<opt, mir, transfer_count, jobs, src, tgt, faults>>

Top == <<>>
Parent(p) == SubSeq(p, 1, Len(p) - 1)
Below(p, d) == Len(p) > Len(d) /\ SubSeq(p, 1, Len(d)) = d
IsDir(tree, p) == p \in DOMAIN tree /\ tree[p].type = "dir"
Only(fs, paths) == [p \in DOMAIN fs \cap paths |-> fs[p]]
Minus(fs, paths) == Only(fs, DOMAIN fs \ paths)
Merge(fs, gs) == [p \in DOMAIN fs \cup DOMAIN gs |-> IF p \in DOMAIN fs THEN fs[p] ELSE gs[p]]
Listing(tree, d) == Only(tree, {p \in DOMAIN tree : p # Top /\ Parent(p) = d})
DirsOf(fs) == {p \in DOMAIN fs : fs[p].type = "dir"}

None == [p \in {} |-> 0]
NoMirror == [on |-> FALSE]

\* MirrorJob: depth and norec are the flags DEPTH_FIRST and NO_RECURSION, which a job changes for itself
NewMirror(create, rmdir, depth, norec, no_target) ==
    [on |-> TRUE, state |-> "INITIAL", ask |-> "none", res |-> "none", waiting |-> {},
     src |-> None, has_src |-> FALSE, tgt |-> None, has_tgt |-> FALSE, src_rec |-> None, tgt_rec |-> None,
     to_transfer |-> None, to_mkdir |-> None, to_rm |-> {}, mismatched |-> {}, mismatched_left |-> {},
     same |-> {}, new |-> {}, old |-> None, left |-> {}, only_dirs |-> FALSE,
     create |-> create, no_target |-> no_target, rmdir |-> rmdir, depth |-> depth, norec |-> norec,
     errors |-> 0, dirs |-> 0, done |-> FALSE]

Init ==
    /\ opt \in Options
    /\ src = opt.src /\ tgt = opt.tgt
    /\ mir = [d \in DirsOf(opt.src) |->
                IF d = Top THEN NewMirror(TRUE, opt.remove_dirs, opt.depth, FALSE, FALSE) ELSE NoMirror]
    /\ transfer_count = 0 /\ jobs = {} /\ faults = 0

-----------------------------------------------------------------------------
(* FileSet and InitSets.                                                   *)

\* FileInfo::SameAs.  A difference of date does not matter with --ignore-time, nor to a remote
\* target that is not older, nor, like one of size, with --only-newer.
SameAs(f, g) ==
    /\ f.type = "file" /\ g.type = "file"
    /\ \/ f.date = g.date \/ opt.ignore_time
       \/ f.date < g.date /\ (~opt.local \/ opt.only_newer)
    /\ f.size = g.size \/ (opt.only_newer /\ f.date < g.date)

\* FileSet::SubtractSame
Same(fs, gs) == {p \in DOMAIN fs \cap DOMAIN gs : SameAs(fs[p], gs[p])}

\* Fault: files that are to be transferred count as the same.
InitSetsLoosely(m) ==
    [m EXCEPT !.to_transfer = Minus(m.src, Same(m.src, m.tgt)), !.same = DOMAIN m.src, !.new = DOMAIN m.src]

\* InitSets, of which target_set may be null
InitSets(m) ==
    LET same == IF opt.transfer_all THEN {} ELSE Same(m.src, m.tgt)
        transfer == Minus(m.src, same)
        olds == Only(m.tgt, DOMAIN transfer)
        wrong == {p \in DirsOf(olds) : transfer[p].type # "dir"}
        mkdir == Only(transfer, DirsOf(transfer) \ DOMAIN m.tgt)
        kept == IF opt.delete THEN transfer ELSE Minus(transfer, wrong)
    IN  [m EXCEPT !.to_rm = DOMAIN m.tgt \ DOMAIN m.src, !.to_mkdir = IF opt.scan THEN mkdir ELSE None,
                  !.same = same, !.new = DOMAIN transfer \ DOMAIN m.tgt, !.old = olds,
                  !.mismatched = wrong, !.mismatched_left = wrong, !.to_transfer = kept,
                  !.only_dirs = IF opt.scan THEN TRUE ELSE DirsOf(kept) = DOMAIN kept]

-----------------------------------------------------------------------------
(* Jobs of a mirror.                                                       *)

Mir(w, d, m) == [w EXCEPT !.m[d] = m]

\* JobStarted and TransferStarted
Start(w, d, kind, p) ==
    LET job == [dir |-> d, kind |-> kind, path |-> p, st |-> "run"] IN
    [w EXCEPT !.n = @ + 1, !.j = @ \cup {job}, !.m[d].waiting = @ \cup {p}]

Weight == IF opt.parallel_dirs THEN 1 ELSE 1024           \* root_transfer_count of another mirror
Started(w, d) == IF d = Top THEN w ELSE [w EXCEPT !.n = @ + Weight]     \* MirrorStarted
FinishedOnce(w, d) == IF d = Top THEN w ELSE [w EXCEPT !.n = @ - 1]     \* Fault: not what MirrorStarted added
Finished(w, d) == IF d = Top THEN w ELSE [w EXCEPT !.n = @ - Weight]    \* MirrorFinished

\* Fault: the jobs of a mirror are not counted any more when one fails.
ReapForgetting(w, d) ==
    LET ended == {j \in w.j : j.dir = d /\ j.st # "run"}
    IN  [w EXCEPT !.j = @ \ ended, !.n = @ - Cardinality({j \in ended : j.st = "ok"}),
                  !.m[d].waiting = @ \ {j.path : j \in ended}]

\* FindDoneAwaitedJob, JobFinished and TransferFinished for all that are done
Reap(w, d) ==
    LET ended == {j \in w.j : j.dir = d /\ j.st # "run"}
        subs == {p \in w.m[d].waiting \cap DOMAIN w.m : w.m[p].on /\ w.m[p].state = "DONE"}
        bad == Cardinality({j \in ended : j.st = "err"}) + Cardinality({p \in subs : w.m[p].errors > 0})
        freed == [p \in DOMAIN w.m |-> IF p \in subs THEN NoMirror ELSE w.m[p]]
    IN  [w EXCEPT !.j = @ \ ended, !.n = @ - Cardinality(ended) - Cardinality(subs),
                  !.m = [freed EXCEPT ![d].waiting = @ \ (subs \cup {j.path : j \in ended}), ![d].errors = @ + bad]]

TooManyErrors(m) == opt.max_errors > 0 /\ m.errors >= opt.max_errors
Room(w) == w.n < opt.parallel

-----------------------------------------------------------------------------
(* HandleFile.                                                             *)

\* A file has appeared in a local target, or has changed there, since the mirror listed it.
Changed(w, m, p) == opt.local /\ p \in DOMAIN w.t /\ (p \in m.new \/ (p \in DOMAIN m.old /\ m.old[p] # w.t[p]))

HandleNormal(w, d, p) ==
    LET m == w.m[d] IN
    IF Changed(w, m, p) \/ (opt.only_existing /\ p \notin DOMAIN m.tgt) THEN w
    ELSE [Start(w, d, IF p \in DOMAIN m.tgt /\ p \notin m.mismatched /\ ~opt.overwrite THEN "replace" ELSE "transfer", p)
            EXCEPT !.m[d].done = TRUE]

\* A mirror for a subdirectory takes over the flags of its parent at this moment.  A local file
\* in its place is removed.
HandleDirectory(w, d, p) ==
    LET m == w.m[d]
        there == opt.local /\ p \in DOMAIN w.t
        create == IF there THEN ~IsDir(w.t, p) ELSE ~IsDir(m.tgt, p)
        sub == NewMirror(create, opt.remove_dirs, m.depth, m.norec, m.no_target)
        v == [w EXCEPT !.t = IF there /\ create THEN Minus(@, {p}) ELSE @]
    IN  IF m.norec \/ (opt.only_existing /\ p \notin DOMAIN m.tgt) THEN w
        ELSE Started([v EXCEPT !.m[p] = sub, !.m[d].waiting = @ \cup {p}], p)

HandleFile(w, d, p) ==
    IF w.m[d].to_transfer[p].type = "dir" THEN HandleDirectory(w, d, p) ELSE HandleNormal(w, d, p)

-----------------------------------------------------------------------------
(* Do: labels and states from the last to the first.                       *)

Goto(w, d, state) == [w EXCEPT !.m[d].state = state]
Ask(w, d, state, what) == [w EXCEPT !.m[d].state = state, !.m[d].ask = what, !.m[d].res = "none"]
AskLists(w, d) == Ask(w, d, "GETTING_LIST_INFO", "ls")
Next1(left) == CHOOSE p \in left : TRUE        \* the next of a FileSet
Skip(w, d, p) == [w EXCEPT !.m[d].left = @ \ {p}]

\* pre_DONE
PreDone(w, d) ==
    LET m == w.m[d] IN
    IF d = Top /\ opt.loop /\ m.done /\ m.errors = 0
    THEN AskLists(Mir(w, d, [m EXCEPT !.done = FALSE, !.dirs = 0, !.has_src = FALSE, !.has_tgt = FALSE]), d)
    ELSE Goto(w, d, "DONE")

\* FINISHING.  The count goes up once more for the parent, which takes it back.
Finishing(w, d) ==
    LET v == Reap(Goto(w, d, "FINISHING"), d)
        m == v.m[d]
        up == [v EXCEPT !.n = @ + 1]
    IN  IF m.waiting # {} THEN v
        ELSE IF m.rmdir THEN [Start(v, d, "rmdir_source", d) EXCEPT !.m[d].rmdir = FALSE]
        ELSE PreDone(IF d = Top THEN up
                     ELSE [up EXCEPT !.m[Parent(d)].errors = @ + m.errors, !.m[Parent(d)].dirs = @ + m.dirs,
                                     !.m[Parent(d)].done = @ \/ m.done], d)

\* A loop that starts a job of this kind for each file that is left, while there is room
RECURSIVE StartEach(_, _, _)
StartEach(w, d, kind) ==
    LET left == w.m[d].left IN
    IF ~Room(w) \/ left = {} THEN w
    ELSE StartEach(Skip(Start(w, d, kind, Next1(left)), d, Next1(left)), d, kind)

\* SOURCE_REMOVING_SAME
RemovingSame(w, d) ==
    LET v == Reap(w, d)
        u == StartEach(v, d, "rm_source")
    IN  IF TooManyErrors(v.m[d]) THEN Finishing(v, d)
        ELSE IF Room(u) /\ u.m[d].left = {} THEN Finishing(u, d) ELSE u

\* Fault: what was to be transferred is removed too, transferred or not.
PreFinishingAll(w, d) ==
    IF opt.remove_source
    THEN RemovingSame([Goto(w, d, "SOURCE_REMOVING_SAME") EXCEPT
                         !.m[d].left = {p \in DOMAIN w.m[d].src : w.m[d].src[p].type = "file"}], d)
    ELSE Finishing(w, d)

\* pre_FINISHING_FIX_LOCAL
PreFinishing(w, d) ==
    IF opt.remove_source /\ ~opt.transfer_all
    THEN RemovingSame([Goto(w, d, "SOURCE_REMOVING_SAME") EXCEPT !.m[d].left = w.m[d].same], d)
    ELSE Finishing(w, d)

\* TARGET_CHMOD: modes differ from the defaults.
Chmod(w, d) ==
    LET v == Reap(w, d)
        u == StartEach(v, d, "chmod")
    IN  IF TooManyErrors(v.m[d]) THEN Finishing(v, d)
        ELSE IF Room(u) /\ u.m[d].left = {} THEN PreFinishing(u, d) ELSE u
PreChmod(w, d) ==
    LET m == w.m[d] IN
    IF ~opt.perms THEN PreFinishing(w, d)
    ELSE Chmod([Goto(w, d, "TARGET_CHMOD") EXCEPT
                  !.m[d].left = {p \in DOMAIN m.to_transfer : ~(IsDir(m.to_transfer, p) /\ IsDir(m.tgt, p))}], d)

\* pre_CHANGING_DIR_TARGET and pre_MAKE_TARGET_DIR
ChdirTarget(w, d) == Ask(w, d, "CHANGING_DIR_TARGET", "cd_target")
PreMakeTargetDir(w, d) ==
    LET m == w.m[d]
        there == opt.local /\ d \in DOMAIN w.t
        v == [w EXCEPT !.m[d].create = FALSE]
        u == IF there THEN [w EXCEPT !.t = Minus(@, {d})] ELSE w
    IN  IF ~m.create THEN ChdirTarget(w, d)
        ELSE IF there /\ IsDir(w.t, d) THEN ChdirTarget(v, d)
        ELSE IF m.depth THEN AskLists(u, d)
        ELSE Ask(u, d, "MAKE_TARGET_DIR", "mkdir")

\* Fault: the directory is not made after the first pass.
SecondPassUnmade(w, d) ==
    ChdirTarget(Started([w EXCEPT !.m[d].depth = FALSE, !.m[d].norec = TRUE], d), d)

\* The first pass of --depth-first is over: the directory itself is made, unless it would be empty.
SecondPass(w, d) ==
    LET m == w.m[d]
        v == [w EXCEPT !.m[d].depth = FALSE, !.m[d].norec = TRUE]
    IN  IF opt.no_empty /\ m.dirs = 0 /\ m.only_dirs
        THEN PreFinishing(IF d = Top THEN v ELSE [v EXCEPT !.m[Parent(d)].src = Minus(@, {d})], d)
        ELSE PreMakeTargetDir(Started(v, d), d)

\* TARGET_REMOVE_OLD and TARGET_REMOVE_OLD_FIRST, from which the next are reached
RECURSIVE Removals(_, _)
Removals(w, d) ==
    LET m == w.m[d]
        first == m.state = "TARGET_REMOVE_OLD_FIRST"
        rest == IF ~first \/ opt.remove_first THEN m.to_rm ELSE {}
        from == IF first /\ m.mismatched_left # {} THEN m.mismatched_left ELSE rest
        p == Next1(from)
        v == [w EXCEPT !.m[d].mismatched_left = @ \ {p}, !.m[d].to_rm = @ \ {p}]
    IN  IF ~Room(w) \/ from = {} THEN w
        ELSE Removals(IF opt.delete THEN Start(v, d, "rm", p) ELSE v, d)
RemoveOld(w, d) ==
    LET v == Reap(w, d)
        u == Removals(v, d)
    IN  IF TooManyErrors(v.m[d]) THEN Finishing(v, d)
        ELSE IF Room(u) /\ u.m[d].waiting = {} THEN PreChmod(u, d) ELSE u

\* WAITING_FOR_TRANSFER
RECURSIVE HandleFiles(_, _)
HandleFiles(w, d) ==
    LET left == w.m[d].left IN
    IF ~Room(w) \/ left = {} THEN w ELSE HandleFiles(Skip(HandleFile(w, d, Next1(left)), d, Next1(left)), d)
Transfers(w, d) ==
    LET v == Reap(w, d)
        u == HandleFiles(v, d)
    IN  IF TooManyErrors(v.m[d]) THEN Finishing(v, d)
        ELSE IF ~Room(u) \/ u.m[d].waiting # {} THEN u
        ELSE IF u.m[d].depth THEN SecondPass(u, d)
        ELSE IF opt.remove_first THEN PreChmod(u, d)
        ELSE RemoveOld(Goto(u, d, "TARGET_REMOVE_OLD"), d)
PreTransfers(w, d) ==
    Transfers([Goto(w, d, "WAITING_FOR_TRANSFER") EXCEPT !.m[d].left = DOMAIN w.m[d].to_transfer], d)

\* TARGET_MKDIR: the next state does not wait for these jobs.
Mkdirs(w, d) ==
    LET v == Reap(w, d)
        u == StartEach(v, d, "mkdir")
    IN  IF TooManyErrors(v.m[d]) THEN Finishing(v, d)
        ELSE IF Room(u) /\ u.m[d].left = {} THEN PreTransfers(u, d) ELSE u
PreMkdir(w, d) ==
    IF ~opt.scan THEN PreTransfers(w, d)
    ELSE Mkdirs([Goto(w, d, "TARGET_MKDIR") EXCEPT !.m[d].left = DOMAIN w.m[d].to_mkdir], d)
RemoveOldFirst(w, d) ==
    LET v == Reap(w, d)
        u == Removals(v, d)
    IN  IF TooManyErrors(v.m[d]) THEN Finishing(v, d)
        ELSE IF Room(u) /\ u.m[d].waiting = {} THEN PreMkdir(u, d) ELSE u

\* With --scan-all-first the sets of a subdirectory become part of those of the top, and that is all.
Scanned(w, d) ==
    LET m == w.m[d] IN
    PreDone([w EXCEPT !.m[Top].src_rec = Merge(@, m.src), !.m[Top].tgt_rec = Merge(@, m.tgt),
                      !.m[Top].dirs = @ + 1, !.n = @ + 1], d)

\* GETTING_LIST_INFO, both lists have come
Listed(w, d) ==
    LET m == w.m[d]
        first == m.depth /\ ~m.has_tgt
        dirs == InitSets(m)
        all == InitSets([m EXCEPT !.src = Merge(@, m.src_rec), !.tgt = Merge(@, m.tgt_rec),
                                  !.src_rec = None, !.tgt_rec = None])
        count == [w EXCEPT !.m[d].dirs = @ + (IF d = Top THEN 0 ELSE 1)]
    IN  IF first THEN PreTransfers(Mir(w, d, [dirs EXCEPT !.to_transfer = Only(@, DirsOf(@))]), d)
        ELSE IF opt.scan /\ d # Top THEN Scanned(count, d)
        ELSE RemoveOldFirst(Mir(w, d, [all EXCEPT !.state = "TARGET_REMOVE_OLD_FIRST", !.dirs = count.m[d].dirs,
                                        !.done = @ \/ (opt.delete /\ all.to_rm \cup all.mismatched # {})]), d)

\* HandleChdir and HandleListInfo: a mirror whose directory cannot be listed ends.
Stops(w, d) == Goto(Finished([w EXCEPT !.m[d].errors = @ + 1], d), d, "FINISHING")

\* The target's list is asked for when there is a target, and not before the second pass.
WantsTarget(m) == ~m.has_tgt /\ ~m.create /\ (~m.depth \/ opt.only_existing)

Lists(w, d) ==
    LET m == w.m[d]
        s == IF m.has_src THEN m.src ELSE Listing(src, d)
        g == IF ~WantsTarget(m) THEN m.tgt ELSE IF m.no_target THEN None ELSE Listing(w.t, d)
    IN  Listed(Finished(Mir(w, d, [m EXCEPT !.src = s, !.has_src = TRUE, !.tgt = g,
                                   !.has_tgt = @ \/ WantsTarget(m)]), d), d)

\* CHANGING_DIR_SOURCE: a directory that cannot be read is still made.
SourceMoved(w, d) ==
    LET m == w.m[d]
        v == IF m.create /\ ~opt.no_empty /\ d # Top THEN Start(w, d, "mkdir", d) ELSE w
    IN  IF m.res = "ok" THEN PreMakeTargetDir(w, d) ELSE Stops([v EXCEPT !.m[d].rmdir = FALSE], d)

\* CHANGING_DIR_TARGET
TargetMoved(w, d) ==
    LET v == [w EXCEPT !.m[d].create = FALSE] IN
    IF w.m[d].res = "ok" THEN AskLists(v, d)
    ELSE IF opt.scan THEN AskLists([v EXCEPT !.m[d].no_target = TRUE], d)
    ELSE Stops([w EXCEPT !.m[d].rmdir = FALSE], d)

\* INITIAL_STATE
Initial(w, d) ==
    Ask([w EXCEPT !.m[d].create = @ /\ ~(opt.scan /\ d # Top)], d, "CHANGING_DIR_SOURCE", "cd_source")

DoState(w, d) ==
    LET m == w.m[d] IN
    CASE m.state = "INITIAL" -> Initial(w, d)
      [] m.state = "CHANGING_DIR_SOURCE" -> SourceMoved(w, d)
      [] m.state = "MAKE_TARGET_DIR" -> ChdirTarget([w EXCEPT !.m[d].create = FALSE], d)
      [] m.state = "CHANGING_DIR_TARGET" -> TargetMoved(w, d)
      [] m.state = "GETTING_LIST_INFO" -> IF m.res = "ok" THEN Lists(w, d) ELSE Stops(w, d)
      [] m.state = "TARGET_MKDIR" -> Mkdirs(w, d)
      [] m.state = "WAITING_FOR_TRANSFER" -> Transfers(w, d)
      [] m.state = "TARGET_REMOVE_OLD" -> RemoveOld(w, d)
      [] m.state = "TARGET_REMOVE_OLD_FIRST" -> RemoveOldFirst(w, d)
      [] m.state = "TARGET_CHMOD" -> Chmod(w, d)
      [] m.state = "SOURCE_REMOVING_SAME" -> RemovingSame(w, d)
      [] m.state = "FINISHING" -> Finishing(w, d)
      [] m.state = "DONE" -> w

W == [m |-> mir, n |-> transfer_count, j |-> jobs, t |-> tgt]
SetW(w) == mir' = w.m /\ transfer_count' = w.n /\ jobs' = w.j /\ tgt' = w.t

Stepped(d) == DoState([W EXCEPT !.m[d].ask = "none"], d)

\* Do, unless it waits for an answer
Do(d) ==
    /\ mir[d].on /\ (mir[d].ask = "none" \/ mir[d].res # "none")
    /\ LET w == Stepped(d) IN w # W /\ SetW(w)
    /\ UNCHANGED <<opt, src, faults>>

-----------------------------------------------------------------------------
(* Sessions and jobs.                                                      *)

Dir == [type |-> "dir", date |-> 0, size |-> 0]
WithDirs(tree, ds) == Merge(tree, [d \in ds |-> Dir])
CanMake(tree, p) == p \notin DOMAIN tree /\ (p = Top \/ IsDir(tree, Parent(p)))
Prefixes(p) == {SubSeq(p, 1, i) : i \in 0..Len(p)}

\* Mkdir, with the directories above it if the parent mirror has not made its own
Made(d) ==
    LET all == d = Top \/ mir[Parent(d)].create IN
    IF all /\ \A p \in Prefixes(d) : p \in DOMAIN tgt => IsDir(tgt, p) THEN WithDirs(tgt, Prefixes(d))
    ELSE IF CanMake(tgt, d) THEN WithDirs(tgt, {d}) ELSE tgt

Answers(d, res) == mir' = [mir EXCEPT ![d].res = res] /\ UNCHANGED <<opt, transfer_count, jobs, src>>
Asks(d) == mir[d].on /\ mir[d].ask # "none" /\ mir[d].res = "none"

\* What a session was asked for is done: Chdir, Mkdir, or both listings
SessionAnswers(d) ==
    /\ Asks(d)
    /\ Answers(d, IF mir[d].ask = "cd_source" => IsDir(src, d) THEN
                      IF mir[d].ask = "cd_target" => IsDir(tgt, d) THEN "ok" ELSE "err"
                   ELSE "err")
    /\ tgt' = IF mir[d].ask = "mkdir" THEN Made(d) ELSE tgt
    /\ UNCHANGED faults

SessionFails(d) ==
    /\ Asks(d) /\ faults < Faults /\ faults' = faults + 1
    /\ Answers(d, "err") /\ UNCHANGED tgt

\* Whether a job can succeed, and what it leaves: the target and the source
Possible(j) ==
    LET p == j.path IN
    CASE j.kind \in {"transfer", "replace"} -> p \in DOMAIN src /\ IsDir(tgt, Parent(p)) /\ ~IsDir(tgt, p)
      [] j.kind = "mkdir" -> CanMake(tgt, p)
      [] j.kind \in {"rm", "chmod"} -> p \in DOMAIN tgt
      [] j.kind = "rm_source" -> p \in DOMAIN src
      [] j.kind = "rmdir_source" -> ~\E q \in DOMAIN src : Below(q, p)
TargetAfter(j) ==
    LET p == j.path IN
    CASE j.kind \in {"transfer", "replace"} -> [q \in DOMAIN tgt \cup {p} |-> IF q = p THEN src[p] ELSE tgt[q]]
      [] j.kind = "mkdir" -> WithDirs(tgt, {p})
      [] j.kind = "rm" -> Minus(tgt, {q \in DOMAIN tgt : q = p \/ Below(q, p)})
      [] OTHER -> tgt
SourceAfter(j) ==
    IF (j.kind \in {"transfer", "replace"} /\ opt.remove_source) \/ j.kind \in {"rm_source", "rmdir_source"}
    THEN Minus(src, {j.path}) ELSE src
\* A transfer that fails leaves the old file, none, or a part.
TargetsAfterFailure(j) ==
    {tgt} \cup (IF j.kind = "replace" THEN {Minus(tgt, {j.path})} ELSE {})
    \cup (IF j.kind \in {"transfer", "replace"} /\ Possible(j)
          THEN {[q \in DOMAIN tgt \cup {j.path} |-> IF q = j.path THEN [type |-> "file", date |-> 0, size |-> 0] ELSE tgt[q]]}
          ELSE {})

Ends(j, st) == jobs' = (jobs \ {j}) \cup {[j EXCEPT !.st = st]} /\ UNCHANGED <<opt, mir, transfer_count>>

JobEnds(j) ==
    /\ j.st = "run"
    /\ IF Possible(j) THEN Ends(j, "ok") /\ tgt' = TargetAfter(j) /\ src' = SourceAfter(j)
       ELSE Ends(j, "err") /\ UNCHANGED <<src, tgt>>
    /\ UNCHANGED faults

JobFails(j) ==
    /\ j.st = "run" /\ faults < Faults /\ faults' = faults + 1
    /\ Ends(j, "err") /\ tgt' \in TargetsAfterFailure(j) /\ UNCHANGED src

-----------------------------------------------------------------------------
Next ==
    \/ \E d \in DOMAIN mir : Do(d) \/ SessionAnswers(d) \/ SessionFails(d)
    \/ \E j \in jobs : JobEnds(j) \/ JobFails(j)

Spec == Init /\ [][Next]_vars

-----------------------------------------------------------------------------
(* Properties.                                                             *)

SettingUp == {"INITIAL", "CHANGING_DIR_SOURCE", "MAKE_TARGET_DIR", "CHANGING_DIR_TARGET", "GETTING_LIST_INFO"}
Ended == mir[Top].state = "DONE"

TypeOK ==
    /\ transfer_count \in Nat
    /\ \A d \in DOMAIN mir : mir[d].on =>
         /\ mir[d].ask # "none" => mir[d].state \in SettingUp
         /\ d # Top => mir[Parent(d)].on /\ d \in mir[Parent(d)].waiting
    /\ \A j \in jobs : mir[j.dir].on /\ j.path \in mir[j.dir].waiting

\* The count that limits the parallel work of all the directories is what is really going on: the
\* jobs that run, the weight of each directory that is being set up, and the directories and jobs
\* whose end their parent has yet to see (MirrorStarted, MirrorFinished, JobFinished).
CountExact ==
    TypeOK /\ LET sub == {d \in DOMAIN mir \ {Top} : mir[d].on} IN
    transfer_count = Cardinality(jobs) + Weight * Cardinality({d \in sub : mir[d].state \in SettingUp})
                     + Cardinality({d \in sub : mir[d].state = "DONE"}) + (IF Ended THEN 1 ELSE 0)

\* A mirror that ends without errors has made the target like the source as it was at the
\* beginning: every file is there, and with --delete nothing else (InitSets, the order of the phases).
\* (With --scan-all-first a target directory that cannot be entered counts as absent, HandleChdir.)
Left(p) == opt.only_existing /\ p \notin DOMAIN opt.tgt
Empty(p) == opt.no_empty /\ opt.src[p].type = "dir" /\ ~\E q \in DOMAIN opt.src : Below(q, p) /\ opt.src[q].type = "file"
Mirrored ==
    Ended /\ mir[Top].errors = 0 /\ ~(opt.scan /\ faults > 0) =>
      /\ \A p \in DOMAIN opt.src :
           \/ IF opt.src[p].type = "dir" THEN IsDir(tgt, p) ELSE p \in DOMAIN tgt /\ SameAs(opt.src[p], tgt[p])
           \/ \E q \in Prefixes(p) : Left(q) \/ Empty(q) \/ (~opt.delete /\ IsDir(opt.tgt, q) /\ ~IsDir(opt.src, q))
      /\ opt.delete => DOMAIN tgt \subseteq DOMAIN opt.src

\* A file that is moved is at every moment complete in one of the trees, whatever fails.
NothingLost ==
    \A p \in DOMAIN opt.src : opt.src[p].type = "file" =>
      p \in DOMAIN src \/ (p \in DOMAIN tgt /\ SameAs(opt.src[p], tgt[p]))

\* A mirror for which no operation has failed and in whose trees no file is in the place of a
\* directory reports no error: its own jobs do not get in each other's way.
NoErrorOfItsOwn ==
    (\A p \in DOMAIN opt.src \cap DOMAIN opt.tgt : opt.src[p].type = opt.tgt[p].type) /\ faults = 0 =>
      \A d \in DOMAIN mir : mir[d].on => mir[d].errors = 0

\* A mirror goes on until it ends (with --loop: "repeat mirror until no changes found"): as long as
\* it has not, a job runs, a session has still to answer, or some directory's Do has something to do.
NeverStuck ==
    \/ Ended \/ (\E j \in jobs : j.st = "run") \/ (\E d \in DOMAIN mir : Asks(d))
    \/ \E d \in DOMAIN mir : mir[d].on /\ Stepped(d) # W
=============================================================================
