---------------------------- MODULE SMTaskProofs ----------------------------
(***************************************************************************)
(* Theorems about the scheduler for every set of tasks and every bound:    *)
(* the state is well typed, no task is re-entered, and no runnable task is *)
(* lost.  IInv is the inductive invariant: NoReentry needs to know that    *)
(* active tasks exist and that a dying object's destructor is the top      *)
(* frame; NoTaskLost needs the two lists free of duplicates and disjoint.  *)
(* Then reference counts and object lifetime, by RInv: counts are exact,   *)
(* and nothing that a list, a reference or a call in progress points to    *)
(* has been destroyed.                                                     *)
(***************************************************************************)
EXTENDS SMTask, TLAPS, SequenceTheorems, FiniteSetTheorems

ListsOK ==
    /\ IsInjective(ready) /\ IsInjective(new)
    /\ \A t \in Task : Listed(ready, t) \/ Listed(new, t) => t \in all

\* The call stack c is consistent with the counters run: its bottom is the
\* main program, a task has at most one activation and its counter says
\* whether it has one, and a destructor is the top frame of an idle task.
IsActivation(f) == f.fn \in {"Do", "Roll"}
OnStack(c, t) == \E i \in DOMAIN c : IsActivation(c[i]) /\ c[i].task = t
Stack(c, run) ==
    /\ c \in Seq(Frame) /\ c # <<>> /\ c[1].fn = "Do"
    /\ run \in [Task -> Nat]
    /\ \A i, j \in DOMAIN c :
          IsActivation(c[i]) /\ IsActivation(c[j]) /\ c[i].task = c[j].task => i = j
    /\ \A t \in Task : run[t] = IF OnStack(c, t) THEN 1 ELSE 0
    /\ \A i \in DOMAIN c : IsActivation(c[i]) => c[i].task \in Task
    /\ \A i \in DOMAIN c : c[i].fn = "Dtor" =>
          i = Len(c) /\ c[i].task \in Task /\ run[c[i].task] = 0

ActiveExist == \A t \in Task : OnStack(ctl, t) => t \in all

IInv == TypeOK /\ ListsOK /\ NoTaskLost /\ Stack(ctl, running) /\ ActiveExist

-----------------------------------------------------------------------------
(* Lists *)

\* What taking a node off a list leaves: the other elements, once each.
LEMMA UnlinkFacts ==
    ASSUME NEW S, NEW q \in Seq(S), NEW t, Listed(q, t), IsInjective(q)
    PROVE  /\ Unlink(q, t) \in Seq(S)
           /\ IsInjective(Unlink(q, t))
           /\ \A x : Listed(Unlink(q, t), x) <=> Listed(q, x) /\ x # t
<1> DEFINE p == Position(q, t)
           l == SubSeq(q, 1, p - 1)
           r == SubSeq(q, p + 1, Len(q))
           n == Len(q)
           u == Unlink(q, t)
<1>1. p \in 1..n /\ q[p] = t
  BY LenProperties DEF Position, Listed
<1>n. n \in Nat /\ DOMAIN q = 1..n
  BY LenProperties
<1>2. l \in Seq(S) /\ Len(l) = p - 1 /\ \A i \in 1..(p-1) : l[i] = q[i]
  <2>1. \A i \in 1..(p-1) : q[i] \in S
    BY <1>1, <1>n, ElementOfSeq
  <2>2. p - 1 \in Int /\ 1 \in Int
    BY <1>1, <1>n
  <2> QED BY <1>1, <1>n, <2>1, <2>2, SubSeqProperties
<1>3. r \in Seq(S) /\ Len(r) = n - p /\ \A i \in 1..(n-p) : r[i] = q[p + i]
  <2>1. \A i \in (p+1)..n : q[i] \in S
    BY <1>1, <1>n, ElementOfSeq
  <2>2. p + 1 \in Int /\ n \in Int
    BY <1>1, <1>n
  <2> QED BY <1>1, <1>n, <2>1, <2>2, SubSeqProperties
<1>4. u = l \o r
  BY DEF Unlink, RemoveAt
<1>5. /\ u \in Seq(S) /\ Len(u) = n - 1
      /\ \A i \in 1..(n-1) : u[i] = IF i < p THEN q[i] ELSE q[i+1]
  <2> HIDE DEF p, l, r, u, n
  <2>1. /\ l \o r \in Seq(S) /\ Len(l \o r) = Len(l) + Len(r)
        /\ \A i \in 1..(Len(l) + Len(r)) :
              (l \o r)[i] = IF i <= Len(l) THEN l[i] ELSE r[i - Len(l)]
    BY <1>2, <1>3, ConcatProperties
  <2>2. Len(l) + Len(r) = n - 1 /\ \A i \in 1..(n-1) : i <= Len(l) <=> i < p
    BY <1>1, <1>n, <1>2, <1>3
  <2>3. ASSUME NEW i \in 1..(n-1), ~(i < p) PROVE r[i - (p-1)] = q[i+1]
    <3>1. i - (p-1) \in 1..(n-p) /\ p + (i - (p-1)) = i + 1
      BY <2>3, <1>1, <1>n
    <3> QED BY <3>1, <1>3
  <2>4. \A i \in 1..(n-1) : (l \o r)[i] = IF i < p THEN q[i] ELSE q[i+1]
    <3> SUFFICES ASSUME NEW i \in 1..(n-1)
                 PROVE  (l \o r)[i] = IF i < p THEN q[i] ELSE q[i+1]
      OBVIOUS
    <3>1. CASE i < p
      <4>1. i \in 1..(p-1) /\ i <= Len(l)
        BY <3>1, <2>2, <1>1, <1>n
      <4> QED BY <3>1, <4>1, <2>1, <2>2, <1>2
    <3>2. CASE ~(i < p)
      <4>1. ~(i <= Len(l))
        BY <3>2, <2>2
      <4> QED BY <3>2, <4>1, <2>1, <2>2, <2>3, <1>2
    <3> QED BY <3>1, <3>2
  <2> QED BY <2>1, <2>2, <2>4, <1>4
<1>6. DOMAIN u = 1..(n-1)
  BY <1>5, LenProperties
<1>7. IsInjective(u)
  BY <1>1, <1>n, <1>5, <1>6, SMTT(30) DEF IsInjective
<1>8. ASSUME NEW x PROVE Listed(u, x) <=> Listed(q, x) /\ x # t
  <2>1. ASSUME Listed(u, x) PROVE Listed(q, x) /\ x # t
    <3>1. PICK i \in 1..(n-1) : u[i] = x
      BY <2>1, <1>6 DEF Listed
    <3>2. CASE i < p
      BY <3>1, <3>2, <1>1, <1>n, <1>5 DEF Listed, IsInjective
    <3>3. CASE ~(i < p)
      BY <3>1, <3>3, <1>1, <1>n, <1>5 DEF Listed, IsInjective
    <3> QED BY <3>2, <3>3
  <2>2. ASSUME Listed(q, x), x # t PROVE Listed(u, x)
    <3>1. PICK i \in 1..n : q[i] = x
      BY <2>2, <1>n DEF Listed
    <3>2. CASE i < p
      <4>1. i \in 1..(n-1) /\ u[i] = x
        BY <3>1, <3>2, <1>1, <1>n, <1>5
      <4> QED BY <4>1, <1>6 DEF Listed
    <3>3. CASE i > p
      <4>1. i - 1 \in 1..(n-1) /\ u[i - 1] = x
        BY <3>1, <3>3, <1>1, <1>n, <1>5
      <4> QED BY <4>1, <1>6 DEF Listed
    <3> QED BY <3>1, <3>2, <3>3, <2>2, <1>1, <1>n
  <2> QED BY <2>1, <2>2
<1> QED BY <1>5, <1>7, <1>8

\* Adding at the head and at the tail.
LEMMA LinkFacts ==
    ASSUME NEW S, NEW q \in Seq(S), NEW t \in S, ~Listed(q, t), IsInjective(q)
    PROVE  /\ <<t>> \o q \in Seq(S) /\ Append(q, t) \in Seq(S)
           /\ IsInjective(<<t>> \o q) /\ IsInjective(Append(q, t))
           /\ \A x : Listed(<<t>> \o q, x) <=> Listed(q, x) \/ x = t
           /\ \A x : Listed(Append(q, t), x) <=> Listed(q, x) \/ x = t
<1> DEFINE n == Len(q)
           c == <<t>> \o q
           a == Append(q, t)
<1>n. n \in Nat /\ DOMAIN q = 1..n
  BY LenProperties
<1>1. c \in Seq(S) /\ Len(c) = n + 1 /\ c[1] = t /\ \A i \in 1..n : c[i+1] = q[i]
  BY <1>n, ConcatProperties
<1>2. a \in Seq(S) /\ Len(a) = n + 1 /\ a[n+1] = t /\ \A i \in 1..n : a[i] = q[i]
  BY <1>n, AppendProperties
<1>3. DOMAIN c = 1..(n+1) /\ DOMAIN a = 1..(n+1)
  BY <1>1, <1>2, LenProperties
<1>4. \A i \in 1..n : q[i] # t
  BY <1>n DEF Listed
<1>5. IsInjective(c)
  <2> SUFFICES ASSUME NEW i \in 1..(n+1), NEW j \in 1..(n+1), c[i] = c[j] PROVE i = j
    BY <1>3 DEF IsInjective
  <2>1. ASSUME NEW k \in 1..(n+1), k # 1 PROVE k - 1 \in 1..n /\ c[k] = q[k-1]
    <3>1. k - 1 \in 1..n /\ (k - 1) + 1 = k
      BY <2>1, <1>n
    <3> QED BY <3>1, <1>1
  <2> HIDE DEF c, n
  <2>2. CASE i = 1
    BY <2>1, <2>2, <1>1, <1>4
  <2>3. CASE j = 1
    BY <2>1, <2>3, <1>1, <1>4
  <2>4. CASE i # 1 /\ j # 1
    <3>1. i - 1 \in 1..n /\ j - 1 \in 1..n /\ q[i-1] = q[j-1]
      BY <2>1, <2>4
    <3>2. i - 1 = j - 1
      BY <3>1, <1>n DEF IsInjective
    <3> QED BY <3>2, <1>n
  <2> QED BY <2>2, <2>3, <2>4
<1>6. IsInjective(a)
  BY <1>n, <1>2, <1>3, <1>4 DEF IsInjective
<1>7. ASSUME NEW x PROVE Listed(c, x) <=> Listed(q, x) \/ x = t
  <2>1. ASSUME Listed(c, x) PROVE Listed(q, x) \/ x = t
    <3>1. PICK i \in 1..(n+1) : c[i] = x
      BY <2>1, <1>3 DEF Listed
    <3>2. CASE i = 1
      BY <3>1, <3>2, <1>1
    <3>3. CASE i # 1
      <4>1. i - 1 \in 1..n /\ q[i-1] = x
        BY <3>1, <3>3, <1>n, <1>1
      <4> QED BY <4>1, <1>n DEF Listed
    <3> QED BY <3>2, <3>3
  <2>2. ASSUME Listed(q, x) PROVE Listed(c, x)
    <3>1. PICK i \in 1..n : q[i] = x
      BY <2>2, <1>n DEF Listed
    <3>2. i + 1 \in 1..(n+1) /\ c[i+1] = x
      BY <3>1, <1>n, <1>1
    <3> QED BY <3>2, <1>3 DEF Listed
  <2>3. ASSUME x = t PROVE Listed(c, x)
    BY <2>3, <1>n, <1>1, <1>3 DEF Listed
  <2> QED BY <2>1, <2>2, <2>3
<1>8. ASSUME NEW x PROVE Listed(a, x) <=> Listed(q, x) \/ x = t
  <2>1. n + 1 \in 1..(n+1) /\ 1..n \subseteq 1..(n+1)
    BY <1>n
  <2>2. \A i \in 1..(n+1) : i \in 1..n \/ i = n + 1
    BY <1>n
  <2> QED BY <2>1, <2>2, <1>n, <1>2, <1>3 DEF Listed
<1> QED BY <1>1, <1>2, <1>5, <1>6, <1>7, <1>8

-----------------------------------------------------------------------------
(* The call stack *)

LEMMA ReplaceTop ==
    ASSUME NEW c, NEW run, Stack(c, run), NEW f \in Frame,
           f.fn = c[Len(c)].fn, f.task = c[Len(c)].task
    PROVE  LET d == [c EXCEPT ![Len(c)] = f]
           IN  /\ Stack(d, run) /\ Len(d) = Len(c) /\ d[Len(d)] = f
               /\ \A t : OnStack(d, t) <=> OnStack(c, t)
<1> DEFINE n == Len(c)
           d == [c EXCEPT ![n] = f]
<1>1. c \in Seq(Frame) /\ c # <<>> /\ n \in Nat /\ n >= 1 /\ DOMAIN c = 1..n
  BY EmptySeq, LenProperties DEF Stack
<1>2. d \in Seq(Frame) /\ Len(d) = n /\ \A i \in 1..n : d[i] = IF i = n THEN f ELSE c[i]
  BY <1>1, ExceptSeq
<1>3. DOMAIN d = 1..n /\ d # <<>>
  BY <1>1, <1>2, LenProperties, EmptySeq
<1> HIDE DEF d, n
<1>4. \A i \in 1..n : d[i].fn = c[i].fn /\ d[i].task = c[i].task
  BY <1>1, <1>2 DEF n
<1>5. \A t : OnStack(d, t) <=> OnStack(c, t)
  BY <1>1, <1>3, <1>4 DEF OnStack, IsActivation
<1>6. Stack(d, run)
  <2>1. d[1].fn = "Do"
    BY <1>1, <1>4 DEF Stack
  <2>2. \A i, j \in 1..n :
           IsActivation(d[i]) /\ IsActivation(d[j]) /\ d[i].task = d[j].task => i = j
    BY <1>1, <1>4 DEF Stack, IsActivation
  <2>3. \A i \in 1..n : IsActivation(d[i]) => d[i].task \in Task
    BY <1>1, <1>4 DEF Stack, IsActivation
  <2>4. \A i \in 1..n : d[i].fn = "Dtor" =>
           i = n /\ d[i].task \in Task /\ run[d[i].task] = 0
    <3>1. \A i \in 1..n : c[i].fn = "Dtor" => i = n /\ c[i].task \in Task /\ run[c[i].task] = 0
      BY <1>1 DEF Stack, n
    <3> QED BY <3>1, <1>4, Zenon
  <2>5. run \in [Task -> Nat] /\ \A t \in Task : run[t] = IF OnStack(d, t) THEN 1 ELSE 0
    BY <1>5 DEF Stack
  <2> QED BY <1>2, <1>3, <2>1, <2>2, <2>3, <2>4, <2>5 DEF Stack
<1>7. d[Len(d)] = f
  BY <1>1, <1>2
<1> QED BY <1>2, <1>5, <1>6, <1>7 DEF d, n

\* A called function that is not the code of a task: the three list walks.
LEMMA PushWalk ==
    ASSUME NEW c, NEW run, Stack(c, run), NEW f \in Frame,
           c[Len(c)].fn # "Dtor", ~IsActivation(f), f.fn # "Dtor"
    PROVE  /\ Stack(Append(c, f), run)
           /\ \A t : OnStack(Append(c, f), t) <=> OnStack(c, t)
           /\ Append(c, f)[Len(Append(c, f))] = f
<1> DEFINE n == Len(c)
           d == Append(c, f)
<1>1. c \in Seq(Frame) /\ c # <<>> /\ n \in Nat /\ n >= 1 /\ DOMAIN c = 1..n
  BY EmptySeq, LenProperties DEF Stack
<1>2. d \in Seq(Frame) /\ Len(d) = n + 1 /\ d[n+1] = f /\ \A i \in 1..n : d[i] = c[i]
  BY <1>1, AppendProperties
<1>3. DOMAIN d = 1..(n+1) /\ d # <<>>
  BY <1>1, <1>2, LenProperties, EmptySeq
<1> HIDE DEF d, n
<1>4. \A i \in 1..(n+1) : i \in 1..n \/ i = n + 1
  BY <1>1
<1>5. \A t : OnStack(d, t) <=> OnStack(c, t)
  <2> TAKE t
  <2>1. ASSUME OnStack(d, t) PROVE OnStack(c, t)
    BY <2>1, <1>1, <1>2, <1>3, <1>4 DEF OnStack
  <2>2. ASSUME OnStack(c, t) PROVE OnStack(d, t)
    <3>1. PICK i \in 1..n : IsActivation(c[i]) /\ c[i].task = t
      BY <2>2, <1>1 DEF OnStack
    <3>2. i \in 1..(n+1) /\ d[i] = c[i]
      BY <1>1, <1>2
    <3> QED BY <3>1, <3>2, <1>3 DEF OnStack
  <2> QED BY <2>1, <2>2
<1>6. \A i \in 1..n : c[i].fn # "Dtor"
  BY <1>1 DEF Stack, n
<1>7. \A i, j \in DOMAIN d :
         IsActivation(d[i]) /\ IsActivation(d[j]) /\ d[i].task = d[j].task => i = j
  BY <1>1, <1>2, <1>3, <1>4 DEF Stack
<1>8. Stack(d, run)
  BY <1>1, <1>2, <1>3, <1>4, <1>5, <1>6, <1>7 DEF Stack
<1> QED BY <1>2, <1>5, <1>8 DEF d, n

\* Enter: the code of a task that has no activation.
LEMMA PushBody ==
    ASSUME NEW c, NEW run, Stack(c, run), NEW f \in Frame,
           c[Len(c)].fn # "Dtor", IsActivation(f), f.task \in Task, run[f.task] = 0
    PROVE  /\ Stack(Append(c, f), [run EXCEPT ![f.task] = @ + 1])
           /\ \A t : OnStack(Append(c, f), t) <=> OnStack(c, t) \/ t = f.task
<1> DEFINE n == Len(c)
           d == Append(c, f)
           r == [run EXCEPT ![f.task] = @ + 1]
<1>1. c \in Seq(Frame) /\ c # <<>> /\ n \in Nat /\ n >= 1 /\ DOMAIN c = 1..n
  BY EmptySeq, LenProperties DEF Stack
<1>2. d \in Seq(Frame) /\ Len(d) = n + 1 /\ d[n+1] = f /\ \A i \in 1..n : d[i] = c[i]
  BY <1>1, AppendProperties
<1>3. DOMAIN d = 1..(n+1) /\ d # <<>>
  BY <1>1, <1>2, LenProperties, EmptySeq
<1>r. /\ r \in [Task -> Nat] /\ r[f.task] = 1
      /\ \A t \in Task : t # f.task => r[t] = run[t]
  BY DEF Stack
<1>0. ~OnStack(c, f.task)
  BY DEF Stack
<1> HIDE DEF d, n, r
<1>4. \A i \in 1..(n+1) : i \in 1..n \/ i = n + 1
  BY <1>1
<1>5. \A t : OnStack(d, t) <=> OnStack(c, t) \/ t = f.task
  <2> TAKE t
  <2>1. ASSUME OnStack(d, t) PROVE OnStack(c, t) \/ t = f.task
    BY <2>1, <1>1, <1>2, <1>3, <1>4 DEF OnStack
  <2>2. ASSUME OnStack(c, t) PROVE OnStack(d, t)
    <3>1. PICK i \in 1..n : IsActivation(c[i]) /\ c[i].task = t
      BY <2>2, <1>1 DEF OnStack
    <3>2. i \in 1..(n+1) /\ d[i] = c[i]
      BY <1>1, <1>2
    <3> QED BY <3>1, <3>2, <1>3 DEF OnStack
  <2>3. ASSUME t = f.task PROVE OnStack(d, t)
    <3>1. n + 1 \in 1..(n+1)
      BY <1>1
    <3> QED BY <3>1, <2>3, <1>2, <1>3 DEF OnStack
  <2> QED BY <2>1, <2>2, <2>3
<1>6. \A i \in 1..n : c[i].fn # "Dtor"
  BY <1>1 DEF Stack, n
<1>7. \A i, j \in DOMAIN d :
         IsActivation(d[i]) /\ IsActivation(d[j]) /\ d[i].task = d[j].task => i = j
  <2>1. \A i \in 1..n : IsActivation(c[i]) => c[i].task # f.task
    BY <1>0, <1>1 DEF OnStack
  <2> QED BY <2>1, <1>1, <1>2, <1>3, <1>4 DEF Stack
<1>8. f.fn # "Dtor"
  BY DEF IsActivation
<1>9. \A t \in Task : r[t] = IF OnStack(d, t) THEN 1 ELSE 0
  BY <1>5, <1>r, <1>0 DEF Stack
<1>10. Stack(d, r)
  <2>1. d[1].fn = "Do"
    BY <1>1, <1>2 DEF Stack
  <2>2. \A i \in DOMAIN d : IsActivation(d[i]) => d[i].task \in Task
    BY <1>1, <1>2, <1>3, <1>4 DEF Stack
  <2>3. \A i \in DOMAIN d : d[i].fn # "Dtor"
    BY <1>1, <1>2, <1>3, <1>4, <1>6, <1>8
  <2> QED BY <1>2, <1>3, <1>r, <1>7, <1>9, <2>1, <2>2, <2>3 DEF Stack
<1> QED BY <1>5, <1>10 DEF d, r

\* CollectGarbage calls the destructor of a task that has no activation.
LEMMA PushDtor ==
    ASSUME NEW c, NEW run, Stack(c, run), NEW f \in Frame,
           c[Len(c)].fn # "Dtor", f.fn = "Dtor", f.task \in Task, run[f.task] = 0
    PROVE  /\ Stack(Append(c, f), run)
           /\ \A t : OnStack(Append(c, f), t) <=> OnStack(c, t)
<1> DEFINE n == Len(c)
           d == Append(c, f)
<1>1. c \in Seq(Frame) /\ c # <<>> /\ n \in Nat /\ n >= 1 /\ DOMAIN c = 1..n
  BY EmptySeq, LenProperties DEF Stack
<1>2. d \in Seq(Frame) /\ Len(d) = n + 1 /\ d[n+1] = f /\ \A i \in 1..n : d[i] = c[i]
  BY <1>1, AppendProperties
<1>3. DOMAIN d = 1..(n+1) /\ d # <<>>
  BY <1>1, <1>2, LenProperties, EmptySeq
<1> HIDE DEF d, n
<1>4. \A i \in 1..(n+1) : i \in 1..n \/ i = n + 1
  BY <1>1
<1>8. ~IsActivation(f)
  BY DEF IsActivation
<1>5. \A t : OnStack(d, t) <=> OnStack(c, t)
  <2> TAKE t
  <2>1. ASSUME OnStack(d, t) PROVE OnStack(c, t)
    BY <2>1, <1>1, <1>2, <1>3, <1>4, <1>8 DEF OnStack
  <2>2. ASSUME OnStack(c, t) PROVE OnStack(d, t)
    <3>1. PICK i \in 1..n : IsActivation(c[i]) /\ c[i].task = t
      BY <2>2, <1>1 DEF OnStack
    <3>2. i \in 1..(n+1) /\ d[i] = c[i]
      BY <1>1, <1>2
    <3> QED BY <3>1, <3>2, <1>3 DEF OnStack
  <2> QED BY <2>1, <2>2
<1>6. \A i \in 1..n : c[i].fn # "Dtor"
  BY <1>1 DEF Stack, n
<1>7. \A i, j \in DOMAIN d :
         IsActivation(d[i]) /\ IsActivation(d[j]) /\ d[i].task = d[j].task => i = j
  BY <1>1, <1>2, <1>3, <1>4, <1>8 DEF Stack
<1>9. Stack(d, run)
  BY <1>1, <1>2, <1>3, <1>4, <1>5, <1>6, <1>7, <1>8 DEF Stack
<1> QED BY <1>5, <1>9 DEF d

\* The frame below a call is there again when it returns.
LEMMA PopFrame ==
    ASSUME NEW c, NEW run, Stack(c, run), Len(c) > 1
    PROVE  LET d == SubSeq(c, 1, Len(c) - 1)
           IN  /\ d \in Seq(Frame) /\ d # <<>> /\ Len(d) = Len(c) - 1
               /\ DOMAIN d = 1..(Len(c) - 1) /\ DOMAIN c = 1..Len(c) /\ Len(c) \in Nat
               /\ \A i \in 1..(Len(c) - 1) : d[i] = c[i]
<1> DEFINE n == Len(c)
           d == SubSeq(c, 1, n - 1)
<1>1. c \in Seq(Frame) /\ n \in Nat /\ n > 1 /\ DOMAIN c = 1..n
  BY LenProperties DEF Stack
<1>2. \A i \in 1..(n-1) : c[i] \in Frame
  BY <1>1, ElementOfSeq
<1>3. n - 1 \in Int /\ 1 \in Int
  BY <1>1
<1>4. d \in Seq(Frame) /\ Len(d) = n - 1 /\ \A i \in 1..(n-1) : d[i] = c[i]
  BY <1>1, <1>2, <1>3, SubSeqProperties
<1> HIDE DEF d
<1>5. DOMAIN d = 1..(n-1) /\ d # <<>>
  BY <1>1, <1>4, LenProperties, EmptySeq
<1> QED BY <1>1, <1>4, <1>5 DEF d

\* A list walk or a destructor returns.
LEMMA PopWalk ==
    ASSUME NEW c, NEW run, Stack(c, run), ~IsActivation(c[Len(c)])
    PROVE  LET d == SubSeq(c, 1, Len(c) - 1)
           IN  /\ Stack(d, run) /\ d[Len(d)].fn # "Dtor"
               /\ \A t : OnStack(d, t) <=> OnStack(c, t)
<1> DEFINE n == Len(c)
           d == SubSeq(c, 1, n - 1)
<1>1. n > 1
  <2>1. c \in Seq(Frame) /\ c # <<>> /\ n \in Nat /\ n >= 1 /\ DOMAIN c = 1..n
    BY EmptySeq, LenProperties DEF Stack
  <2>2. n # 1
    BY <2>1 DEF Stack, IsActivation
  <2> QED BY <2>1, <2>2
<1>2. /\ d \in Seq(Frame) /\ d # <<>> /\ Len(d) = n - 1
      /\ DOMAIN d = 1..(n-1) /\ DOMAIN c = 1..n /\ n \in Nat
      /\ \A i \in 1..(n-1) : d[i] = c[i]
  BY <1>1, PopFrame
<1> HIDE DEF d
<1>3. \A i \in 1..n : i \in 1..(n-1) \/ i = n
  BY <1>2
<1>4. \A t : OnStack(d, t) <=> OnStack(c, t)
  BY <1>1, <1>2, <1>3 DEF OnStack
<1>5. \A i \in 1..(n-1) : d[i].fn # "Dtor"
  <2>1. \A i \in 1..(n-1) : i \in 1..n /\ i # n /\ d[i] = c[i]
    BY <1>2
  <2>2. \A i \in 1..n : c[i].fn = "Dtor" => i = n
    BY <1>2 DEF Stack
  <2> QED BY <2>1, <2>2
<1>6. \A i, j \in 1..(n-1) :
         IsActivation(d[i]) /\ IsActivation(d[j]) /\ d[i].task = d[j].task => i = j
  <2>1. \A i \in 1..(n-1) : i \in 1..n /\ d[i] = c[i]
    BY <1>2
  <2>2. \A i, j \in 1..n :
           IsActivation(c[i]) /\ IsActivation(c[j]) /\ c[i].task = c[j].task => i = j
    BY <1>2 DEF Stack
  <2> QED BY <2>1, <2>2
<1>7. d[1].fn = "Do" /\ \A i \in 1..(n-1) : IsActivation(d[i]) => d[i].task \in Task
  <2>1. c[1].fn = "Do" /\ \A i \in DOMAIN c : IsActivation(c[i]) => c[i].task \in Task
    BY Zenon DEF Stack
  <2>2. 1 \in 1..(n-1) /\ \A i \in 1..(n-1) : i \in DOMAIN c /\ d[i] = c[i]
    BY <1>2
  <2> QED BY <2>1, <2>2, Zenon
<1>8. run \in [Task -> Nat] /\ \A t \in Task : run[t] = IF OnStack(d, t) THEN 1 ELSE 0
  BY <1>4 DEF Stack
<1>9. Stack(d, run)
  BY <1>2, <1>5, <1>6, <1>7, <1>8 DEF Stack
<1> QED BY <1>1, <1>2, <1>4, <1>5, <1>9 DEF d

\* Do returns and Leave decrements the counter of its task.
LEMMA PopBody ==
    ASSUME NEW c, NEW run, Stack(c, run), IsActivation(c[Len(c)]), Len(c) > 1
    PROVE  LET d == SubSeq(c, 1, Len(c) - 1)
               s == c[Len(c)].task
           IN  /\ Stack(d, [run EXCEPT ![s] = @ - 1]) /\ d[Len(d)].fn # "Dtor"
               /\ s \in Task /\ run[s] = 1
               /\ \A t : OnStack(d, t) <=> OnStack(c, t) /\ t # s
<1> DEFINE n == Len(c)
           d == SubSeq(c, 1, n - 1)
           s == c[n].task
           r == [run EXCEPT ![s] = @ - 1]
<1>2. /\ d \in Seq(Frame) /\ d # <<>> /\ Len(d) = n - 1
      /\ DOMAIN d = 1..(n-1) /\ DOMAIN c = 1..n /\ n \in Nat
      /\ \A i \in 1..(n-1) : d[i] = c[i]
  BY PopFrame
<1> HIDE DEF d
<1>3. \A i \in 1..n : i \in 1..(n-1) \/ i = n
  BY <1>2
<1>4. s \in Task /\ OnStack(c, s) /\ run[s] = 1
  BY <1>2 DEF Stack, OnStack
<1>5. \A i \in 1..(n-1) : IsActivation(c[i]) => c[i].task # s
  BY <1>2 DEF Stack
<1>6. \A t : OnStack(d, t) <=> OnStack(c, t) /\ t # s
  BY <1>2, <1>3, <1>5 DEF OnStack
<1>r. r \in [Task -> Nat] /\ r[s] = 0 /\ \A t \in Task : t # s => r[t] = run[t]
  BY <1>4 DEF Stack
<1> HIDE DEF r
<1>7. /\ \A i \in 1..(n-1) : d[i].fn # "Dtor"
      /\ d[Len(d)].fn # "Dtor"
  <2>1. \A i \in 1..(n-1) : i \in 1..n /\ i # n /\ d[i] = c[i]
    BY <1>2
  <2>2. \A i \in 1..n : c[i].fn = "Dtor" => i = n
    BY <1>2 DEF Stack
  <2>3. Len(d) \in 1..(n-1)
    BY <1>2
  <2> QED BY <2>1, <2>2, <2>3
<1>8. \A i, j \in 1..(n-1) :
         IsActivation(d[i]) /\ IsActivation(d[j]) /\ d[i].task = d[j].task => i = j
  <2>1. \A i \in 1..(n-1) : i \in 1..n /\ d[i] = c[i]
    BY <1>2
  <2>2. \A i, j \in 1..n :
           IsActivation(c[i]) /\ IsActivation(c[j]) /\ c[i].task = c[j].task => i = j
    BY <1>2 DEF Stack
  <2> QED BY <2>1, <2>2
<1>9. d[1].fn = "Do" /\ \A i \in 1..(n-1) : IsActivation(d[i]) => d[i].task \in Task
  <2>1. c[1].fn = "Do" /\ \A i \in DOMAIN c : IsActivation(c[i]) => c[i].task \in Task
    BY Zenon DEF Stack
  <2>2. 1 \in 1..(n-1) /\ \A i \in 1..(n-1) : i \in DOMAIN c /\ d[i] = c[i]
    BY <1>2
  <2> QED BY <2>1, <2>2, Zenon
<1>10. \A t \in Task : r[t] = IF OnStack(d, t) THEN 1 ELSE 0
  BY <1>4, <1>6, <1>r DEF Stack
<1>11. Stack(d, r)
  BY <1>2, <1>7, <1>8, <1>9, <1>10, <1>r DEF Stack
<1> QED BY <1>4, <1>6, <1>7, <1>11 DEF d, r

\* The frame a value is returned to keeps its function and its task.
LEMMA ReturnToFacts ==
    ASSUME NEW c, NEW run, Stack(c, run), NEW m
    PROVE  /\ Stack(ReturnTo(c, m), run)
           /\ \A t : OnStack(ReturnTo(c, m), t) <=> OnStack(c, t)
<1> DEFINE g == c[Len(c)]
           f == [g EXCEPT !.res = TRUE]
<1>1. c \in Seq(Frame) /\ Len(c) \in 1..Len(c)
  BY EmptySeq, LenProperties DEF Stack
<1>2. g \in Frame
  BY <1>1, ElementOfSeq
<1>3. f \in Frame /\ f.fn = g.fn /\ f.task = g.task
  BY <1>2 DEF Frame
<1>4. /\ Stack([c EXCEPT ![Len(c)] = f], run)
      /\ \A t : OnStack([c EXCEPT ![Len(c)] = f], t) <=> OnStack(c, t)
  <2> HIDE DEF f
  <2> QED BY <1>3, ReplaceTop
<1>5. ReturnTo(c, m) = [c EXCEPT ![Len(c)] = f] \/ ReturnTo(c, m) = c
  BY DEF ReturnTo
<1> HIDE DEF f
<1> QED BY <1>4, <1>5

\* A new round of the main program: its frame may work again.
LEMMA RestoreFacts ==
    ASSUME NEW c, NEW run, Stack(c, run)
    PROVE  LET d == IF Len(c) = 1 THEN <<[c[1] EXCEPT !.left = MaxWork]>> ELSE c
           IN  Stack(d, run) /\ \A t : OnStack(d, t) <=> OnStack(c, t)
<1> DEFINE f == [c[1] EXCEPT !.left = MaxWork]
<1>1. CASE Len(c) = 1
  <2>1. c \in Seq(Frame) /\ DOMAIN c = 1..1
    BY <1>1, LenProperties DEF Stack
  <2>2. c[1] \in Frame
    BY <1>1, <2>1, ElementOfSeq
  <2>3. f \in Frame /\ f.fn = c[1].fn /\ f.task = c[1].task
    BY <2>2, TaskAssumption DEF Frame
  <2>4. <<f>> = [c EXCEPT ![1] = f]
    <3>1. /\ [c EXCEPT ![1] = f] \in Seq(Frame) /\ Len([c EXCEPT ![1] = f]) = 1
          /\ [c EXCEPT ![1] = f][1] = f
      BY <1>1, <2>1, <2>3, ExceptSeq
    <3> QED BY <3>1, <2>3, SeqEqual
  <2> HIDE DEF f
  <2>5. /\ Stack([c EXCEPT ![Len(c)] = f], run)
        /\ \A t : OnStack([c EXCEPT ![Len(c)] = f], t) <=> OnStack(c, t)
    BY <1>1, <2>3, ReplaceTop
  <2>6. Stack(<<f>>, run) /\ \A t : OnStack(<<f>>, t) <=> OnStack(c, t)
    BY <1>1, <2>4, <2>5
  <2> QED BY <1>1, <2>6 DEF f
<1>2. CASE Len(c) # 1
  BY <1>2
<1> QED BY <1>1, <1>2

-----------------------------------------------------------------------------
(* Facts about the actions of SMTask *)

LEMMA TopFacts ==
    ASSUME IInv
    PROVE  /\ Top \in Frame /\ Top = ctl[Len(ctl)]
           /\ \A f \in Frame : f.fn = Top.fn /\ f.task = Top.task =>
                 /\ Stack(SetTop(f), running)
                 /\ SetTop(f)[Len(SetTop(f))] = f
                 /\ \A t : OnStack(SetTop(f), t) <=> OnStack(ctl, t)
<1>1. ctl \in Seq(Frame) /\ ctl # <<>> /\ Len(ctl) \in 1..Len(ctl) /\ Stack(ctl, running)
  BY EmptySeq, LenProperties DEF IInv, TypeOK
<1>2. Top \in Frame
  BY <1>1, ElementOfSeq DEF Top
<1> QED BY <1>1, <1>2, ReplaceTop DEF Top, SetTop

\* An operation of a body uses up one of the operations left to it.
LEMMA WorkedFacts ==
    ASSUME Top \in Frame, Top.left > 0
    PROVE  Worked \in Frame /\ Worked.fn = Top.fn /\ Worked.task = Top.task
<1>1. Top.left - 1 \in 0..MaxWork
  BY TaskAssumption DEF Frame
<1>2. Worked = [Top EXCEPT !.left = Top.left - 1]
  BY DEF Worked
<1> QED BY <1>1, <1>2 DEF Frame

LEMMA KeepLists ==
    ASSUME IInv, UNCHANGED <<all, ready, new, flags>>
    PROVE  ListsOK' /\ NoTaskLost'
BY DEF IInv, flags, ListsOK, NoTaskLost, IsSuspended, Listed, IsInjective

LEMMA KeepActive ==
    ASSUME IInv, all' = all, \A t : OnStack(ctl', t) <=> OnStack(ctl, t)
    PROVE  ActiveExist'
BY DEF IInv, ActiveExist

\* Position and next() of a listed node; what Unlink leaves has its type.
LEMMA ListTypes ==
    ASSUME NEW q \in Seq(Task)
    PROVE  /\ First(q) \in Task \cup {End}
           /\ \A t : Listed(q, t) => /\ t \in Task
                                    /\ NextOf(q, t) \in Task \cup {End}
                                    /\ Unlink(q, t) \in Seq(Task)
<1>n. Len(q) \in Nat /\ DOMAIN q = 1..Len(q) /\ \A i \in 1..Len(q) : q[i] \in Task
  BY LenProperties, ElementOfSeq
<1>1. First(q) \in Task \cup {End}
  BY <1>n, EmptySeq DEF First
<1>2. ASSUME NEW t, Listed(q, t)
      PROVE  t \in Task /\ NextOf(q, t) \in Task \cup {End} /\ Unlink(q, t) \in Seq(Task)
  <2> DEFINE p == Position(q, t)
  <2>1. p \in 1..Len(q) /\ q[p] = t
    BY <1>2, <1>n DEF Position, Listed
  <2>2. NextOf(q, t) \in Task \cup {End}
    BY <2>1, <1>n DEF NextOf
  <2>3. SubSeq(q, 1, p - 1) \in Seq(Task)
    BY <2>1, <1>n, SubSeqProperties
  <2>4. SubSeq(q, p + 1, Len(q)) \in Seq(Task)
    BY <2>1, <1>n, SubSeqProperties
  <2>5. Unlink(q, t) \in Seq(Task)
    BY <2>3, <2>4, ConcatProperties DEF Unlink, RemoveAt
  <2> QED BY <2>1, <2>2, <2>5, <1>n
<1> QED BY <1>1, <1>2

LEMMA PinTypes ==
    ASSUME IInv, NEW t \in Task \cup {End}
    PROVE  Pin(t) \in [Task -> Nat] /\ Unpin(t) \in [Task -> Nat]
BY DEF IInv, TypeOK, Pin, Unpin

\* Whichever way ScheduleThis leaves, the task it was given is on ready_tasks
\* or may not run, and it is entered only when it has no activation.
LEMMA ScheduleThisInv ==
    ASSUME IInv, NEW t \in Task, NEW f \in Frame, NEW q \in Seq(Task), NEW rc,
           Top.fn \in {"Schedule", "ScheduleNew"}, f.fn = Top.fn, f.task = Top.task,
           ScheduleThis(t, f, q, rc), UNCHANGED <<all, flags>>,
           Listed(q, t), IsInjective(q), IsInjective(new'),
           \A x : ~(Listed(q, x) /\ Listed(new', x)),
           \A x : Listed(q, x) \/ Listed(new', x) <=> Listed(ready, x) \/ Listed(new, x)
    PROVE  ready' \in Seq(Task) /\ ListsOK' /\ NoTaskLost' /\ Stack(ctl', running') /\ ActiveExist'
<1>1. Stack(SetTop(f), running) /\ \A x : OnStack(SetTop(f), x) <=> OnStack(ctl, x)
  BY TopFacts
<1>2. \A x \in Task : Listed(q, x) \/ Listed(new', x) => x \in all
  BY DEF IInv, ListsOK
<1>3. CASE running[t] > 0 \/ ~(deleting[t] \/ IsSuspended(t))
  <2>1. ready' = q
    BY <1>3 DEF ScheduleThis
  <2>2. ListsOK' /\ NoTaskLost'
    <3>1. \A x : Listed(ready, x)' <=> Listed(q, x)
      BY <2>1 DEF Listed
    <3>2. \A x : Listed(new, x)' <=> Listed(new', x)
      BY DEF Listed
    <3>3. ListsOK'
      BY <2>1, <3>1, <3>2, <1>2 DEF ListsOK
    <3>4. NoTaskLost'
      BY <3>1, <3>2 DEF NoTaskLost, IInv, flags, IsSuspended
    <3> QED BY <3>3, <3>4
  <2>3. CASE running[t] > 0
    <3>1. ctl' = SetTop(f) /\ running' = running
      BY <2>3 DEF ScheduleThis
    <3>2. ActiveExist'
      BY <1>1, <3>1, KeepActive
    <3> QED BY <1>1, <2>1, <2>2, <3>1, <3>2
  <2>4. CASE ~(running[t] > 0)
    <3> DEFINE b == Body("Do", t)
    <3>1. ctl' = Append(SetTop(f), b) /\ running' = [running EXCEPT ![t] = @ + 1]
      BY <1>3, <2>4 DEF ScheduleThis, EnterBody
    <3>2. b \in Frame /\ b.task = t /\ IsActivation(b)
      BY TaskAssumption DEF Body, Frame, IsActivation
    <3>3. running[t] = 0
      BY <2>4 DEF IInv, TypeOK
    <3>4. SetTop(f)[Len(SetTop(f))].fn # "Dtor"
      BY TopFacts
    <3>5. /\ Stack(Append(SetTop(f), b), [running EXCEPT ![t] = @ + 1])
          /\ \A x : OnStack(Append(SetTop(f), b), x) <=> OnStack(SetTop(f), x) \/ x = t
      BY <1>1, <3>2, <3>3, <3>4, PushBody
    <3>6. ActiveExist'
      BY <1>1, <1>2, <3>1, <3>5 DEF IInv, ActiveExist
    <3> QED BY <2>1, <2>2, <3>1, <3>5, <3>6
  <2> QED BY <2>3, <2>4
<1>4. CASE ~(running[t] > 0) /\ (deleting[t] \/ IsSuspended(t))
  <2>1. ready' = Unlink(q, t) /\ ctl' = SetTop(f) /\ running' = running
    BY <1>4 DEF ScheduleThis
  <2>2. /\ ready' \in Seq(Task) /\ IsInjective(ready')
        /\ \A x : Listed(ready', x) <=> Listed(q, x) /\ x # t
    BY <2>1, UnlinkFacts
  <2>3. ListsOK'
    BY <2>2, <1>2 DEF ListsOK, Listed
  <2>4. NoTaskLost'
    <3>1. \A x : Listed(ready, x)' <=> Listed(q, x) /\ x # t
      BY <2>2 DEF Listed
    <3>2. \A x : Listed(new, x)' <=> Listed(new', x)
      BY DEF Listed
    <3> QED BY <3>1, <3>2, <1>4 DEF NoTaskLost, IInv, flags, IsSuspended
  <2>5. ActiveExist'
    BY <1>1, <2>1, KeepActive
  <2> QED BY <1>1, <2>1, <2>2, <2>3, <2>4, <2>5
<1> QED BY <1>3, <1>4

\* A walk that only steps on, calls another walk, or returns.
LEMMA WalkSteps ==
    ASSUME IInv, \/ CallSchedule \/ ScheduleStart \/ ScheduleRan \/ Advance
                 \/ ScheduleCollect \/ ScheduleReturn \/ Wakeup
                 \/ ScheduleNewReturn \/ CollectReturn
    PROVE  IInv'
<1> USE TaskAssumption
<1>1. /\ TypeOK /\ Stack(ctl, running) /\ Top \in Frame /\ Top = ctl[Len(ctl)]
      /\ First(ready) \in Task \cup {End} /\ First(new) \in Task \cup {End}
      /\ First(deleted) \in Task \cup {End}
  BY TopFacts, ListTypes DEF IInv, TypeOK
<1>2. /\ UNCHANGED <<all, lists, flags, holds, running>>
      /\ ref_count' \in [Task -> Nat] /\ idle' \in BOOLEAN
  <2>1. CASE Advance
    <3>1. Top.next \in Task \cup {End}
      BY <1>1 DEF Frame
    <3> QED BY <2>1, <3>1, <1>1, PinTypes DEF Advance, TypeOK
  <2>2. CASE ScheduleReturn
    <3>1. Top.res \in BOOLEAN
      BY <1>1 DEF Frame
    <3>2. idle' \in BOOLEAN
      BY <2>2, <3>1 DEF ScheduleReturn
    <3> QED BY <2>2, <3>2, <1>1 DEF ScheduleReturn, counts, TypeOK
  <2>3. CASE Wakeup
    BY <2>3, <1>1 DEF Wakeup, counts, TypeOK
  <2>4. CASE \/ CallSchedule \/ ScheduleStart \/ ScheduleRan
             \/ ScheduleCollect \/ ScheduleNewReturn \/ CollectReturn
    BY <2>4, <1>1 DEF CallSchedule, ScheduleStart, ScheduleRan, ScheduleCollect,
       ScheduleNewReturn, CollectReturn, counts, TypeOK
  <2> QED BY <2>1, <2>2, <2>3, <2>4
<1>3. ASSUME NEW f \in Frame, f.fn = Top.fn, f.task = Top.task, f.fn # "Dtor",
             NEW w \in Frame, w.fn \in {"Schedule", "ScheduleNew", "Collect"}
      PROVE  /\ Stack(Append(SetTop(f), w), running)
             /\ \A t : OnStack(Append(SetTop(f), w), t) <=> OnStack(ctl, t)
             /\ Append(SetTop(f), w)[Len(Append(SetTop(f), w))] = w
  <2>1. /\ Stack(SetTop(f), running) /\ SetTop(f)[Len(SetTop(f))] = f
        /\ \A t : OnStack(SetTop(f), t) <=> OnStack(ctl, t)
    BY <1>3, TopFacts
  <2>2. ~IsActivation(w) /\ w.fn # "Dtor"
    BY <1>3 DEF IsActivation
  <2> QED BY <1>3, <2>1, <2>2, PushWalk
<1>4. Stack(ctl', running) /\ \A t : OnStack(ctl', t) <=> OnStack(ctl, t)
  <2>1. CASE CallSchedule
    <3> DEFINE f == IF Len(ctl) = 1 THEN Top ELSE Worked
               v == [Walk("Schedule", End) EXCEPT !.pc = "start"]
               w == Walk("ScheduleNew", First(new))
               c == Append(SetTop(f), v)
    <3>1. f \in Frame /\ f.fn = Top.fn /\ f.task = Top.task /\ f.fn \in {"Do", "Roll"}
      <4>1. CASE Len(ctl) = 1
        BY <4>1, <1>1, <2>1 DEF CallSchedule, InBody
      <4>2. CASE Len(ctl) # 1
        <5>1. Top.left > 0 /\ Top.fn \in {"Do", "Roll"}
          BY <4>2, <2>1 DEF CallSchedule, InBody
        <5>2. Worked \in Frame /\ Worked.fn = Top.fn /\ Worked.task = Top.task
          BY <5>1, <1>1, WorkedFacts
        <5> QED BY <4>2, <5>1, <5>2
      <4> QED BY <4>1, <4>2
    <3>2. v \in Frame /\ v.fn = "Schedule" /\ w \in Frame /\ w.fn = "ScheduleNew"
      <4>1. Walk("Schedule", End) \in Frame /\ Walk("Schedule", End).fn = "Schedule"
        BY DEF Walk, Frame
      <4>2. v \in Frame /\ v.fn = "Schedule"
        BY <4>1 DEF Frame
      <4>3. w \in Frame /\ w.fn = "ScheduleNew"
        BY <1>1 DEF Walk, Frame
      <4> QED BY <4>2, <4>3
    <3>3. ctl' = Append(c, w)
      BY <2>1 DEF CallSchedule
    <3> HIDE DEF f, v, w
    <3>4. /\ Stack(c, running) /\ \A t : OnStack(c, t) <=> OnStack(ctl, t)
          /\ c[Len(c)] = v
      BY <3>1, <3>2, <1>3
    <3> HIDE DEF c
    <3>5. ~IsActivation(w) /\ w.fn # "Dtor" /\ v.fn # "Dtor"
      BY <3>2 DEF IsActivation
    <3>6. Stack(Append(c, w), running) /\ \A t : OnStack(Append(c, w), t) <=> OnStack(c, t)
      BY <3>2, <3>4, <3>5, PushWalk
    <3> QED BY <3>3, <3>4, <3>6
  <2>2. CASE ScheduleStart
    <3>1. [Top EXCEPT !.pc = "loop", !.node = First(ready)] \in Frame
      BY <1>1 DEF Frame
    <3> QED BY <2>2, <3>1, <1>1, TopFacts DEF ScheduleStart, Frame
  <2>3. CASE ScheduleRan
    <3> DEFINE f == [Top EXCEPT !.pc = "after"]
               w == Walk("ScheduleNew", First(new))
    <3>1. f \in Frame /\ f.fn = Top.fn /\ f.task = Top.task /\ f.fn = "Schedule"
      BY <1>1, <2>3 DEF ScheduleRan, Frame
    <3>2. w \in Frame /\ w.fn = "ScheduleNew"
      BY <1>1 DEF Walk, Frame
    <3>3. ctl' = Append(SetTop(f), w)
      BY <2>3 DEF ScheduleRan
    <3> QED BY <3>1, <3>2, <3>3, <1>3
  <2>4. CASE Advance
    <3> DEFINE f == [Top EXCEPT !.pc = "loop", !.node = Top.next, !.next = End]
    <3>1. f \in Frame /\ f.fn = Top.fn /\ f.task = Top.task
      BY <1>1 DEF Frame
    <3>2. ctl' = SetTop(f)
      BY <2>4 DEF Advance
    <3> HIDE DEF f
    <3> QED BY <3>1, <3>2, TopFacts
  <2>5. CASE ScheduleCollect
    <3> DEFINE f == [Top EXCEPT !.pc = "return"]
               w == Walk("Collect", First(deleted))
    <3>1. f \in Frame /\ f.fn = Top.fn /\ f.task = Top.task /\ f.fn = "Schedule"
      BY <1>1, <2>5 DEF ScheduleCollect, Frame
    <3>2. w \in Frame /\ w.fn = "Collect"
      BY <1>1 DEF Walk, Frame
    <3>3. ctl' = Append(SetTop(f), w)
      BY <2>5 DEF ScheduleCollect
    <3> QED BY <3>1, <3>2, <3>3, <1>3
  <2>6. CASE Wakeup
    BY <2>6, <1>1 DEF Wakeup
  <2>7. CASE ScheduleReturn \/ ScheduleNewReturn \/ CollectReturn
    <3>1. ~IsActivation(ctl[Len(ctl)])
      BY <2>7, <1>1 DEF ScheduleReturn, ScheduleNewReturn, CollectReturn, IsActivation
    <3>2. Stack(Caller, running) /\ \A t : OnStack(Caller, t) <=> OnStack(ctl, t)
      BY <1>1, <3>1, PopWalk DEF Caller
    <3>3. CASE CollectReturn
      BY <3>2, <3>3 DEF CollectReturn
    <3>4. CASE ScheduleNewReturn
      BY <3>2, <3>4, ReturnToFacts DEF ScheduleNewReturn
    <3>5. CASE ScheduleReturn
      BY <3>2, <3>5, RestoreFacts DEF ScheduleReturn
    <3> QED BY <2>7, <3>3, <3>4, <3>5
  <2> QED BY <2>1, <2>2, <2>3, <2>4, <2>5, <2>6, <2>7
<1>5. ctl' \in Seq(Frame) /\ ctl' # <<>>
  BY <1>4 DEF Stack
<1>6. TypeOK'
  BY <1>1, <1>2, <1>5 DEF TypeOK, lists, flags
<1>7. ListsOK' /\ NoTaskLost' /\ ActiveExist'
  BY <1>2, <1>4, KeepLists, KeepActive DEF lists
<1>8. Stack(ctl', running')
  BY <1>2, <1>4
<1> QED BY <1>6, <1>7, <1>8 DEF IInv

\* The two loops over tasks call ScheduleThis.
LEMMA LoopSteps ==
    ASSUME IInv, ScheduleLoop \/ ScheduleNewLoop
    PROVE  IInv'
<1> USE TaskAssumption
<1>1. TypeOK /\ Stack(ctl, running) /\ Top \in Frame /\ NoTaskLost /\ ListsOK
  BY TopFacts DEF IInv
<1>2. CASE ScheduleLoop
  <2> DEFINE t == Top.node
             next == NextOf(ready, t)
             f == [Top EXCEPT !.pc = "ran", !.node = End, !.next = next]
  <2>1. /\ Top.fn = "Schedule" /\ Listed(ready, t) /\ ScheduleThis(t, f, ready, Pin(next))
        /\ UNCHANGED <<all, new, deleted, flags, holds, idle>>
    BY <1>2 DEF ScheduleLoop
  <2>2. t \in Task /\ next \in Task \cup {End}
    BY <1>1, <2>1, ListTypes DEF TypeOK
  <2>3. f \in Frame /\ f.fn = Top.fn /\ f.task = Top.task
    BY <1>1, <2>2 DEF Frame
  <2>4. Pin(next) \in [Task -> Nat] /\ ref_count' = Pin(next)
    BY <2>1, <2>2, PinTypes DEF ScheduleThis
  <2> HIDE DEF t, next, f
  <2>5. \A x : ~(Listed(ready, x) /\ Listed(new', x))
    <3>1. \A x : Listed(ready, x) => x \in Task
      BY <1>1, ListTypes DEF TypeOK
    <3>2. new' = new
      BY <2>1
    <3> QED BY <1>1, <3>1, <3>2 DEF NoTaskLost, ListsOK
  <2>6. ready' \in Seq(Task) /\ ListsOK' /\ NoTaskLost' /\ Stack(ctl', running') /\ ActiveExist'
    BY <1>1, <2>1, <2>2, <2>3, <2>5, ScheduleThisInv DEF ListsOK, TypeOK
  <2>7. TypeOK'
    BY <1>1, <2>1, <2>4, <2>6 DEF TypeOK, Stack, flags
  <2> QED BY <2>6, <2>7 DEF IInv
<1>3. CASE ScheduleNewLoop
  <2> DEFINE t == Top.node
             next == NextOf(new, t)
             f == [Top EXCEPT !.pc = "after", !.node = End, !.next = next]
             q == <<t>> \o ready
  <2>1. /\ Top.fn = "ScheduleNew" /\ Listed(new, t) /\ ScheduleThis(t, f, q, Pin(next))
        /\ UNCHANGED <<all, deleted, flags, holds, idle>> /\ new' = Unlink(new, t)
    BY <1>3 DEF ScheduleNewLoop
  <2>2. t \in Task /\ next \in Task \cup {End}
    BY <1>1, <2>1, ListTypes DEF TypeOK
  <2>3. f \in Frame /\ f.fn = Top.fn /\ f.task = Top.task
    BY <1>1, <2>2 DEF Frame
  <2>4. Pin(next) \in [Task -> Nat] /\ ref_count' = Pin(next)
    BY <2>1, <2>2, PinTypes DEF ScheduleThis
  <2> HIDE DEF next, f
  <2>5. ~Listed(ready, t)
    BY <1>1, <2>1, <2>2 DEF NoTaskLost, ListsOK
  <2>6. /\ q \in Seq(Task) /\ IsInjective(q)
        /\ \A x : Listed(q, x) <=> Listed(ready, x) \/ x = t
    BY <1>1, <2>2, <2>5, LinkFacts DEF TypeOK, ListsOK
  <2>7. /\ new' \in Seq(Task) /\ IsInjective(new')
        /\ \A x : Listed(new', x) <=> Listed(new, x) /\ x # t
    BY <1>1, <2>1, UnlinkFacts DEF TypeOK, ListsOK
  <2> HIDE DEF t, q
  <2>8. \A x : Listed(new, x) => x \in Task
    BY <1>1, ListTypes DEF TypeOK
  <2>9. \A x : ~(Listed(q, x) /\ Listed(new', x))
    BY <1>1, <2>6, <2>7, <2>8 DEF NoTaskLost, ListsOK
  <2>10. \A x : Listed(q, x) \/ Listed(new', x) <=> Listed(ready, x) \/ Listed(new, x)
    BY <2>1, <2>6, <2>7
  <2>11. ready' \in Seq(Task) /\ ListsOK' /\ NoTaskLost' /\ Stack(ctl', running') /\ ActiveExist'
    BY <2>1, <2>2, <2>3, <2>6, <2>7, <2>9, <2>10, ScheduleThisInv
  <2>12. TypeOK'
    BY <1>1, <2>1, <2>4, <2>7, <2>11 DEF TypeOK, Stack, flags
  <2> QED BY <2>11, <2>12 DEF IInv
<1> QED BY <1>2, <1>3

\* CollectGarbage destroys only objects without an activation.
LEMMA CollectSteps ==
    ASSUME IInv, CollectLoop \/ CallCollect
    PROVE  IInv'
<1> USE TaskAssumption
<1>1. TypeOK /\ Stack(ctl, running) /\ Top \in Frame
  BY TopFacts DEF IInv
<1>2. UNCHANGED <<all, ready, new, flags, counts, idle>>
  BY DEF CollectLoop, CallCollect, lists
<1>3. /\ deleted' \in Seq(Task) /\ Stack(ctl', running)
      /\ \A x : OnStack(ctl', x) <=> OnStack(ctl, x)
  <2>1. CASE CollectLoop
    <3> DEFINE t == Top.node
               f == [Top EXCEPT !.node = NextOf(deleted, t)]
    <3>1. /\ t \in Task /\ NextOf(deleted, t) \in Task \cup {End}
          /\ Unlink(deleted, t) \in Seq(Task)
      BY <1>1, <2>1, ListTypes DEF TypeOK, CollectLoop
    <3>2. f \in Frame /\ f.fn = Top.fn /\ f.task = Top.task /\ f.fn = "Collect"
      BY <1>1, <2>1, <3>1 DEF Frame, CollectLoop
    <3>3. \/ ctl' = SetTop(f) /\ deleted' = deleted
          \/ /\ ~Busy(t) /\ deleted' = Unlink(deleted, t)
             /\ ctl' = Append(SetTop(f), Body("Dtor", t))
      BY <2>1 DEF CollectLoop
    <3> HIDE DEF f
    <3>4. /\ Stack(SetTop(f), running) /\ SetTop(f)[Len(SetTop(f))] = f
          /\ \A x : OnStack(SetTop(f), x) <=> OnStack(ctl, x)
      BY <3>2, TopFacts
    <3>5. CASE ctl' = SetTop(f) /\ deleted' = deleted
      BY <1>1, <3>4, <3>5 DEF TypeOK
    <3>6. CASE /\ ~Busy(t) /\ deleted' = Unlink(deleted, t)
               /\ ctl' = Append(SetTop(f), Body("Dtor", t))
      <4>1. running[t] = 0
        BY <1>1, <3>1, <3>6 DEF Busy, TypeOK
      <4>2. Body("Dtor", t) \in Frame /\ Body("Dtor", t).fn = "Dtor" /\ Body("Dtor", t).task = t
        BY <3>1 DEF Body, Frame
      <4>3. /\ Stack(Append(SetTop(f), Body("Dtor", t)), running)
            /\ \A x : OnStack(Append(SetTop(f), Body("Dtor", t)), x) <=> OnStack(SetTop(f), x)
        <5> HIDE DEF t
        <5> QED BY <3>1, <3>2, <3>4, <4>1, <4>2, PushDtor
      <4> QED BY <3>1, <3>4, <3>6, <4>3
    <3> QED BY <3>3, <3>5, <3>6
  <2>2. CASE CallCollect
    <3> DEFINE w == Walk("Collect", First(deleted))
    <3>1. First(deleted) \in Task \cup {End}
      BY <1>1, ListTypes DEF TypeOK
    <3>2. w \in Frame /\ w.fn = "Collect"
      BY <3>1 DEF Walk, Frame
    <3>3. Worked \in Frame /\ Worked.fn = Top.fn /\ Worked.task = Top.task /\ Worked.fn # "Dtor"
      BY <1>1, <2>2, WorkedFacts DEF CallCollect, Working, InBody
    <3>4. ctl' = Append(SetTop(Worked), w) /\ deleted' = deleted
      BY <2>2 DEF CallCollect, lists
    <3> HIDE DEF w
    <3>5. /\ Stack(SetTop(Worked), running) /\ SetTop(Worked)[Len(SetTop(Worked))] = Worked
          /\ \A x : OnStack(SetTop(Worked), x) <=> OnStack(ctl, x)
      BY <3>3, TopFacts
    <3>6. ~IsActivation(w) /\ w.fn # "Dtor"
      BY <3>2 DEF IsActivation
    <3>7. /\ Stack(Append(SetTop(Worked), w), running)
          /\ \A x : OnStack(Append(SetTop(Worked), w), x) <=> OnStack(SetTop(Worked), x)
      BY <3>2, <3>3, <3>5, <3>6, PushWalk
    <3> QED BY <1>1, <3>4, <3>5, <3>7 DEF TypeOK
  <2> QED BY <2>1, <2>2
<1>4. TypeOK'
  BY <1>1, <1>2, <1>3 DEF TypeOK, Stack, flags, counts
<1>5. ListsOK' /\ NoTaskLost' /\ ActiveExist' /\ Stack(ctl', running')
  BY <1>2, <1>3, KeepLists, KeepActive DEF counts
<1> QED BY <1>4, <1>5 DEF IInv

\* References dropped and objects doomed: only the deletion side changes.
LEMMA DoomSteps ==
    ASSUME IInv, NEW h \in Task, NEW t \in Task,
           \/ DropRef(h, t) /\ UNCHANGED ctl
           \/ ReleaseRef(h, t)
           \/ DeleteLater(t)
    PROVE  IInv'
<1>1. TypeOK /\ Stack(ctl, running) /\ Top \in Frame /\ NoTaskLost /\ ListsOK
  BY TopFacts DEF IInv
<1>2. /\ UNCHANGED <<all, ready, new, suspended, suspended_slave, running, idle>>
      /\ Doom(t)
  BY DEF DropRef, ReleaseRef, DeleteLater, counts
<1>3. ref_count' \in [Task -> Nat] /\ holds' \subseteq Task \X Task
  BY <1>1, PinTypes DEF DropRef, ReleaseRef, DeleteLater, counts, TypeOK
<1>4. deleted' \in Seq(Task) /\ deleting' = [deleting EXCEPT ![t] = TRUE]
  BY <1>1, <1>2, AppendProperties DEF Doom, TypeOK
<1>5. Stack(ctl', running) /\ \A x : OnStack(ctl', x) <=> OnStack(ctl, x)
  <2>1. CASE Working /\ ctl' = SetTop(Worked)
    BY <1>1, <2>1, WorkedFacts, TopFacts DEF Working
  <2>2. CASE ctl' = ctl
    BY <1>1, <2>2
  <2> QED BY <2>1, <2>2 DEF ReleaseRef, DeleteLater
<1>6. TypeOK'
  BY <1>1, <1>2, <1>3, <1>4, <1>5 DEF TypeOK, Stack
<1>7. ListsOK'
  BY <1>1, <1>2 DEF ListsOK, Listed, IsInjective
<1>8. NoTaskLost'
  BY <1>1, <1>2, <1>4 DEF NoTaskLost, TypeOK, IsSuspended, Listed
<1>9. ActiveExist' /\ Stack(ctl', running')
  BY <1>2, <1>5, KeepActive
<1> QED BY <1>6, <1>7, <1>8, <1>9 DEF IInv

\* The end of a destructor: the object leaves every list.
LEMMA DtorReturnStep ==
    ASSUME IInv, DtorReturn
    PROVE  IInv'
<1> DEFINE s == Top.task
<1>1. TypeOK /\ Stack(ctl, running) /\ Top \in Frame /\ NoTaskLost /\ ListsOK /\ ActiveExist
  BY TopFacts DEF IInv
<1>2. /\ Top.fn = "Dtor" /\ all' = all \ {s} /\ ctl' = Caller
      /\ ready' = UnlinkIfListed(ready, s) /\ new' = UnlinkIfListed(new, s)
      /\ suspended' = [suspended EXCEPT ![s] = FALSE]
      /\ suspended_slave' = [suspended_slave EXCEPT ![s] = FALSE]
      /\ deleting' = [deleting EXCEPT ![s] = FALSE]
      /\ UNCHANGED <<deleted, counts, idle>>
  BY DEF DtorReturn, Self
<1>3. s \in Task /\ ~OnStack(ctl, s)
  <2>1. Len(ctl) \in DOMAIN ctl /\ Top = ctl[Len(ctl)]
    BY <1>1, EmptySeq, LenProperties DEF Stack, Top
  <2>2. s \in Task /\ running[s] = 0
    BY <1>1, <1>2, <2>1 DEF Stack
  <2> QED BY <1>1, <2>2 DEF Stack
<1>4. Stack(ctl', running) /\ \A x : OnStack(ctl', x) <=> OnStack(ctl, x)
  <2>1. ~IsActivation(ctl[Len(ctl)])
    BY <1>2 DEF Top, IsActivation
  <2> QED BY <1>1, <1>2, <2>1, PopWalk DEF Caller
<1>5. /\ ready' \in Seq(Task) /\ IsInjective(ready')
      /\ \A x : Listed(ready', x) <=> Listed(ready, x) /\ x # s
  <2>1. CASE Listed(ready, s)
    BY <1>1, <1>2, <2>1, UnlinkFacts DEF UnlinkIfListed, TypeOK, ListsOK
  <2>2. CASE ~Listed(ready, s)
    BY <1>1, <1>2, <2>2 DEF UnlinkIfListed, TypeOK, ListsOK
  <2> QED BY <2>1, <2>2
<1>6. /\ new' \in Seq(Task) /\ IsInjective(new')
      /\ \A x : Listed(new', x) <=> Listed(new, x) /\ x # s
  <2>1. CASE Listed(new, s)
    BY <1>1, <1>2, <2>1, UnlinkFacts DEF UnlinkIfListed, TypeOK, ListsOK
  <2>2. CASE ~Listed(new, s)
    BY <1>1, <1>2, <2>2 DEF UnlinkIfListed, TypeOK, ListsOK
  <2> QED BY <2>1, <2>2
<1> HIDE DEF s
<1>7. TypeOK'
  BY <1>1, <1>2, <1>3, <1>4, <1>5, <1>6 DEF TypeOK, Stack, counts
<1>8. (\A x : Listed(ready, x)' <=> Listed(ready', x)) /\ (\A x : Listed(new, x)' <=> Listed(new', x))
  BY DEF Listed
<1>9. ListsOK'
  BY <1>1, <1>2, <1>5, <1>6, <1>8 DEF ListsOK
<1>10. NoTaskLost'
  <2> SUFFICES ASSUME NEW t \in all'
               PROVE  /\ ~(Listed(new, t)' /\ Listed(ready, t)')
                      /\ ~IsSuspended(t)' /\ ~deleting'[t] => Listed(new, t)' \/ Listed(ready, t)'
    BY DEF NoTaskLost
  <2>1. t \in all /\ t # s /\ t \in Task
    BY <1>1, <1>2 DEF TypeOK
  <2>2. IsSuspended(t)' <=> IsSuspended(t)
    BY <1>1, <1>2, <2>1 DEF IsSuspended, TypeOK
  <2>3. deleting'[t] = deleting[t]
    BY <1>1, <1>2, <2>1 DEF TypeOK
  <2> QED BY <1>1, <1>5, <1>6, <1>8, <2>1, <2>2, <2>3 DEF NoTaskLost
<1>11. ActiveExist' /\ Stack(ctl', running')
  <2>1. \A t \in Task : OnStack(ctl', t) => t \in all'
    BY <1>1, <1>2, <1>3, <1>4 DEF ActiveExist
  <2> QED BY <1>2, <1>4, <2>1 DEF ActiveExist, OnStack, counts
<1> QED BY <1>7, <1>9, <1>10, <1>11 DEF IInv

\* An operation of a body leaves its activation where it is.
LEMMA WorkedStep ==
    ASSUME IInv, Working, ctl' = SetTop(Worked)
    PROVE  Stack(ctl', running) /\ \A x : OnStack(ctl', x) <=> OnStack(ctl, x)
BY WorkedFacts, TopFacts DEF Working

\* Counted references taken and given away.
LEMMA RefSteps ==
    ASSUME IInv, NEW t \in Task, ShareRef(t) \/ BorrowRef(t)
    PROVE  IInv'
<1>1. TypeOK /\ Top \in Frame
  BY TopFacts DEF IInv
<1>2. /\ UNCHANGED <<all, lists, flags, running, idle>> /\ Working /\ ctl' = SetTop(Worked)
      /\ t \in Task
  BY DEF ShareRef, BorrowRef
<1>3. Self \in Task
  <2>1. Len(ctl) \in DOMAIN ctl /\ Top = ctl[Len(ctl)] /\ Stack(ctl, running)
    BY <1>1, EmptySeq, LenProperties DEF IInv, TypeOK, Top
  <2> QED BY <1>2, <2>1 DEF Working, InBody, Stack, IsActivation, Self
<1>4. ref_count' \in [Task -> Nat] /\ holds' \subseteq Task \X Task
  <2>1. CASE ShareRef(t)
    BY <1>1, <1>3, <2>1 DEF ShareRef, TypeOK
  <2>2. CASE BorrowRef(t)
    BY <1>1, <2>2, PinTypes DEF BorrowRef, TypeOK
  <2> QED BY <2>1, <2>2
<1>5. Stack(ctl', running) /\ \A x : OnStack(ctl', x) <=> OnStack(ctl, x)
  BY <1>2, WorkedStep
<1>6. TypeOK'
  BY <1>1, <1>2, <1>4, <1>5 DEF TypeOK, Stack, lists, flags
<1>7. ListsOK' /\ NoTaskLost' /\ ActiveExist' /\ Stack(ctl', running')
  BY <1>2, <1>5, KeepLists, KeepActive DEF lists
<1> QED BY <1>6, <1>7 DEF IInv

\* SMTask::SMTask puts the new object on new_tasks.
LEMMA NewTaskStep ==
    ASSUME IInv, NEW t \in Task, NEW keep \in BOOLEAN, NewTask(t, keep)
    PROVE  IInv'
<1>1. TypeOK /\ Top \in Frame /\ Stack(ctl, running) /\ NoTaskLost /\ ListsOK /\ ActiveExist
  BY TopFacts DEF IInv
<1>2. /\ Working /\ t \notin all /\ all' = all \cup {t} /\ new' = <<t>> \o new
      /\ suspended' = [suspended EXCEPT ![t] = FALSE]
      /\ suspended_slave' = [suspended_slave EXCEPT ![t] = FALSE]
      /\ deleting' = [deleting EXCEPT ![t] = FALSE]
      /\ running' = [running EXCEPT ![t] = 0]
      /\ ctl' = SetTop(Worked) /\ UNCHANGED <<ready, deleted, idle>>
  BY DEF NewTask
<1>3. running' = running
  <2>1. running[t] = 0
    BY <1>1, <1>2 DEF ActiveExist, Stack
  <2> QED BY <1>1, <1>2, <2>1 DEF TypeOK
<1>4. Stack(ctl', running) /\ \A x : OnStack(ctl', x) <=> OnStack(ctl, x)
  BY <1>2, WorkedStep
<1>5. Self \in Task
  <2>1. Len(ctl) \in DOMAIN ctl /\ Top = ctl[Len(ctl)]
    BY <1>1, EmptySeq, LenProperties DEF TypeOK, Top
  <2> QED BY <1>1, <1>2, <2>1 DEF Working, InBody, Stack, IsActivation, Self
<1>6. holds' \subseteq Task \X Task /\ ref_count' \in [Task -> Nat]
  BY <1>1, <1>5 DEF NewTask, TypeOK
<1>7. ~Listed(new, t) /\ ~Listed(ready, t)
  BY <1>1, <1>2 DEF ListsOK
<1>8. /\ new' \in Seq(Task) /\ IsInjective(new')
      /\ \A x : Listed(new', x) <=> Listed(new, x) \/ x = t
  BY <1>1, <1>2, <1>7, LinkFacts DEF TypeOK, ListsOK
<1>9. TypeOK'
  BY <1>1, <1>2, <1>4, <1>3, <1>6, <1>8 DEF TypeOK, Stack
<1>10. (\A x : Listed(ready, x)' <=> Listed(ready, x)) /\ (\A x : Listed(new, x)' <=> Listed(new', x))
  BY <1>2 DEF Listed
<1>11. ListsOK'
  BY <1>1, <1>2, <1>8, <1>10 DEF ListsOK
<1>12. NoTaskLost'
  <2> SUFFICES ASSUME NEW x \in all'
               PROVE  /\ ~(Listed(new, x)' /\ Listed(ready, x)')
                      /\ ~IsSuspended(x)' /\ ~deleting'[x] => Listed(new, x)' \/ Listed(ready, x)'
    BY DEF NoTaskLost
  <2>1. CASE x = t
    BY <1>7, <1>8, <1>10, <2>1
  <2>2. CASE x # t
    <3>1. x \in all /\ x \in Task
      BY <1>1, <1>2, <2>2 DEF TypeOK
    <3>2. (IsSuspended(x)' <=> IsSuspended(x)) /\ deleting'[x] = deleting[x]
      BY <1>1, <1>2, <2>2, <3>1 DEF IsSuspended, TypeOK
    <3> QED BY <1>1, <1>8, <1>10, <2>2, <3>1, <3>2 DEF NoTaskLost
  <2> QED BY <2>1, <2>2
<1>13. ActiveExist' /\ Stack(ctl', running')
  <2>1. \A x \in Task : OnStack(ctl', x) => x \in all'
    BY <1>1, <1>2, <1>4 DEF ActiveExist
  <2> QED BY <1>3, <1>4, <2>1 DEF ActiveExist, OnStack
<1> QED BY <1>9, <1>11, <1>12, <1>13 DEF IInv

\* A resumed task is back on a list before its flags allow it to run.
LEMMA SuspendSteps ==
    ASSUME IInv, NEW t \in Task, Suspend(t) \/ Resume(t)
    PROVE  IInv'
<1>1. TypeOK /\ Top \in Frame /\ Stack(ctl, running) /\ NoTaskLost /\ ListsOK
  BY TopFacts DEF IInv
<1>2. /\ Working /\ t \in all /\ ctl' = SetTop(Worked)
      /\ UNCHANGED <<all, ready, deleted, deleting, counts, idle>>
  BY DEF Suspend, Resume, lists
<1>3. Stack(ctl', running) /\ \A x : OnStack(ctl', x) <=> OnStack(ctl, x)
  BY <1>2, WorkedStep
<1>4. suspended' \in [Task -> BOOLEAN] /\ suspended_slave' \in [Task -> BOOLEAN]
  BY <1>1 DEF Suspend, Resume, TypeOK
<1>5. \A x \in Task : x # t => (IsSuspended(x)' <=> IsSuspended(x))
  BY <1>1 DEF Suspend, Resume, TypeOK, IsSuspended
<1>6. \/ new' = new /\ (IsSuspended(t)' \/ Listed(new, t) \/ Listed(ready, t))
      \/ new' = Append(new, t) /\ ~Listed(new, t) /\ ~Listed(ready, t)
  <2>1. CASE Suspend(t)
    <3>1. IsSuspended(t)'
      BY <1>1, <2>1 DEF Suspend, TypeOK, IsSuspended
    <3> QED BY <2>1, <3>1 DEF Suspend, lists
  <2>2. CASE Resume(t)
    BY <2>2 DEF Resume, Requeued, IsSuspended
  <2> QED BY <2>1, <2>2
<1>7. /\ new' \in Seq(Task) /\ IsInjective(new')
      /\ \A x : Listed(new, x) => Listed(new', x)
      /\ \A x : Listed(new', x) => Listed(new, x) \/ (x = t /\ ~Listed(ready, t))
      /\ IsSuspended(t)' \/ Listed(new', t) \/ Listed(ready, t)
  <2>1. CASE new' = Append(new, t) /\ ~Listed(new, t) /\ ~Listed(ready, t)
    BY <1>1, <2>1, LinkFacts DEF TypeOK, ListsOK
  <2>2. CASE new' = new /\ (IsSuspended(t)' \/ Listed(new, t) \/ Listed(ready, t))
    BY <1>1, <2>2 DEF TypeOK, ListsOK
  <2> QED BY <1>6, <2>1, <2>2
<1>8. TypeOK'
  BY <1>1, <1>2, <1>3, <1>4, <1>7 DEF TypeOK, Stack, counts
<1>9. (\A x : Listed(ready, x)' <=> Listed(ready, x)) /\ (\A x : Listed(new, x)' <=> Listed(new', x))
  BY <1>2 DEF Listed
<1>10. ListsOK'
  BY <1>1, <1>2, <1>7, <1>9 DEF ListsOK
<1>11. NoTaskLost'
  <2> SUFFICES ASSUME NEW x \in all'
               PROVE  /\ ~(Listed(new, x)' /\ Listed(ready, x)')
                      /\ ~IsSuspended(x)' /\ ~deleting'[x] => Listed(new, x)' \/ Listed(ready, x)'
    BY DEF NoTaskLost
  <2>1. x \in all /\ x \in Task /\ deleting'[x] = deleting[x]
    BY <1>1, <1>2 DEF TypeOK
  <2>2. CASE x = t
    BY <1>1, <1>7, <1>9, <2>1, <2>2 DEF NoTaskLost
  <2>3. CASE x # t
    BY <1>1, <1>5, <1>7, <1>9, <2>1, <2>3 DEF NoTaskLost
  <2> QED BY <2>2, <2>3
<1>12. ActiveExist' /\ Stack(ctl', running')
  BY <1>2, <1>3, KeepActive DEF counts
<1> QED BY <1>8, <1>10, <1>11, <1>12 DEF IInv

\* Roll enters a task that has no activation; a Do that returns leaves it.
LEMMA RollStep ==
    ASSUME IInv, NEW t \in Task, Roll(t)
    PROVE  IInv'
<1> DEFINE b == Body("Roll", t)
           c == SetTop(Worked)
<1>1. TypeOK /\ Top \in Frame /\ Stack(ctl, running) /\ ActiveExist
  BY TopFacts DEF IInv
<1>2. /\ Working /\ t \in all /\ running[t] = 0 /\ ctl' = Append(c, b)
      /\ running' = [running EXCEPT ![t] = @ + 1]
      /\ UNCHANGED <<all, lists, flags, ref_count, holds, idle>>
  BY DEF Roll, MayRoll, EnterBody
<1>3. Worked \in Frame /\ Worked.fn = Top.fn /\ Worked.task = Top.task /\ Worked.fn # "Dtor"
  BY <1>1, <1>2, WorkedFacts DEF Working, InBody
<1>4. Stack(c, running) /\ c[Len(c)] = Worked /\ \A x : OnStack(c, x) <=> OnStack(ctl, x)
  BY <1>3, TopFacts
<1>5. b \in Frame /\ b.task = t /\ IsActivation(b)
  BY TaskAssumption DEF Body, Frame, IsActivation
<1> HIDE DEF b, c
<1>6. /\ Stack(ctl', running')
      /\ \A x : OnStack(ctl', x) <=> OnStack(c, x) \/ x = t
  BY <1>2, <1>3, <1>4, <1>5, PushBody
<1>7. TypeOK'
  BY <1>1, <1>2, <1>6 DEF TypeOK, Stack, lists, flags
<1>8. ListsOK' /\ NoTaskLost'
  BY <1>2, KeepLists DEF lists
<1>9. ActiveExist'
  BY <1>1, <1>2, <1>4, <1>6 DEF ActiveExist
<1> QED BY <1>6, <1>7, <1>8, <1>9 DEF IInv

LEMMA DoReturnStep ==
    ASSUME IInv, NEW m \in BOOLEAN, DoReturn(m)
    PROVE  IInv'
<1> DEFINE r == [running EXCEPT ![Self] = @ - 1]
<1>1. TypeOK /\ Top \in Frame /\ Stack(ctl, running) /\ ActiveExist
  BY TopFacts DEF IInv
<1>2. /\ InBody /\ Len(ctl) > 1 /\ running' = r /\ ctl' = ReturnTo(Caller, m)
      /\ UNCHANGED <<all, lists, flags, ref_count, holds, idle>>
  BY DEF DoReturn
<1>3. /\ Stack(Caller, r) /\ \A x : OnStack(Caller, x) => OnStack(ctl, x)
  BY <1>1, <1>2, PopBody DEF InBody, IsActivation, Top, Self, Caller
<1> HIDE DEF r
<1>4. Stack(ctl', running') /\ \A x : OnStack(ctl', x) => OnStack(ctl, x)
  BY <1>2, <1>3, ReturnToFacts
<1>5. TypeOK'
  BY <1>1, <1>2, <1>4 DEF TypeOK, Stack, lists, flags
<1>6. ListsOK' /\ NoTaskLost'
  BY <1>2, KeepLists DEF lists
<1>7. ActiveExist'
  BY <1>1, <1>2, <1>4 DEF ActiveExist
<1> QED BY <1>4, <1>5, <1>6, <1>7 DEF IInv

-----------------------------------------------------------------------------
(* The theorems *)

\* The main program starts as the only activation, of init_task.
LEMMA InitInv == Init => IInv
<1> SUFFICES ASSUME Init PROVE IInv
  OBVIOUS
<1> DEFINE b == Body("Do", InitTask)
<1>1. b \in Frame /\ b.fn = "Do" /\ b.task = InitTask
  BY TaskAssumption DEF Body, Frame
<1>2. ctl = <<b>> /\ new = <<InitTask>> /\ ready = <<>> /\ all = {InitTask}
  BY DEF Init
<1> HIDE DEF b
<1>3. ctl \in Seq(Frame) /\ ctl # <<>> /\ Len(ctl) = 1 /\ DOMAIN ctl = {1} /\ ctl[1] = b
  BY <1>1, <1>2
<1>4. TypeOK
  <2>1. ready \in Seq(Task) /\ new \in Seq(Task) /\ deleted \in Seq(Task)
    BY <1>2, TaskAssumption DEF Init
  <2>2. running \in [Task -> Nat] /\ ref_count \in [Task -> Nat]
    BY DEF Init
  <2> QED BY <1>2, <1>3, <2>1, <2>2, TaskAssumption DEF Init, TypeOK
<1>5. (\A x : Listed(new, x) <=> x = InitTask) /\ (\A x : ~Listed(ready, x))
  BY <1>2 DEF Listed
<1>6. ListsOK /\ NoTaskLost
  BY <1>2, <1>5 DEF ListsOK, NoTaskLost, IsInjective
<1>7. \A t : OnStack(ctl, t) <=> t = InitTask
  BY <1>1, <1>3 DEF OnStack, IsActivation
<1>8. Stack(ctl, running)
  BY <1>1, <1>3, <1>7, TaskAssumption DEF Stack, Init
<1>9. ActiveExist
  BY <1>2, <1>7 DEF ActiveExist
<1> QED BY <1>4, <1>6, <1>8, <1>9 DEF IInv

\* Every step of the scheduler, or of the code it runs, preserves IInv.
LEMMA NextInv == IInv /\ [Next]_vars => IInv'
<1> SUFFICES ASSUME IInv, [Next]_vars PROVE IInv'
  OBVIOUS
<1>1. CASE \/ CallSchedule \/ ScheduleStart \/ ScheduleRan \/ Advance
           \/ ScheduleCollect \/ ScheduleReturn \/ Wakeup
           \/ ScheduleNewReturn \/ CollectReturn
  BY <1>1, WalkSteps
<1>2. CASE ScheduleLoop \/ ScheduleNewLoop
  BY <1>2, LoopSteps
<1>3. CASE CollectLoop \/ CallCollect
  BY <1>3, CollectSteps
<1>4. CASE DtorDropRef
  <2>1. PICK t \in Task : DropRef(Self, t)
    BY <1>4 DEF DtorDropRef
  <2>2. Self \in Task /\ UNCHANGED ctl
    BY <1>4, <2>1 DEF DropRef, DtorDropRef, IInv, TypeOK
  <2> QED BY <2>1, <2>2, DoomSteps
<1>5. CASE DtorReturn
  BY <1>5, DtorReturnStep
<1>6. ASSUME NEW t \in Task, Operation(t) PROVE IInv'
  <2>1. CASE \E keep \in BOOLEAN : NewTask(t, keep)
    BY <2>1, NewTaskStep
  <2>2. CASE ShareRef(t) \/ BorrowRef(t)
    BY <2>2, RefSteps
  <2>3. CASE (\E h \in Task : ReleaseRef(h, t)) \/ DeleteLater(t)
    BY <2>3, DoomSteps
  <2>4. CASE Suspend(t) \/ Resume(t)
    BY <2>4, SuspendSteps
  <2>5. CASE Roll(t)
    BY <2>5, RollStep
  <2> QED BY <1>6, <2>1, <2>2, <2>3, <2>4, <2>5 DEF Operation
<1>7. CASE \E m \in BOOLEAN : DoReturn(m)
  BY <1>7, DoReturnStep
<1>8. CASE UNCHANGED vars
  <2>1. UNCHANGED <<all, lists, flags, counts, ctl, idle>>
    BY <1>8 DEF vars
  <2>2. ListsOK' /\ NoTaskLost'
    BY <2>1, KeepLists DEF lists
  <2>3. ActiveExist' /\ TypeOK' /\ Stack(ctl', running')
    BY <2>1, KeepActive DEF lists, flags, counts, IInv, TypeOK
  <2> QED BY <2>2, <2>3 DEF IInv
<1> QED BY <1>1, <1>2, <1>3, <1>4, <1>5, <1>6, <1>7, <1>8 DEF Next

LEMMA InvHolds == Spec => []IInv
BY InitInv, NextInv, PTL DEF Spec

\* The state keeps its types for every number of tasks, every nesting depth
\* of Schedule and any amount of work in one Do: in particular Unpin and Leave
\* never take a counter below zero (src/SMTask.h DecRefCount, SMTask::Leave).
THEOREM TypeCorrect == Spec => []TypeOK
BY InvHolds, PTL DEF IInv

\* A task that may run stays on ready_tasks or new_tasks and never on both,
\* through any sequence of Suspend, Resume, ResumeInternal and scheduling.
THEOREM NeverLost == Spec => []NoTaskLost
BY InvHolds, PTL DEF IInv

\* No Do is active twice, so SMTask::stack cannot outgrow the number of tasks
\* and Enter's assertion on SMTASK_MAX_DEPTH fails only with that many tasks.
THEOREM NeverReentered == Spec => []NoReentry
<1>1. IInv => NoReentry
  <2> SUFFICES ASSUME IInv PROVE NoReentry
    OBVIOUS
  <2>1. Stack(ctl, running)
    BY DEF IInv
  <2>2. \A t \in Task : Active(t) <=> OnStack(ctl, t)
    BY DEF Active, OnStack, IsActivation
  <2>3. \A t \in Task : running[t] = IF Active(t) THEN 1 ELSE 0
    BY <2>1, <2>2 DEF Stack
  <2>4. \A i, j \in DOMAIN ctl :
          /\ ctl[i].fn \in {"Do", "Roll"} /\ ctl[j].fn \in {"Do", "Roll"}
          /\ ctl[i].task = ctl[j].task
          => i = j
    BY <2>1 DEF Stack, IsActivation
  <2> QED BY <2>3, <2>4 DEF NoReentry
<1> QED BY <1>1, InvHolds, PTL

-----------------------------------------------------------------------------
(* Reference counts and object lifetime: RInv is inductive together with   *)
(* IInv.                                                                   *)

Refs(h, t) == {r \in h : r[2] = t}
Pins(c, t) == {i \in DOMAIN c : c[i].next = t}

\* A frame f when the objects in a exist and those in d wait to be collected: it points to
\* existing objects, next is pinned only while the code of a task may run, node is in use
\* only at the head of a loop, and CollectGarbage stands at an object not yet collected.
FrameOK(f, a, d) ==
    /\ f.task \in a \cup {End} /\ f.node \in a \cup {End} /\ f.next \in a \cup {End}
    /\ f.next # End => f.pc \in {"ran", "after"}
    /\ f.node # End => f.pc = "loop"
    /\ f.fn \in {"Do", "Roll", "Dtor"} => f.pc = "body" /\ f.task # End
    /\ f.fn \notin {"Do", "Roll", "Dtor"} => f.task = End
    /\ f.fn = "Collect" => f.next = End /\ (f.node = End \/ Listed(d, f.node))

\* Of all calls only the top one, or CollectGarbage under a destructor, has a node in use.
Calls(c, a, d) ==
    \A i \in DOMAIN c :
        /\ FrameOK(c[i], a, d)
        /\ c[i].node # End =>
             i = Len(c) \/ (i = Len(c) - 1 /\ c[Len(c)].fn = "Dtor" /\ c[i].fn = "Collect")

\* deleted_tasks holds doomed objects, once each.
Garbage == IsInjective(deleted) /\ \A t \in Task : Listed(deleted, t) => t \in all /\ deleting[t]

\* An object in its destructor is referenced by nobody and not collected again.
Dying == Top.fn = "Dtor" => ~Listed(deleted, Self) /\ ref_count[Self] = 0 /\ deleting[Self]

Held == IsFiniteSet(holds) /\ \A r \in holds : r \in all \X all

Exact == \A t \in all : ref_count[t] = Cardinality(Refs(holds, t)) + Cardinality(Pins(ctl, t))

RInv == Garbage /\ Dying /\ Held /\ Calls(ctl, all, deleted) /\ Exact

-----------------------------------------------------------------------------
(* The number of references and of pins. *)

LEMMA RefsFinite ==
    ASSUME NEW h, IsFiniteSet(h), NEW x
    PROVE  IsFiniteSet(Refs(h, x)) /\ Cardinality(Refs(h, x)) \in Nat
<1>1. Refs(h, x) \in SUBSET h
  BY DEF Refs
<1>2. IsFiniteSet(Refs(h, x))
  BY <1>1, FS_Subset
<1> QED BY <1>2, FS_CardinalityType

\* A reference more.
LEMMA RefsMore ==
    ASSUME NEW h, IsFiniteSet(h), NEW s, NEW t, <<s, t>> \notin h, NEW k, k = h \cup {<<s, t>>}
    PROVE  /\ IsFiniteSet(k) /\ \A x : x # t => Refs(k, x) = Refs(h, x)
           /\ Cardinality(Refs(k, t)) = Cardinality(Refs(h, t)) + 1
<1> DEFINE r == <<s, t>>
<1>1. r[2] = t
  OBVIOUS
<1>2. Refs(k, t) = Refs(h, t) \cup {r} /\ r \notin Refs(h, t)
  BY <1>1 DEF Refs
<1>3. Cardinality(Refs(h, t) \cup {r}) = Cardinality(Refs(h, t)) + 1
  BY <1>2, RefsFinite, FS_AddElement
<1>4. \A x : x # t => Refs(k, x) = Refs(h, x)
  BY <1>1 DEF Refs
<1> QED BY <1>2, <1>3, <1>4, FS_AddElement

\* A reference less.
LEMMA RefsLess ==
    ASSUME NEW h, IsFiniteSet(h), NEW s, NEW t, <<s, t>> \in h, NEW k, k = h \ {<<s, t>>}
    PROVE  /\ IsFiniteSet(k) /\ \A x : x # t => Refs(k, x) = Refs(h, x)
           /\ Cardinality(Refs(h, t)) > 0
           /\ Cardinality(Refs(k, t)) = Cardinality(Refs(h, t)) - 1
<1> DEFINE r == <<s, t>>
<1>1. r[2] = t
  OBVIOUS
<1>2. Refs(k, t) = Refs(h, t) \ {r} /\ r \in Refs(h, t)
  BY <1>1 DEF Refs
<1>3. Cardinality(Refs(h, t) \ {r}) = Cardinality(Refs(h, t)) - 1
  BY <1>2, RefsFinite, FS_RemoveElement
<1>4. \A x : x # t => Refs(k, x) = Refs(h, x)
  BY <1>1 DEF Refs
<1>5. IsFiniteSet(k)
  BY FS_RemoveElement
<1>6. Cardinality(Refs(h, t)) \in Nat /\ Cardinality(Refs(k, t)) \in Nat
  BY <1>5, RefsFinite
<1>7. Cardinality(Refs(k, t)) = Cardinality(Refs(h, t)) - 1
  BY <1>2, <1>3
<1>8. Cardinality(Refs(h, t)) > 0
  BY <1>6, <1>7
<1> QED BY <1>4, <1>5, <1>7, <1>8

LEMMA PinsFinite ==
    ASSUME NEW c \in Seq(Frame), NEW t
    PROVE  IsFiniteSet(Pins(c, t)) /\ Cardinality(Pins(c, t)) \in Nat
<1>1. Len(c) \in Nat /\ DOMAIN c = 1..Len(c)
  BY LenProperties
<1>2. IsFiniteSet(1..Len(c))
  BY <1>1, FS_Interval
<1>3. Pins(c, t) \in SUBSET (1..Len(c))
  BY <1>1 DEF Pins
<1>4. IsFiniteSet(Pins(c, t))
  BY <1>2, <1>3, FS_Subset
<1> QED BY <1>4, FS_CardinalityType

\* How many walks pin t when the top frame of c is replaced by f.
LEMMA PinsTop ==
    ASSUME NEW c \in Seq(Frame), c # <<>>, NEW f \in Frame, NEW t
    PROVE  LET g == c[Len(c)]
               e == [c EXCEPT ![Len(c)] = f]
           IN  /\ (f.next = t <=> g.next = t) => Pins(e, t) = Pins(c, t)
               /\ f.next = t /\ g.next # t => Cardinality(Pins(e, t)) = Cardinality(Pins(c, t)) + 1
               /\ f.next # t /\ g.next = t => /\ Cardinality(Pins(e, t)) = Cardinality(Pins(c, t)) - 1
                                              /\ Cardinality(Pins(c, t)) > 0
<1> DEFINE n == Len(c)
           e == [c EXCEPT ![n] = f]
<1>1. n \in Nat /\ n >= 1 /\ DOMAIN c = 1..n /\ n \in 1..n
  BY EmptySeq, LenProperties
<1>2. e \in Seq(Frame) /\ Len(e) = n /\ \A i \in 1..n : e[i] = IF i = n THEN f ELSE c[i]
  BY <1>1, ExceptSeq
<1>3. DOMAIN e = 1..n
  BY <1>2, LenProperties
<1> HIDE DEF e, n
<1>4. \A i : i \in Pins(e, t) <=> i \in 1..n /\ (IF i = n THEN f.next = t ELSE c[i].next = t)
  BY <1>2, <1>3 DEF Pins
<1>5. \A i : i \in Pins(c, t) <=> i \in 1..n /\ c[i].next = t
  BY <1>1 DEF Pins
<1>6. /\ IsFiniteSet(Pins(c, t)) /\ IsFiniteSet(Pins(e, t))
      /\ Cardinality(Pins(c, t)) \in Nat /\ Cardinality(Pins(e, t)) \in Nat
  BY <1>2, PinsFinite
<1>7. CASE f.next = t <=> c[n].next = t
  <2>1. \A i : i \in Pins(e, t) <=> i \in Pins(c, t)
    BY <1>4, <1>5, <1>7
  <2>2. Pins(e, t) = Pins(c, t)
    BY <2>1
  <2> QED BY <1>7, <2>2 DEF e, n
<1>8. CASE f.next = t /\ c[n].next # t
  <2>1. \A i : i \in Pins(e, t) <=> i \in Pins(c, t) \cup {n}
    BY <1>1, <1>4, <1>5, <1>8
  <2>2. Pins(e, t) = Pins(c, t) \cup {n} /\ n \notin Pins(c, t)
    BY <2>1, <1>5, <1>8
  <2>3. Cardinality(Pins(e, t)) = Cardinality(Pins(c, t)) + 1
    BY <2>2, <1>6, FS_AddElement
  <2> QED BY <1>8, <2>3 DEF e, n
<1>9. CASE f.next # t /\ c[n].next = t
  <2>1. \A i : i \in Pins(e, t) <=> i \in Pins(c, t) \ {n}
    BY <1>1, <1>4, <1>5, <1>9
  <2>2. Pins(e, t) = Pins(c, t) \ {n} /\ n \in Pins(c, t)
    BY <2>1, <1>1, <1>5, <1>9
  <2>3. Cardinality(Pins(e, t)) = Cardinality(Pins(c, t)) - 1
    BY <2>2, <1>6, FS_RemoveElement
  <2>4. Cardinality(Pins(c, t)) > 0
    BY <2>3, <1>6
  <2> QED BY <1>9, <2>3, <2>4 DEF e, n
<1> QED BY <1>7, <1>8, <1>9

-----------------------------------------------------------------------------
(* The call stack as Calls sees it. *)

\* Objects are created and garbage is queued: what the calls point to stays good.
LEMMA CallsGrow ==
    ASSUME NEW c, NEW a, NEW d, Calls(c, a, d), NEW b, a \subseteq b, NEW e,
           \A t : Listed(d, t) => Listed(e, t)
    PROVE  Calls(c, b, e)
BY DEF Calls, FrameOK

\* A step of the function that is running, which may take an object from the garbage.
LEMMA CallsTop ==
    ASSUME NEW c \in Seq(Frame), c # <<>>, NEW a, NEW d, Calls(c, a, d), NEW f \in Frame,
           f.fn = c[Len(c)].fn, f.fn # "Dtor", NEW k, FrameOK(f, a, k)
    PROVE  Calls([c EXCEPT ![Len(c)] = f], a, k)
<1> DEFINE n == Len(c)
           e == [c EXCEPT ![n] = f]
<1>1. n \in Nat /\ n >= 1 /\ DOMAIN c = 1..n
  BY EmptySeq, LenProperties
<1>2. e \in Seq(Frame) /\ Len(e) = n /\ \A i \in 1..n : e[i] = IF i = n THEN f ELSE c[i]
  BY <1>1, ExceptSeq
<1>3. DOMAIN e = 1..n
  BY <1>2, LenProperties
<1> HIDE DEF e, n
<1>4. \A i \in 1..n : FrameOK(c[i], a, d) /\ (c[i].node # End => i = n)
  BY <1>1 DEF Calls, n
<1>5. e[n] = f
  BY <1>1, <1>2
<1>6. \A i \in 1..n : FrameOK(e[i], a, k)
  <2>1. \A i \in 1..n : i # n => FrameOK(c[i], a, k)
    BY <1>4 DEF FrameOK
  <2> QED BY <1>2, <2>1
<1>7. \A i \in 1..n : e[i].node # End => i = n
  BY <1>2, <1>4, <1>5
<1>8. Calls(e, a, k)
  BY <1>2, <1>3, <1>6, <1>7 DEF Calls
<1> QED BY <1>8 DEF e, n

\* A call: the caller has no node in use, unless it is CollectGarbage calling a destructor.
LEMMA CallsPush ==
    ASSUME NEW c \in Seq(Frame), c # <<>>, NEW a, NEW d, Calls(c, a, d), NEW f \in Frame,
           FrameOK(f, a, d), f.next = End, c[Len(c)].fn # "Dtor",
           c[Len(c)].node = End \/ (f.fn = "Dtor" /\ c[Len(c)].fn = "Collect")
    PROVE  /\ Calls(Append(c, f), a, d)
           /\ Append(c, f) \in Seq(Frame) /\ Append(c, f) # <<>> /\ Append(c, f)[Len(Append(c, f))] = f
           /\ \A t \in Task : Pins(Append(c, f), t) = Pins(c, t)
<1> DEFINE n == Len(c)
           e == Append(c, f)
<1>1. n \in Nat /\ n >= 1 /\ DOMAIN c = 1..n
  BY EmptySeq, LenProperties
<1>2. e \in Seq(Frame) /\ Len(e) = n + 1 /\ e[n+1] = f /\ \A i \in 1..n : e[i] = c[i]
  BY <1>1, AppendProperties
<1>3. DOMAIN e = 1..(n+1) /\ e # <<>>
  BY <1>1, <1>2, LenProperties, EmptySeq
<1> HIDE DEF e, n
<1>4. \A i \in 1..(n+1) : i \in 1..n \/ i = n + 1
  BY <1>1
<1>5. /\ c[n].fn # "Dtor" /\ (c[n].node = End \/ (f.fn = "Dtor" /\ c[n].fn = "Collect"))
      /\ \A i \in 1..n : FrameOK(c[i], a, d) /\ (c[i].node # End => i = n)
  BY <1>1 DEF Calls, n
<1>6. \A i \in 1..(n+1) : FrameOK(e[i], a, d)
  BY <1>2, <1>4, <1>5
<1>7. ASSUME NEW i \in 1..(n+1), e[i].node # End
      PROVE  i = n + 1 \/ (i = (n + 1) - 1 /\ e[n+1].fn = "Dtor" /\ e[i].fn = "Collect")
  <2>1. CASE i \in 1..n
    <3>1. i = n /\ f.fn = "Dtor" /\ e[i].fn = "Collect"
      BY <1>2, <1>5, <1>7, <2>1
    <3> QED BY <3>1, <1>1, <1>2
  <2> QED BY <2>1, <1>4
<1>8. Calls(e, a, d)
  BY <1>2, <1>3, <1>6, <1>7 DEF Calls
<1>9. ASSUME NEW t \in Task PROVE Pins(e, t) = Pins(c, t)
  <2>1. t # End
    BY TaskAssumption
  <2>2. \A i : i \in Pins(e, t) <=> i \in Pins(c, t)
    <3>1. \A i : i \in Pins(e, t) <=> i \in 1..(n+1) /\ e[i].next = t
      BY <1>3 DEF Pins
    <3>2. \A i : i \in Pins(c, t) <=> i \in 1..n /\ c[i].next = t
      BY <1>1 DEF Pins
    <3>3. 1..n \subseteq 1..(n+1)
      BY <1>1
    <3> QED BY <1>2, <1>4, <2>1, <3>1, <3>2, <3>3
  <2> QED BY <2>2
<1> QED BY <1>2, <1>3, <1>8, <1>9 DEF e

\* A return, of a function that has let go of its next.
LEMMA CallsPop ==
    ASSUME NEW c \in Seq(Frame), Len(c) > 1, NEW a, NEW d, Calls(c, a, d), c[Len(c)].next = End
    PROVE  LET e == SubSeq(c, 1, Len(c) - 1)
           IN  /\ Calls(e, a, d) /\ e \in Seq(Frame) /\ e # <<>>
               /\ e[Len(e)] = c[Len(c) - 1]
               /\ \A i \in DOMAIN e : i \in DOMAIN c /\ i # Len(c) /\ e[i] = c[i]
               /\ \A t \in Task : Pins(e, t) = Pins(c, t)
<1> DEFINE n == Len(c)
           e == SubSeq(c, 1, n - 1)
<1>1. n \in Nat /\ n > 1 /\ DOMAIN c = 1..n
  BY LenProperties
<1>2. \A i \in 1..(n-1) : c[i] \in Frame
  BY <1>1, ElementOfSeq
<1>3. n - 1 \in Int /\ 1 \in Int
  BY <1>1
<1>4. e \in Seq(Frame) /\ Len(e) = n - 1 /\ \A i \in 1..(n-1) : e[i] = c[i]
  BY <1>1, <1>2, <1>3, SubSeqProperties
<1> HIDE DEF e
<1>5. DOMAIN e = 1..(n-1) /\ e # <<>>
  BY <1>1, <1>4, LenProperties, EmptySeq
<1>6. \A i \in 1..n : FrameOK(c[i], a, d) /\ (c[i].node # End => i = n \/ i = n - 1)
  BY <1>1 DEF Calls
<1> HIDE DEF n
<1>7. Calls(e, a, d)
  <2>1. \A i \in 1..(n-1) : i \in 1..n /\ i # n
    BY <1>1
  <2> QED BY <1>4, <1>5, <1>6, <2>1 DEF Calls
<1>8. e[Len(e)] = c[n-1] /\ \A i \in DOMAIN e : i \in DOMAIN c /\ i # n /\ e[i] = c[i]
  BY <1>1, <1>4, <1>5
<1>9. ASSUME NEW t \in Task PROVE Pins(e, t) = Pins(c, t)
  <2>1. t # End /\ c[n].next = End
    BY TaskAssumption DEF n
  <2>2. \A i \in 1..n : i \in 1..(n-1) \/ i = n
    BY <1>1
  <2>3. 1..(n-1) \subseteq 1..n
    BY <1>1
  <2>4. \A i : i \in Pins(e, t) <=> i \in 1..(n-1) /\ e[i].next = t
    BY <1>5 DEF Pins
  <2>5. \A i : i \in Pins(c, t) <=> i \in 1..n /\ c[i].next = t
    BY <1>1 DEF Pins
  <2>6. \A i : i \in Pins(e, t) <=> i \in Pins(c, t)
    <3>1. ASSUME NEW i \in 1..(n-1) PROVE e[i].next = t <=> c[i].next = t
      BY <1>4
    <3>2. ~(c[n].next = t)
      BY <2>1
    <3>3. \A i : i \in 1..(n-1) /\ e[i].next = t <=> i \in 1..n /\ c[i].next = t
      BY <3>1, <3>2, <2>2, <2>3, Zenon
    <3> QED BY <3>3, <2>4, <2>5, Zenon
  <2> QED BY <2>6
<1> QED BY <1>4, <1>5, <1>7, <1>8, <1>9 DEF e, n

-----------------------------------------------------------------------------
(* The actions. *)

LEMMA RFacts ==
    ASSUME IInv, RInv
    PROVE  /\ ctl \in Seq(Frame) /\ ctl # <<>> /\ Len(ctl) \in DOMAIN ctl /\ Top = ctl[Len(ctl)]
           /\ Top \in Frame /\ FrameOK(Top, all, deleted) /\ Stack(ctl, running)
           /\ all \subseteq Task /\ End \notin Task
<1>1. ctl \in Seq(Frame) /\ ctl # <<>> /\ Len(ctl) \in DOMAIN ctl /\ Stack(ctl, running)
  BY EmptySeq, LenProperties DEF IInv, TypeOK
<1>2. Top \in Frame /\ Top = ctl[Len(ctl)]
  BY TopFacts
<1> QED BY <1>1, <1>2, TaskAssumption DEF RInv, Calls, IInv, TypeOK

\* The head of a list and what follows one of its members are on it.
LEMMA ListMembers ==
    ASSUME NEW q \in Seq(Task)
    PROVE  /\ First(q) = End \/ Listed(q, First(q))
           /\ \A t : Listed(q, t) => NextOf(q, t) = End \/ Listed(q, NextOf(q, t))
           /\ \A t : Listed(q, t) /\ IsInjective(q) => NextOf(q, t) # t
<1>1. Len(q) \in Nat /\ DOMAIN q = 1..Len(q) /\ \A i \in 1..Len(q) : q[i] \in Task
  BY LenProperties, ElementOfSeq
<1>2. First(q) = End \/ Listed(q, First(q))
  BY <1>1, EmptySeq DEF First, Listed
<1>3. ASSUME NEW t, Listed(q, t)
      PROVE  /\ NextOf(q, t) = End \/ Listed(q, NextOf(q, t))
             /\ IsInjective(q) => NextOf(q, t) # t
  <2> DEFINE p == Position(q, t)
  <2>1. p \in 1..Len(q) /\ q[p] = t
    BY <1>1, <1>3 DEF Position, Listed
  <2> HIDE DEF p
  <2>2. CASE p = Len(q)
    BY <1>1, <2>1, <2>2, TaskAssumption DEF NextOf, p
  <2>3. CASE p # Len(q)
    <3>1. p + 1 \in 1..Len(q) /\ NextOf(q, t) = q[p + 1] /\ p # p + 1
      BY <1>1, <2>1, <2>3 DEF NextOf, p
    <3> QED BY <1>1, <2>1, <3>1 DEF Listed, IsInjective
  <2> QED BY <2>2, <2>3
<1> QED BY <1>2, <1>3

\* The objects that walks find on the lists exist.
LEMMA FirstExists ==
    ASSUME IInv, RInv
    PROVE  /\ First(ready) \in all \cup {End} /\ First(new) \in all \cup {End}
           /\ First(deleted) \in all \cup {End}
           /\ First(deleted) = End \/ Listed(deleted, First(deleted))
           /\ \A t : Listed(ready, t) => t \in all /\ NextOf(ready, t) \in all \cup {End}
           /\ \A t : Listed(new, t) => t \in all /\ NextOf(new, t) \in all \cup {End}
           /\ \A t : Listed(deleted, t) => t \in all /\ deleting[t] /\ NextOf(deleted, t) \in all \cup {End}
<1>1. ready \in Seq(Task) /\ new \in Seq(Task) /\ deleted \in Seq(Task)
  BY DEF IInv, TypeOK
<1>2. \A t \in Task : /\ Listed(ready, t) \/ Listed(new, t) => t \in all
                      /\ Listed(deleted, t) => t \in all /\ deleting[t]
  BY DEF IInv, ListsOK, RInv, Garbage
<1> QED BY <1>1, <1>2, ListMembers, ListTypes

\* The function that is running goes on with frame f.
LEMMA StepTop ==
    ASSUME IInv, RInv, NEW f \in Frame, f.fn = Top.fn, f.fn # "Dtor", FrameOK(f, all, deleted)
    PROVE  /\ Calls(SetTop(f), all, deleted)
           /\ SetTop(f) \in Seq(Frame) /\ SetTop(f) # <<>> /\ SetTop(f)[Len(SetTop(f))] = f
           /\ f.next = Top.next => \A t \in Task : Pins(SetTop(f), t) = Pins(ctl, t)
<1>1. ctl \in Seq(Frame) /\ ctl # <<>> /\ Top = ctl[Len(ctl)] /\ Len(ctl) \in DOMAIN ctl
  BY RFacts
<1>2. SetTop(f) = [ctl EXCEPT ![Len(ctl)] = f]
  BY DEF SetTop
<1>3. Calls(SetTop(f), all, deleted)
  <2>1. Calls(ctl, all, deleted) /\ f.fn = ctl[Len(ctl)].fn
    BY <1>1 DEF RInv
  <2>2. Calls([ctl EXCEPT ![Len(ctl)] = f], all, deleted)
    BY <1>1, <2>1, CallsTop
  <2> QED BY <1>2, <2>2
<1>4. /\ SetTop(f) \in Seq(Frame) /\ Len(SetTop(f)) = Len(ctl)
      /\ SetTop(f)[Len(ctl)] = f
  BY <1>1, <1>2, ExceptSeq, LenProperties
<1>5. SetTop(f) # <<>>
  BY <1>1, <1>4, EmptySeq, LenProperties
<1>6. f.next = Top.next => \A t \in Task : Pins(SetTop(f), t) = Pins(ctl, t)
  <2>1. \A t : (f.next = t <=> Top.next = t) => Pins([ctl EXCEPT ![Len(ctl)] = f], t) = Pins(ctl, t)
    BY <1>1, PinsTop, Zenon
  <2> QED BY <1>2, <2>1, Zenon
<1>7. SetTop(f)[Len(SetTop(f))] = f
  BY <1>4, Zenon
<1> QED BY <1>3, <1>4, <1>5, <1>6, <1>7, Zenon

\* An operation of a body: no pointer of the frame changes.
LEMMA StepWorked ==
    ASSUME IInv, RInv, Working
    PROVE  /\ Calls(SetTop(Worked), all, deleted)
           /\ SetTop(Worked) \in Seq(Frame) /\ SetTop(Worked) # <<>>
           /\ SetTop(Worked)[Len(SetTop(Worked))] = Worked
           /\ Worked.fn \in {"Do", "Roll"} /\ Worked.node = End /\ Worked.next = End
           /\ \A t \in Task : Pins(SetTop(Worked), t) = Pins(ctl, t)
           /\ Self \in all
<1>1. Top \in Frame /\ FrameOK(Top, all, deleted) /\ Top.fn \in {"Do", "Roll"} /\ Top.left > 0
  BY RFacts DEF Working, InBody
<1>2. Worked \in Frame /\ Worked.fn = Top.fn /\ Worked.task = Top.task
  BY <1>1, WorkedFacts
<1>3. Worked.node = Top.node /\ Worked.next = Top.next /\ Worked.pc = Top.pc
  BY <1>1 DEF Worked, Frame
<1>4. FrameOK(Worked, all, deleted) /\ Worked.node = End /\ Worked.next = End
  BY <1>1, <1>2, <1>3 DEF FrameOK
<1>5. Self \in all
  BY <1>1 DEF FrameOK, Self
<1> QED BY <1>1, <1>2, <1>3, <1>4, <1>5, StepTop

LEMMA KeepExact ==
    ASSUME IInv, RInv, all' = all, UNCHANGED <<ref_count, holds>>,
           \A t \in Task : Pins(ctl', t) = Pins(ctl, t)
    PROVE  Exact'
<1>1. all \subseteq Task
  BY RFacts
<1>2. \A t : Pins(ctl, t)' = Pins(ctl', t) /\ Refs(holds, t)' = Refs(holds, t)
  BY DEF Pins, Refs
<1> QED BY <1>1, <1>2 DEF Exact, RInv

\* The parts of RInv after a step, told by the new values of the variables.
LEMMA Conclude ==
    ASSUME Garbage', Dying', Held', Exact', Calls(ctl', all', deleted')
    PROVE  RInv'
BY DEF RInv, Calls, FrameOK, Listed

\* What remains to be shown of a step that neither creates nor dooms an object.
LEMMA KeepR ==
    ASSUME IInv, RInv, UNCHANGED <<all, deleted, deleting, holds>>,
           Calls(ctl', all, deleted), ctl'[Len(ctl')].fn # "Dtor", Exact'
    PROVE  RInv'
<1>1. \A t : Listed(deleted, t)' <=> Listed(deleted, t)
  BY DEF Listed
<1>2. Garbage'
  BY <1>1 DEF Garbage, RInv
<1>3. Dying'
  BY DEF Dying, Top
<1>4. Held' /\ Calls(ctl', all', deleted')
  BY DEF Held, RInv
<1> QED BY <1>2, <1>3, <1>4, Conclude

\* A walk that calls another.
LEMMA CallWalk ==
    ASSUME NEW c \in Seq(Frame), c # <<>>, Calls(c, all, deleted), NEW f \in Frame,
           c[Len(c)].node = End, c[Len(c)].fn # "Dtor",
           f.fn \in {"Schedule", "ScheduleNew", "Collect"}, FrameOK(f, all, deleted), f.next = End
    PROVE  /\ Calls(Append(c, f), all, deleted)
           /\ Append(c, f) \in Seq(Frame) /\ Append(c, f) # <<>>
           /\ Append(c, f)[Len(Append(c, f))] = f
           /\ \A t \in Task : Pins(Append(c, f), t) = Pins(c, t)
BY CallsPush

\* A walk at its beginning.
LEMMA WalkOK ==
    ASSUME NEW fn \in {"Schedule", "ScheduleNew", "Collect"}, NEW t \in all \cup {End}, all \subseteq Task,
           fn = "Collect" => t = End \/ Listed(deleted, t)
    PROVE  /\ Walk(fn, t) \in Frame /\ Walk(fn, t).fn = fn /\ Walk(fn, t).next = End /\ Walk(fn, t).node = t
           /\ FrameOK(Walk(fn, t), all, deleted)
<1>1. Walk(fn, t) \in Frame
  BY TaskAssumption DEF Walk, Frame
<1> QED BY <1>1 DEF Walk, FrameOK

LEMMA RCallSchedule == ASSUME IInv, RInv, CallSchedule PROVE RInv'
<1> DEFINE f == IF Len(ctl) = 1 THEN Top ELSE Worked
           v == [Walk("Schedule", End) EXCEPT !.pc = "start"]
           w == Walk("ScheduleNew", First(new))
           b == SetTop(f)
           c == Append(b, v)
<1>1. Top \in Frame /\ FrameOK(Top, all, deleted) /\ all \subseteq Task /\ Top.fn \in {"Do", "Roll"}
  BY RFacts DEF CallSchedule, InBody
<1>2. /\ f \in Frame /\ f.fn = Top.fn /\ f.task = Top.task
      /\ f.node = End /\ f.next = Top.next /\ FrameOK(f, all, deleted)
  <2>1. Top.node = End /\ Top.next = End
    BY <1>1 DEF FrameOK
  <2>2. CASE Len(ctl) = 1
    BY <1>1, <2>1, <2>2
  <2>3. CASE Len(ctl) # 1
    <3>1. Top.left > 0 /\ Working
      BY <2>3 DEF CallSchedule, Working
    <3>2. Worked \in Frame /\ Worked.fn = Top.fn /\ Worked.task = Top.task
      BY <1>1, <3>1, WorkedFacts
    <3>3. Worked.node = Top.node /\ Worked.next = Top.next /\ Worked.pc = Top.pc
      BY <1>1 DEF Worked, Frame
    <3>4. FrameOK(Worked, all, deleted)
      BY <1>1, <3>2, <3>3 DEF FrameOK
    <3> QED BY <2>1, <2>3, <3>2, <3>3, <3>4
  <2> QED BY <2>2, <2>3
<1>3. v \in Frame /\ v.fn = "Schedule" /\ v.node = End /\ v.next = End /\ FrameOK(v, all, deleted)
  <2>1. Walk("Schedule", End) \in Frame
    BY TaskAssumption DEF Walk, Frame
  <2>2. v \in Frame
    BY <2>1 DEF Frame
  <2>3. v.fn = "Schedule" /\ v.task = End /\ v.node = End /\ v.next = End /\ v.pc = "start"
    BY DEF Walk
  <2> HIDE DEF v
  <2> QED BY <2>2, <2>3 DEF FrameOK
<1>4. w \in Frame /\ w.fn = "ScheduleNew" /\ w.next = End /\ FrameOK(w, all, deleted)
  BY <1>1, FirstExists, WalkOK
<1>5. ctl' = Append(c, w) /\ UNCHANGED <<all, lists, flags, counts, idle>>
  BY DEF CallSchedule
<1> HIDE DEF f, v, w
<1>6. /\ Calls(b, all, deleted) /\ b \in Seq(Frame) /\ b # <<>> /\ b[Len(b)] = f
      /\ \A t \in Task : Pins(b, t) = Pins(ctl, t)
  BY <1>1, <1>2, StepTop
<1> HIDE DEF b
<1>7. /\ Calls(c, all, deleted) /\ c \in Seq(Frame) /\ c # <<>> /\ c[Len(c)] = v
      /\ \A t \in Task : Pins(c, t) = Pins(ctl, t)
  BY <1>1, <1>2, <1>3, <1>6, CallWalk
<1> HIDE DEF c
<1>8. /\ Calls(ctl', all, deleted) /\ ctl'[Len(ctl')] = w
      /\ \A t \in Task : Pins(ctl', t) = Pins(ctl, t)
  BY <1>3, <1>4, <1>5, <1>7, CallWalk
<1>9. Exact'
  BY <1>5, <1>8, KeepExact DEF counts
<1> QED BY <1>4, <1>5, <1>8, <1>9, KeepR DEF lists, flags, counts

\* A walk calls the next one, or goes to its first node.
LEMMA RWalkCalls == ASSUME IInv, RInv, ScheduleStart \/ ScheduleRan \/ ScheduleCollect PROVE RInv'
<1>1. /\ Top \in Frame /\ FrameOK(Top, all, deleted) /\ all \subseteq Task
      /\ Top.fn = "Schedule" /\ UNCHANGED <<all, lists, flags, counts, idle>>
  BY RFacts DEF ScheduleStart, ScheduleRan, ScheduleCollect
<1>2. ASSUME NEW f \in Frame, f.fn = "Schedule", FrameOK(f, all, deleted), f.node = End, f.next = Top.next,
             NEW w \in Frame, w.fn \in {"ScheduleNew", "Collect"}, FrameOK(w, all, deleted), w.next = End,
             ctl' = Append(SetTop(f), w)
      PROVE  RInv'
  <2> DEFINE b == SetTop(f)
  <2>1. /\ Calls(b, all, deleted) /\ b \in Seq(Frame) /\ b # <<>> /\ b[Len(b)] = f
        /\ \A t \in Task : Pins(b, t) = Pins(ctl, t)
    BY <1>1, <1>2, StepTop
  <2>2. ctl' = Append(b, w)
    BY <1>2
  <2> HIDE DEF b
  <2>3. /\ Calls(ctl', all, deleted) /\ ctl'[Len(ctl')] = w
        /\ \A t \in Task : Pins(ctl', t) = Pins(ctl, t)
    BY <1>2, <2>1, <2>2, CallWalk
  <2>4. Exact'
    BY <1>1, <2>3, KeepExact DEF counts
  <2> QED BY <1>1, <1>2, <2>3, <2>4, KeepR DEF lists, flags, counts
<1>3. CASE ScheduleStart
  <2> DEFINE f == [Top EXCEPT !.pc = "loop", !.node = First(ready)]
  <2>1. f \in Frame /\ f.fn = "Schedule" /\ f.next = Top.next /\ f.next = End /\ FrameOK(f, all, deleted)
    <3>1. First(ready) \in all \cup {End}
      BY FirstExists
    <3>2. /\ f \in Frame /\ f.fn = Top.fn /\ f.task = Top.task
          /\ f.next = Top.next /\ f.pc = "loop" /\ f.node = First(ready)
      BY <1>1, <3>1 DEF Frame
    <3>3. Top.next = End
      BY <1>1, <1>3 DEF ScheduleStart, FrameOK
    <3> QED BY <1>1, <3>1, <3>2, <3>3 DEF FrameOK
  <2>2. ctl' = SetTop(f)
    BY <1>3 DEF ScheduleStart
  <2> HIDE DEF f
  <2>3. /\ Calls(ctl', all, deleted) /\ ctl'[Len(ctl')] = f
        /\ \A t \in Task : Pins(ctl', t) = Pins(ctl, t)
    BY <1>1, <2>1, <2>2, StepTop
  <2>4. Exact'
    BY <1>1, <2>3, KeepExact DEF counts
  <2> QED BY <1>1, <2>1, <2>3, <2>4, KeepR DEF lists, flags, counts
<1>4. CASE ScheduleRan
  <2> DEFINE f == [Top EXCEPT !.pc = "after"]
             w == Walk("ScheduleNew", First(new))
  <2>1. /\ f \in Frame /\ f.fn = Top.fn /\ f.task = Top.task
        /\ f.next = Top.next /\ f.pc = "after" /\ f.node = Top.node
    BY <1>1 DEF Frame
  <2>2. f.node = End /\ FrameOK(f, all, deleted)
    BY <1>1, <1>4, <2>1 DEF ScheduleRan, FrameOK
  <2>3. w \in Frame /\ w.fn = "ScheduleNew" /\ FrameOK(w, all, deleted) /\ w.next = End
    BY <1>1, FirstExists, WalkOK
  <2>4. ctl' = Append(SetTop(f), w)
    BY <1>4 DEF ScheduleRan
  <2> HIDE DEF f, w
  <2> QED BY <1>1, <1>2, <2>1, <2>2, <2>3, <2>4
<1>5. CASE ScheduleCollect
  <2> DEFINE f == [Top EXCEPT !.pc = "return"]
             w == Walk("Collect", First(deleted))
  <2>1. /\ f \in Frame /\ f.fn = Top.fn /\ f.task = Top.task
        /\ f.next = Top.next /\ f.pc = "return" /\ f.node = Top.node
    BY <1>1 DEF Frame
  <2>2. f.node = End /\ FrameOK(f, all, deleted)
    BY <1>1, <1>5, <2>1 DEF ScheduleCollect, FrameOK
  <2>3. w \in Frame /\ w.fn = "Collect" /\ FrameOK(w, all, deleted) /\ w.next = End
    BY <1>1, FirstExists, WalkOK
  <2>4. ctl' = Append(SetTop(f), w)
    BY <1>5 DEF ScheduleCollect
  <2> HIDE DEF f, w
  <2> QED BY <1>1, <1>2, <2>1, <2>2, <2>3, <2>4
<1> QED BY <1>3, <1>4, <1>5

\* The step to the next node takes its pin away.
LEMMA RAdvance == ASSUME IInv, RInv, Advance PROVE RInv'
<1> DEFINE u == Top.next
           f == [Top EXCEPT !.pc = "loop", !.node = u, !.next = End]
<1>1. /\ Top \in Frame /\ FrameOK(Top, all, deleted) /\ all \subseteq Task /\ End \notin Task
      /\ Top.fn \in {"Schedule", "ScheduleNew"} /\ Top = ctl[Len(ctl)] /\ ctl \in Seq(Frame) /\ ctl # <<>>
  BY RFacts DEF Advance
<1>2. /\ ctl' = SetTop(f) /\ ref_count' = Unpin(u)
      /\ UNCHANGED <<all, lists, flags, running, holds, idle>>
  BY DEF Advance
<1>3. f \in Frame /\ f.fn = Top.fn /\ f.task = Top.task /\ f.next = End /\ f.pc = "loop" /\ f.node = u
  BY <1>1, TaskAssumption DEF Frame
<1>4. FrameOK(f, all, deleted)
  BY <1>1, <1>3 DEF FrameOK
<1>5. u \in all \cup {End}
  BY <1>1 DEF FrameOK
<1> HIDE DEF f
<1>6. Calls(ctl', all, deleted) /\ ctl'[Len(ctl')] = f
  BY <1>1, <1>2, <1>3, <1>4, StepTop
<1>7. ASSUME NEW t \in all
      PROVE  ref_count'[t] = Cardinality(Refs(holds, t)) + Cardinality(Pins(ctl', t))
  <2>1. ref_count[t] = Cardinality(Refs(holds, t)) + Cardinality(Pins(ctl, t)) /\ t \in Task /\ t # End
    BY <1>1 DEF RInv, Exact
  <2>2. Cardinality(Refs(holds, t)) \in Nat /\ Cardinality(Pins(ctl, t)) \in Nat
    BY <1>1, RefsFinite, PinsFinite DEF RInv, Held
  <2>3. CASE t = u
    <3>1. Cardinality(Pins(ctl', t)) = Cardinality(Pins(ctl, t)) - 1 /\ Cardinality(Pins(ctl, t)) > 0
      BY <1>1, <1>2, <1>3, <2>1, <2>3, PinsTop DEF SetTop
    <3>2. ref_count[t] # 0
      BY <2>1, <2>2, <3>1
    <3>3. ref_count'[t] = ref_count[t] - 1
      BY <1>2, <2>1, <2>3, <3>2 DEF Unpin, IInv, TypeOK
    <3> QED BY <2>1, <2>2, <3>1, <3>3
  <2>4. CASE t # u
    <3>1. Pins(ctl', t) = Pins(ctl, t)
      BY <1>1, <1>2, <1>3, <2>1, <2>4, PinsTop DEF SetTop
    <3>2. ref_count'[t] = ref_count[t]
      BY <1>2, <2>1, <2>4 DEF Unpin, IInv, TypeOK
    <3> QED BY <2>1, <3>1, <3>2
  <2> QED BY <2>3, <2>4
<1>8. Exact'
  BY <1>2, <1>7 DEF Exact, Pins, Refs
<1> QED BY <1>1, <1>2, <1>3, <1>6, <1>8, KeepR DEF lists, flags

\* The stack after a return to it: the value returned and the budget of a new round change
\* no pointer.
LEMMA ReturnCalls ==
    ASSUME NEW c \in Seq(Frame), c # <<>>, Calls(c, all, deleted), c[Len(c)].fn # "Dtor", NEW f \in Frame,
           \E m \in BOOLEAN : f = [c[Len(c)] EXCEPT !.res = m] \/ f = [c[Len(c)] EXCEPT !.left = MaxWork]
    PROVE  LET e == [c EXCEPT ![Len(c)] = f]
           IN  /\ Calls(e, all, deleted) /\ e[Len(e)].fn # "Dtor"
               /\ \A t \in Task : Pins(e, t) = Pins(c, t)
<1> DEFINE g == c[Len(c)]
           e == [c EXCEPT ![Len(c)] = f]
<1>1. Len(c) \in DOMAIN c /\ DOMAIN c = 1..Len(c)
  BY EmptySeq, LenProperties
<1>2. g \in Frame /\ FrameOK(g, all, deleted)
  BY <1>1, ElementOfSeq DEF Calls
<1>3. f.fn = g.fn /\ f.task = g.task /\ f.node = g.node /\ f.next = g.next /\ f.pc = g.pc
  BY <1>2 DEF Frame
<1>4. FrameOK(f, all, deleted)
  BY <1>2, <1>3 DEF FrameOK
<1>5. Calls(e, all, deleted)
  BY <1>3, <1>4, CallsTop
<1>6. e \in Seq(Frame) /\ Len(e) = Len(c) /\ e[Len(c)] = f
  BY <1>1, ExceptSeq
<1>7. \A t \in Task : Pins(e, t) = Pins(c, t)
  BY <1>3, PinsTop
<1> QED BY <1>3, <1>5, <1>6, <1>7

LEMMA ReturnToCalls ==
    ASSUME NEW c \in Seq(Frame), c # <<>>, Calls(c, all, deleted), c[Len(c)].fn # "Dtor", NEW m
    PROVE  /\ Calls(ReturnTo(c, m), all, deleted) /\ ReturnTo(c, m)[Len(ReturnTo(c, m))].fn # "Dtor"
           /\ \A t \in Task : Pins(ReturnTo(c, m), t) = Pins(c, t)
<1> DEFINE g == c[Len(c)]
           f == [g EXCEPT !.res = TRUE]
<1>1. g \in Frame
  BY EmptySeq, LenProperties, ElementOfSeq
<1>2. f \in Frame
  BY <1>1 DEF Frame
<1>3. ReturnTo(c, m) = [c EXCEPT ![Len(c)] = f] \/ ReturnTo(c, m) = c
  BY DEF ReturnTo
<1>4. \E k \in BOOLEAN : f = [g EXCEPT !.res = k] \/ f = [g EXCEPT !.left = MaxWork]
  OBVIOUS
<1> HIDE DEF f
<1>5. CASE ReturnTo(c, m) = [c EXCEPT ![Len(c)] = f]
  <2> DEFINE e == [c EXCEPT ![Len(c)] = f]
  <2>1. Calls(e, all, deleted) /\ e[Len(e)].fn # "Dtor" /\ \A t \in Task : Pins(e, t) = Pins(c, t)
    BY <1>2, <1>4, ReturnCalls
  <2>2. ReturnTo(c, m) = e
    BY <1>5
  <2> HIDE DEF e
  <2> QED BY <2>1, <2>2
<1> QED BY <1>3, <1>5

\* What the caller of a walk or of a Do finds.
LEMMA CallerFacts ==
    ASSUME IInv, RInv, Top.next = End, Len(ctl) > 1
    PROVE  /\ Calls(Caller, all, deleted) /\ Caller \in Seq(Frame) /\ Caller # <<>>
           /\ Caller[Len(Caller)].fn # "Dtor"
           /\ \A i \in DOMAIN Caller : i \in DOMAIN ctl /\ i # Len(ctl) /\ Caller[i] = ctl[i]
           /\ \A t \in Task : Pins(Caller, t) = Pins(ctl, t)
<1>1. /\ ctl \in Seq(Frame) /\ Top = ctl[Len(ctl)] /\ Stack(ctl, running) /\ Calls(ctl, all, deleted)
      /\ Len(ctl) \in Nat /\ DOMAIN ctl = 1..Len(ctl)
  BY RFacts, LenProperties DEF RInv
<1>2. /\ Calls(Caller, all, deleted) /\ Caller \in Seq(Frame) /\ Caller # <<>>
      /\ Caller[Len(Caller)] = ctl[Len(ctl) - 1]
      /\ \A i \in DOMAIN Caller : i \in DOMAIN ctl /\ i # Len(ctl) /\ Caller[i] = ctl[i]
      /\ \A t \in Task : Pins(Caller, t) = Pins(ctl, t)
  BY <1>1, CallsPop DEF Caller
<1>3. Len(ctl) - 1 \in 1..Len(ctl) /\ Len(ctl) - 1 # Len(ctl)
  <2>1. \A n \in Nat : n > 1 => n - 1 \in 1..n /\ n - 1 # n
    OBVIOUS
  <2> QED BY <1>1, <2>1
<1>4. ctl[Len(ctl) - 1].fn # "Dtor"
  BY <1>1, <1>3 DEF Stack
<1> QED BY <1>2, <1>4

\* The bottom frame is the main program.
LEMMA NotBottom ==
    ASSUME IInv, RInv, Top.fn # "Do" PROVE Len(ctl) > 1
<1>1. /\ ctl \in Seq(Frame) /\ ctl # <<>> /\ Len(ctl) \in Nat
      /\ Len(ctl) >= 1 /\ Top = ctl[Len(ctl)] /\ Stack(ctl, running)
  BY RFacts, EmptySeq, LenProperties
<1>2. Len(ctl) # 1
  BY <1>1 DEF Stack
<1>3. \A n \in Nat : n >= 1 /\ n # 1 => n > 1
  OBVIOUS
<1> QED BY <1>1, <1>2, <1>3

LEMMA RReturns ==
    ASSUME IInv, RInv, \/ ScheduleReturn \/ ScheduleNewReturn \/ CollectReturn
                       \/ \E m \in BOOLEAN : DoReturn(m)
    PROVE  RInv'
<1>1. Top \in Frame /\ FrameOK(Top, all, deleted)
  BY RFacts
<1>2. Top.next = End /\ Len(ctl) > 1 /\ UNCHANGED <<all, lists, flags, ref_count, holds>>
  <2>1. CASE ScheduleReturn
    BY <1>1, <2>1, NotBottom DEF ScheduleReturn, FrameOK, counts
  <2>2. CASE ScheduleNewReturn
    BY <1>1, <2>2, NotBottom DEF ScheduleNewReturn, FrameOK, counts
  <2>3. CASE CollectReturn
    BY <1>1, <2>3, NotBottom DEF CollectReturn, FrameOK, counts
  <2>4. CASE \E m \in BOOLEAN : DoReturn(m)
    BY <1>1, <2>4 DEF DoReturn, InBody, FrameOK
  <2> QED BY <2>1, <2>2, <2>3, <2>4
<1>3. /\ Calls(Caller, all, deleted) /\ Caller \in Seq(Frame) /\ Caller # <<>>
      /\ Caller[Len(Caller)].fn # "Dtor"
      /\ \A t \in Task : Pins(Caller, t) = Pins(ctl, t)
  BY <1>2, CallerFacts
<1>4. /\ Calls(ctl', all, deleted) /\ ctl'[Len(ctl')].fn # "Dtor"
      /\ \A t \in Task : Pins(ctl', t) = Pins(Caller, t)
  <2>1. CASE ScheduleReturn
    <3>1. CASE Len(Caller) = 1
      <4> DEFINE f == [Caller[1] EXCEPT !.left = MaxWork]
      <4>1. Caller[1] \in Frame
        BY <1>3, <3>1, LenProperties, ElementOfSeq
      <4>2. f \in Frame
        BY <4>1, TaskAssumption DEF Frame
      <4>3. <<f>> = [Caller EXCEPT ![1] = f]
        <5>1. /\ [Caller EXCEPT ![1] = f] \in Seq(Frame) /\ Len([Caller EXCEPT ![1] = f]) = 1
              /\ [Caller EXCEPT ![1] = f][1] = f
          BY <1>3, <3>1, <4>2, ExceptSeq, LenProperties
        <5> QED BY <4>2, <5>1, SeqEqual
      <4>4. ctl' = [Caller EXCEPT ![Len(Caller)] = f]
        BY <2>1, <3>1, <4>3 DEF ScheduleReturn
      <4>5. \E m \in BOOLEAN : \/ f = [Caller[Len(Caller)] EXCEPT !.res = m]
                               \/ f = [Caller[Len(Caller)] EXCEPT !.left = MaxWork]
        BY <3>1
      <4> HIDE DEF f
      <4> QED BY <1>3, <4>2, <4>4, <4>5, ReturnCalls
    <3>2. CASE Len(Caller) # 1
      BY <1>3, <2>1, <3>2 DEF ScheduleReturn
    <3> QED BY <3>1, <3>2
  <2>2. CASE ScheduleNewReturn
    BY <1>3, <2>2, ReturnToCalls DEF ScheduleNewReturn
  <2>3. CASE CollectReturn
    BY <1>3, <2>3 DEF CollectReturn
  <2>4. CASE \E m \in BOOLEAN : DoReturn(m)
    BY <1>3, <2>4, ReturnToCalls DEF DoReturn
  <2> QED BY <2>1, <2>2, <2>3, <2>4
<1>5. Exact'
  BY <1>2, <1>3, <1>4, KeepExact
<1> QED BY <1>2, <1>4, <1>5, KeepR DEF lists, flags

\* Nothing that RInv is about changes.
LEMMA RStutters == ASSUME IInv, RInv, Wakeup \/ UNCHANGED vars PROVE RInv'
<1>1. UNCHANGED <<all, deleted, deleting, holds, ref_count, ctl>>
  BY DEF Wakeup, vars, lists, flags, counts
<1>2. \A t : Listed(deleted, t)' <=> Listed(deleted, t)
  BY <1>1 DEF Listed
<1>3. Garbage' /\ Dying' /\ Held'
  BY <1>1, <1>2 DEF RInv, Garbage, Dying, Held, Top, Self
<1>4. Exact'
  BY <1>1, KeepExact
<1>5. Calls(ctl', all', deleted')
  BY <1>1 DEF RInv
<1> QED BY <1>3, <1>4, <1>5, Conclude

\* ScheduleThis: the pin on next is taken before the task is entered.
LEMMA RScheduleThis ==
    ASSUME IInv, RInv, NEW t \in all, NEW u \in all \cup {End}, NEW f \in Frame, NEW q,
           Top.fn \in {"Schedule", "ScheduleNew"}, Top.next = End, f.fn = Top.fn, f.task = Top.task,
           f.node = End, f.next = u, f.pc \in {"ran", "after"},
           ScheduleThis(t, f, q, Pin(u)), UNCHANGED <<all, deleted, flags, holds>>
    PROVE  RInv'
<1> DEFINE c == SetTop(f)
           b == Body("Do", t)
<1>1. /\ Top \in Frame /\ FrameOK(Top, all, deleted) /\ all \subseteq Task /\ End \notin Task
      /\ Top = ctl[Len(ctl)] /\ ctl \in Seq(Frame) /\ ctl # <<>>
  BY RFacts
<1>2. FrameOK(f, all, deleted)
  BY <1>1 DEF FrameOK
<1>3. Calls(c, all, deleted) /\ c \in Seq(Frame) /\ c # <<>> /\ c[Len(c)] = f
  BY <1>2, StepTop
<1>4. b \in Frame /\ b.next = End /\ b.fn = "Do" /\ FrameOK(b, all, deleted)
  BY <1>1, TaskAssumption DEF Body, Frame, FrameOK
<1>5. ref_count' = Pin(u) /\ (ctl' = c \/ ctl' = Append(c, b))
  BY DEF ScheduleThis, EnterBody
<1> HIDE DEF b, c
<1>6. /\ Calls(ctl', all, deleted) /\ ctl'[Len(ctl')].fn # "Dtor"
      /\ \A x \in Task : Pins(ctl', x) = Pins(c, x)
  <2>1. CASE ctl' = c
    BY <1>3, <2>1
  <2>2. CASE ctl' = Append(c, b)
    BY <1>3, <1>4, <2>2, CallsPush
  <2> QED BY <1>5, <2>1, <2>2
<1>7. ASSUME NEW x \in all
      PROVE  ref_count'[x] = Cardinality(Refs(holds, x)) + Cardinality(Pins(ctl', x))
  <2>1. ref_count[x] = Cardinality(Refs(holds, x)) + Cardinality(Pins(ctl, x)) /\ x \in Task /\ x # End
    BY <1>1 DEF RInv, Exact
  <2>2. Cardinality(Refs(holds, x)) \in Nat /\ Cardinality(Pins(ctl, x)) \in Nat
    BY <1>1, RefsFinite, PinsFinite DEF RInv, Held
  <2>3. Pins(ctl', x) = Pins(c, x)
    BY <1>6, <2>1
  <2>4. CASE x = u
    <3>1. Cardinality(Pins(c, x)) = Cardinality(Pins(ctl, x)) + 1
      BY <1>1, <2>1, <2>4, PinsTop DEF SetTop, c
    <3>2. ref_count'[x] = ref_count[x] + 1
      BY <1>5, <2>1, <2>4 DEF Pin, IInv, TypeOK
    <3> QED BY <2>1, <2>2, <2>3, <3>1, <3>2
  <2>5. CASE x # u
    <3>1. Pins(c, x) = Pins(ctl, x)
      BY <1>1, <2>1, <2>5, PinsTop DEF SetTop, c
    <3>2. ref_count'[x] = ref_count[x]
      BY <1>5, <2>1, <2>5 DEF Pin, IInv, TypeOK
    <3> QED BY <2>1, <2>3, <3>1, <3>2
  <2> QED BY <2>4, <2>5
<1>8. Exact'
  BY <1>7 DEF Exact, Pins, Refs
<1> QED BY <1>6, <1>8, KeepR DEF flags

LEMMA RLoops == ASSUME IInv, RInv, ScheduleLoop \/ ScheduleNewLoop PROVE RInv'
<1>1. Top \in Frame /\ FrameOK(Top, all, deleted)
  BY RFacts
<1>2. CASE ScheduleLoop
  <2> DEFINE t == Top.node
             u == NextOf(ready, t)
             f == [Top EXCEPT !.pc = "ran", !.node = End, !.next = u]
  <2>1. /\ Top.fn = "Schedule" /\ Top.pc = "loop" /\ Listed(ready, t)
        /\ ScheduleThis(t, f, ready, Pin(u)) /\ UNCHANGED <<all, new, deleted, flags, holds, idle>>
    BY <1>2 DEF ScheduleLoop
  <2>2. t \in all /\ u \in all \cup {End}
    BY <2>1, FirstExists
  <2>3. Top.next = End
    BY <1>1, <2>1 DEF FrameOK
  <2>4. f \in Frame /\ f.fn = Top.fn /\ f.task = Top.task /\ f.node = End /\ f.next = u /\ f.pc = "ran"
    BY <1>1, <2>2, RFacts DEF Frame
  <2> HIDE DEF f, t, u
  <2> QED BY <2>1, <2>2, <2>3, <2>4, RScheduleThis
<1>3. CASE ScheduleNewLoop
  <2> DEFINE t == Top.node
             u == NextOf(new, t)
             f == [Top EXCEPT !.pc = "after", !.node = End, !.next = u]
             q == <<t>> \o ready
  <2>1. /\ Top.fn = "ScheduleNew" /\ Top.pc = "loop" /\ Listed(new, t)
        /\ ScheduleThis(t, f, q, Pin(u)) /\ UNCHANGED <<all, deleted, flags, holds, idle>>
    BY <1>3 DEF ScheduleNewLoop
  <2>2. t \in all /\ u \in all \cup {End}
    BY <2>1, FirstExists
  <2>3. Top.next = End
    BY <1>1, <2>1 DEF FrameOK
  <2>4. f \in Frame /\ f.fn = Top.fn /\ f.task = Top.task /\ f.node = End /\ f.next = u /\ f.pc = "after"
    BY <1>1, <2>2, RFacts DEF Frame
  <2> HIDE DEF f, t, u, q
  <2> QED BY <2>1, <2>2, <2>3, <2>4, RScheduleThis
<1> QED BY <1>2, <1>3

\* CollectGarbage steps over an object in use, or takes it off the list and destroys it.
LEMMA RCollectLoop == ASSUME IInv, RInv, CollectLoop PROVE RInv'
<1> DEFINE t == Top.node
           f == [Top EXCEPT !.node = NextOf(deleted, t)]
           b == Body("Dtor", t)
           d == Unlink(deleted, t)
<1>1. /\ Top \in Frame /\ FrameOK(Top, all, deleted) /\ all \subseteq Task /\ End \notin Task
      /\ Top = ctl[Len(ctl)] /\ ctl \in Seq(Frame) /\ ctl # <<>> /\ Calls(ctl, all, deleted)
  BY RFacts DEF RInv
<1>2. /\ Top.fn = "Collect" /\ Listed(deleted, t) /\ UNCHANGED <<all, flags, counts>>
      /\ \/ ctl' = SetTop(f) /\ deleted' = deleted
         \/ ~Busy(t) /\ deleted' = d /\ ctl' = Append(SetTop(f), b)
  BY DEF CollectLoop
<1>3. /\ t \in all /\ deleting[t] /\ NextOf(deleted, t) \in all \cup {End} /\ NextOf(deleted, t) # t
      /\ NextOf(deleted, t) = End \/ Listed(deleted, NextOf(deleted, t))
  BY <1>2, FirstExists, ListMembers DEF IInv, TypeOK, RInv, Garbage
<1>4. /\ d \in Seq(Task) /\ IsInjective(d) /\ \A x : Listed(d, x) <=> Listed(deleted, x) /\ x # t
  BY <1>2, UnlinkFacts DEF IInv, TypeOK, RInv, Garbage
<1>5. /\ f \in Frame /\ f.fn = "Collect" /\ f.task = Top.task /\ f.next = Top.next /\ f.pc = Top.pc
      /\ f.node = NextOf(deleted, t)
  BY <1>1, <1>2, <1>3 DEF Frame
<1>6. FrameOK(f, all, deleted) /\ FrameOK(f, all, d)
  BY <1>1, <1>2, <1>3, <1>4, <1>5 DEF FrameOK
<1>7. b \in Frame /\ b.fn = "Dtor" /\ b.next = End /\ b.task = t /\ FrameOK(b, all, d)
  BY <1>1, <1>3, TaskAssumption DEF Body, Frame, FrameOK
<1> HIDE DEF f, b, d, t
<1>8. CASE ctl' = SetTop(f) /\ deleted' = deleted
  <2>1. /\ Calls(ctl', all, deleted) /\ ctl'[Len(ctl')] = f
        /\ \A x \in Task : Pins(ctl', x) = Pins(ctl, x)
    BY <1>2, <1>5, <1>6, <1>8, StepTop
  <2>2. Exact'
    BY <1>2, <2>1, KeepExact DEF counts
  <2> QED BY <1>2, <1>5, <1>8, <2>1, <2>2, KeepR DEF flags, counts
<1>9. CASE ~Busy(t) /\ deleted' = d /\ ctl' = Append(SetTop(f), b)
  <2> DEFINE c == SetTop(f)
  <2>1. /\ c \in Seq(Frame) /\ c # <<>> /\ c[Len(c)] = f /\ \A x \in Task : Pins(c, x) = Pins(ctl, x)
    BY <1>2, <1>5, <1>6, StepTop
  <2>2. Calls(c, all, d)
    BY <1>1, <1>2, <1>5, <1>6, CallsTop DEF SetTop
  <2> HIDE DEF c
  <2>3. /\ Calls(Append(c, b), all, d) /\ Append(c, b)[Len(Append(c, b))] = b
        /\ \A x \in Task : Pins(Append(c, b), x) = Pins(c, x)
    BY <1>5, <1>7, <2>1, <2>2, CallsPush
  <2>4. ctl' = Append(c, b)
    BY <1>9 DEF c
  <2>5. Top' = b /\ Self' = t
    BY <1>7, <2>3, <2>4 DEF Top, Self
  <2>6. \A x : Listed(deleted, x)' <=> Listed(d, x)
    BY <1>9 DEF Listed
  <2>7. Exact'
    BY <1>2, <2>1, <2>3, <2>4, KeepExact DEF counts
  <2>8. Garbage'
    BY <1>2, <1>4, <1>9, <2>6 DEF Garbage, RInv, flags
  <2>9. Dying'
    <3>1. ref_count[t] = 0 /\ ref_count' = ref_count /\ deleting' = deleting
      BY <1>1, <1>2, <1>3, <1>9 DEF Busy, IInv, TypeOK, counts, flags
    <3> QED BY <1>3, <1>4, <2>5, <2>6, <3>1 DEF Dying
  <2>10. Held' /\ Calls(ctl', all', deleted')
    BY <1>2, <1>9, <2>3, <2>4 DEF Held, RInv, counts
  <2> QED BY <2>7, <2>8, <2>9, <2>10, Conclude
<1> QED BY <1>2, <1>8, <1>9

\* An operation of a body that neither creates, dooms nor references an object.
LEMMA RBody ==
    ASSUME IInv, RInv, NEW t \in Task, Suspend(t) \/ Resume(t) \/ Roll(t) \/ CallCollect
    PROVE  RInv'
<1> DEFINE c == SetTop(Worked)
           w == Walk("Collect", First(deleted))
           b == Body("Roll", t)
<1>1. Working /\ UNCHANGED <<all, deleted, deleting, ref_count, holds>>
  BY DEF Suspend, Resume, Roll, CallCollect, EnterBody, lists, flags, counts
<1>2. /\ Calls(c, all, deleted) /\ c \in Seq(Frame) /\ c # <<>> /\ c[Len(c)] = Worked
      /\ Worked.fn \in {"Do", "Roll"} /\ Worked.node = End
      /\ \A x \in Task : Pins(c, x) = Pins(ctl, x)
  BY <1>1, StepWorked
<1>3. w \in Frame /\ w.fn = "Collect" /\ w.next = End /\ FrameOK(w, all, deleted)
  BY RFacts, FirstExists, WalkOK
<1>4. t \in all => b \in Frame /\ b.fn = "Roll" /\ b.next = End /\ FrameOK(b, all, deleted)
  BY TaskAssumption DEF Body, Frame, FrameOK
<1>5. ctl' = c \/ (t \in all /\ ctl' = Append(c, b)) \/ ctl' = Append(c, w)
  BY DEF Suspend, Resume, Roll, CallCollect, EnterBody
<1> HIDE DEF c, w, b
<1>6. /\ Calls(ctl', all, deleted) /\ ctl'[Len(ctl')].fn # "Dtor"
      /\ \A x \in Task : Pins(ctl', x) = Pins(ctl, x)
  <2>1. CASE ctl' = c
    BY <1>2, <2>1
  <2>2. CASE t \in all /\ ctl' = Append(c, b)
    BY <1>2, <1>4, <2>2, CallsPush
  <2>3. CASE ctl' = Append(c, w)
    BY <1>2, <1>3, <2>3, CallWalk
  <2> QED BY <1>5, <2>1, <2>2, <2>3
<1>7. Exact'
  BY <1>1, <1>6, KeepExact
<1> QED BY <1>1, <1>6, <1>7, KeepR

\* DeleteLater queues an object once.
LEMMA DoomKeeps ==
    ASSUME IInv, RInv, NEW t \in all, Doom(t), all' = all
    PROVE  /\ Garbage' /\ \A x \in Task : deleting[x] => deleting'[x]
           /\ \A x : Listed(deleted, x) => Listed(deleted', x)
           /\ \A x : Listed(deleted, x)' => Listed(deleted, x) \/ (x = t /\ ~deleting[t])
<1>1. /\ deleted \in Seq(Task) /\ deleting \in [Task -> BOOLEAN] /\ all \subseteq Task /\ t \in Task
      /\ IsInjective(deleted) /\ \A x \in Task : Listed(deleted, x) => x \in all /\ deleting[x]
  BY DEF IInv, TypeOK, RInv, Garbage
<1>2. deleting' = [deleting EXCEPT ![t] = TRUE]
  BY DEF Doom
<1>3. \A x : Listed(deleted, x)' <=> Listed(deleted', x)
  BY DEF Listed
<1>4. /\ IsInjective(deleted') /\ \A x : Listed(deleted, x) => Listed(deleted', x)
      /\ \A x : Listed(deleted', x) => Listed(deleted, x) \/ (x = t /\ ~deleting[t])
  <2>1. CASE deleting[t]
    BY <1>1, <2>1 DEF Doom
  <2>2. CASE ~deleting[t]
    <3>1. ~Listed(deleted, t) /\ deleted' = Append(deleted, t)
      BY <1>1, <2>2 DEF Doom
    <3> QED BY <1>1, <2>2, <3>1, LinkFacts
  <2> QED BY <2>1, <2>2
<1>5. \A x \in Task : deleting'[x] <=> deleting[x] \/ x = t
  BY <1>1, <1>2
<1>6. Garbage'
  BY <1>1, <1>3, <1>4, <1>5 DEF Garbage
<1> QED BY <1>3, <1>4, <1>5, <1>6

\* A reference goes away and its count with it.
LEMMA LoseRef ==
    ASSUME IInv, RInv, NEW s, NEW t \in Task, <<s, t>> \in holds, all' = all,
           holds' = holds \ {<<s, t>>}, ref_count' = Unpin(t),
           \A x \in Task : Pins(ctl', x) = Pins(ctl, x)
    PROVE  Held' /\ Exact' /\ t \in all /\ \A x \in Task : ref_count[x] = 0 => ref_count'[x] = 0
<1>1. /\ ref_count \in [Task -> Nat] /\ all \subseteq Task /\ t # End /\ ctl \in Seq(Frame)
      /\ IsFiniteSet(holds) /\ \A r \in holds : r \in all \X all
  BY TaskAssumption DEF IInv, TypeOK, RInv, Held
<1>2. t \in all
  BY <1>1
<1>3. Held'
  BY <1>1, RefsLess DEF Held
<1>4. /\ \A x : Cardinality(Refs(holds, x)) \in Nat
      /\ \A x : x # t => Refs(holds', x) = Refs(holds, x)
      /\ Cardinality(Refs(holds, t)) > 0 /\ Cardinality(Refs(holds', t)) = Cardinality(Refs(holds, t)) - 1
  <2>1. \A x : Cardinality(Refs(holds, x)) \in Nat
    BY <1>1, RefsFinite
  <2>2. <<s, t>> \in holds /\ holds' = holds \ {<<s, t>>}
    OBVIOUS
  <2>3. ASSUME NEW x, x # t PROVE Refs(holds', x) = Refs(holds, x)
    <3>1. IsFiniteSet(holds)
      BY <1>1
    <3> QED BY <2>2, <2>3, <3>1, RefsLess
  <2>4. Cardinality(Refs(holds, t)) > 0
    BY <1>1, <2>2, RefsLess
  <2>5. Cardinality(Refs(holds', t)) = Cardinality(Refs(holds, t)) - 1
    BY <1>1, <2>2, RefsLess
  <2> QED BY <2>1, <2>3, <2>4, <2>5
<1>5. \A x \in Task : Cardinality(Pins(ctl, x)) \in Nat
  BY <1>1, PinsFinite
<1>6. ASSUME NEW x \in all
      PROVE  ref_count'[x] = Cardinality(Refs(holds', x)) + Cardinality(Pins(ctl', x))
  <2>1. /\ ref_count[x] = Cardinality(Refs(holds, x)) + Cardinality(Pins(ctl, x)) /\ x \in Task
        /\ Pins(ctl', x) = Pins(ctl, x)
    BY <1>1 DEF RInv, Exact
  <2>2. CASE x = t
    <3>1. ref_count[t] # 0
      BY <1>4, <1>5, <2>1, <2>2
    <3>2. ref_count'[t] = ref_count[t] - 1
      BY <1>1, <3>1 DEF Unpin
    <3> QED BY <1>4, <1>5, <2>1, <2>2, <3>2
  <2>3. CASE x # t
    <3>1. ref_count'[x] = ref_count[x]
      BY <1>1, <2>1, <2>3 DEF Unpin
    <3> QED BY <1>4, <2>1, <2>3, <3>1
  <2> QED BY <2>2, <2>3
<1>7. Exact'
  BY <1>6 DEF Exact, Pins, Refs
<1>8. \A x \in Task : ref_count[x] = 0 => ref_count'[x] = 0
  BY <1>1 DEF Unpin
<1> QED BY <1>2, <1>3, <1>7, <1>8

\* An SMTaskRef goes away, or DeleteLater is called, and the object is doomed.
LEMMA RDoom ==
    ASSUME IInv, RInv, NEW h \in Task, NEW t \in Task,
           \/ DropRef(h, t) /\ Top.fn = "Dtor" /\ UNCHANGED ctl
           \/ ReleaseRef(h, t)
           \/ DeleteLater(t)
    PROVE  RInv'
<1>1. Doom(t) /\ all' = all
  BY DEF DropRef, ReleaseRef, DeleteLater
<1>2. /\ \A x \in Task : Pins(ctl', x) = Pins(ctl, x)
      /\ Calls(ctl', all, deleted) /\ (ctl' = ctl \/ ctl'[Len(ctl')].fn # "Dtor")
  <2>1. CASE Working /\ ctl' = SetTop(Worked)
    BY <2>1, StepWorked
  <2>2. CASE ctl' = ctl
    BY <2>2 DEF RInv
  <2> QED BY <2>1, <2>2 DEF ReleaseRef, DeleteLater
<1>3. Held' /\ Exact' /\ t \in all /\ \A x \in Task : ref_count[x] = 0 => ref_count'[x] = 0
  <2>1. CASE DropRef(h, t)
    BY <1>1, <1>2, <2>1, LoseRef DEF DropRef
  <2>2. CASE DeleteLater(t)
    <3>1. t \in all /\ UNCHANGED <<ref_count, holds>>
      BY <2>2 DEF DeleteLater, counts
    <3>2. Exact'
      BY <1>1, <1>2, <3>1, KeepExact
    <3> QED BY <1>1, <3>1, <3>2 DEF Held, RInv
  <2> QED BY <2>1, <2>2 DEF ReleaseRef
<1>4. /\ Garbage' /\ \A x \in Task : deleting[x] => deleting'[x]
      /\ \A x : Listed(deleted, x) => Listed(deleted', x)
      /\ \A x : Listed(deleted, x)' => Listed(deleted, x) \/ (x = t /\ ~deleting[t])
  BY <1>1, <1>3, DoomKeeps
<1>5. Calls(ctl', all', deleted')
  BY <1>1, <1>2, <1>4, CallsGrow
<1>6. Dying'
  <2>1. CASE ctl' = ctl
    <3>1. Top' = Top /\ Self' = Self
      BY <2>1 DEF Top, Self
    <3>2. Top.fn = "Dtor" => Self \in Task
      BY RFacts DEF Stack, Self
    <3> QED BY <1>3, <1>4, <3>1, <3>2 DEF Dying, RInv
  <2>2. CASE ctl'[Len(ctl')].fn # "Dtor"
    BY <2>2 DEF Dying, Top
  <2> QED BY <1>2, <2>1, <2>2
<1> QED BY <1>3, <1>4, <1>5, <1>6, Conclude

\* A second reference, and a reference whose pointer is borrowed.
LEMMA RRefs == ASSUME IInv, RInv, NEW t \in Task, ShareRef(t) \/ BorrowRef(t) PROVE RInv'
<1>1. /\ Working /\ ctl' = SetTop(Worked) /\ UNCHANGED <<all, lists, flags>>
  BY DEF ShareRef, BorrowRef
<1>2. /\ \A x \in Task : Pins(ctl', x) = Pins(ctl, x)
      /\ Calls(ctl', all, deleted) /\ ctl'[Len(ctl')].fn # "Dtor" /\ Self \in all
  BY <1>1, StepWorked
<1>3. /\ ref_count \in [Task -> Nat] /\ all \subseteq Task /\ ctl \in Seq(Frame)
      /\ IsFiniteSet(holds) /\ \A r \in holds : r \in all \X all
  BY DEF IInv, TypeOK, RInv, Held
<1>4. Held' /\ Exact'
  <2>1. CASE BorrowRef(t)
    BY <1>1, <1>2, <2>1, LoseRef DEF BorrowRef
  <2>2. CASE ShareRef(t)
    <3>1. /\ t \in all /\ <<Self, t>> \notin holds /\ holds' = holds \cup {<<Self, t>>}
          /\ ref_count' = [ref_count EXCEPT ![t] = @ + 1]
      BY <2>2 DEF ShareRef
    <3>2. Held'
      <4>1. IsFiniteSet(holds \cup {<<Self, t>>})
        BY <1>3, <3>1, RefsMore
      <4> QED BY <1>1, <1>2, <1>3, <3>1, <4>1 DEF Held
    <3>3. /\ \A x : Cardinality(Refs(holds, x)) \in Nat
          /\ \A x : x # t => Refs(holds', x) = Refs(holds, x)
          /\ Cardinality(Refs(holds', t)) = Cardinality(Refs(holds, t)) + 1
      BY <1>3, <3>1, RefsFinite, RefsMore
    <3>4. \A x \in Task : Cardinality(Pins(ctl, x)) \in Nat
      BY <1>3, PinsFinite
    <3>5. ASSUME NEW x \in all
          PROVE  ref_count'[x] = Cardinality(Refs(holds', x)) + Cardinality(Pins(ctl', x))
      <4>1. /\ ref_count[x] = Cardinality(Refs(holds, x)) + Cardinality(Pins(ctl, x)) /\ x \in Task
            /\ Pins(ctl', x) = Pins(ctl, x)
        BY <1>2, <1>3 DEF RInv, Exact
      <4>2. ref_count'[x] = IF x = t THEN ref_count[x] + 1 ELSE ref_count[x]
        BY <1>3, <3>1, <4>1
      <4> QED BY <3>3, <3>4, <4>1, <4>2
    <3>6. Exact'
      BY <1>1, <3>5 DEF Exact, Pins, Refs
    <3> QED BY <3>2, <3>6
  <2> QED BY <2>1, <2>2
<1>5. Garbage' /\ Dying'
  <2>1. \A x : Listed(deleted, x)' <=> Listed(deleted, x)
    BY <1>1 DEF Listed, lists
  <2> QED BY <1>1, <1>2, <2>1 DEF Garbage, Dying, Top, RInv, lists, flags
<1>6. Calls(ctl', all', deleted')
  BY <1>1, <1>2 DEF lists
<1> QED BY <1>4, <1>5, <1>6, Conclude

\* Nobody references or walks to an object that does not exist.
LEMMA Unknown ==
    ASSUME IInv, RInv, NEW t \in Task, t \notin all
    PROVE  Refs(holds, t) = {} /\ Pins(ctl, t) = {}
<1>1. Refs(holds, t) = {}
  BY DEF Refs, RInv, Held
<1>2. Pins(ctl, t) = {}
  BY TaskAssumption DEF Pins, RInv, Calls, FrameOK
<1> QED BY <1>1, <1>2

\* A new object, with the reference of its creator or none.
LEMMA RNewTask ==
    ASSUME IInv, RInv, NEW t \in Task, NEW keep \in BOOLEAN, NewTask(t, keep)
    PROVE  RInv'
<1>1. /\ Working /\ t \notin all /\ all' = all \cup {t} /\ ctl' = SetTop(Worked) /\ deleted' = deleted
      /\ deleting' = [deleting EXCEPT ![t] = FALSE]
      /\ ref_count' = [ref_count EXCEPT ![t] = IF keep THEN 1 ELSE 0]
      /\ holds' = IF keep THEN holds \cup {<<Self, t>>} ELSE holds
  BY DEF NewTask
<1>2. /\ \A x \in Task : Pins(ctl', x) = Pins(ctl, x)
      /\ Calls(ctl', all, deleted) /\ ctl'[Len(ctl')].fn # "Dtor" /\ Self \in all
  BY <1>1, StepWorked
<1>3. /\ ref_count \in [Task -> Nat] /\ deleting \in [Task -> BOOLEAN] /\ all \subseteq Task /\ ctl \in Seq(Frame)
      /\ IsFiniteSet(holds) /\ \A r \in holds : r \in all \X all
  BY DEF IInv, TypeOK, RInv, Held
<1>4. Refs(holds, t) = {} /\ Pins(ctl', t) = {}
  BY <1>1, <1>2, Unknown
<1>5. Cardinality({}) = 0
  BY FS_EmptySet
<1>6. <<Self, t>> \notin holds
  BY <1>1, <1>3
<1>7. /\ IsFiniteSet(holds')
      /\ \A x \in all : Refs(holds', x) = Refs(holds, x)
      /\ Cardinality(Refs(holds', t)) = IF keep THEN 1 ELSE 0
  <2>1. CASE keep
    <3>1. holds' = holds \cup {<<Self, t>>} /\ IsFiniteSet(holds)
      BY <1>1, <1>3, <2>1
    <3>2. IsFiniteSet(holds')
      BY <1>6, <3>1, RefsMore
    <3>3. ASSUME NEW x, x # t PROVE Refs(holds', x) = Refs(holds, x)
      BY <1>6, <3>1, <3>3, RefsMore
    <3>4. Cardinality(Refs(holds', t)) = Cardinality(Refs(holds, t)) + 1
      BY <1>6, <3>1, RefsMore
    <3> QED BY <1>1, <1>4, <1>5, <2>1, <3>2, <3>3, <3>4
  <2>2. CASE ~keep
    BY <1>1, <1>3, <1>4, <1>5, <2>2
  <2> QED BY <2>1, <2>2
<1>8. ASSUME NEW x \in all'
      PROVE  ref_count'[x] = Cardinality(Refs(holds', x)) + Cardinality(Pins(ctl', x))
  <2>1. CASE x = t
    <3>1. ref_count'[t] = IF keep THEN 1 ELSE 0
      BY <1>1, <1>3
    <3>2. Cardinality(Pins(ctl', t)) = 0
      BY <1>4, <1>5
    <3> QED BY <1>7, <2>1, <3>1, <3>2
  <2>2. CASE x # t
    <3>1. x \in all /\ x \in Task /\ Pins(ctl', x) = Pins(ctl, x) /\ ref_count'[x] = ref_count[x]
      BY <1>1, <1>2, <1>3, <2>2
    <3> QED BY <1>7, <3>1 DEF RInv, Exact
  <2> QED BY <2>1, <2>2
<1>9. Exact'
  BY <1>8 DEF Exact, Pins, Refs
<1>10. Held'
  <2>1. \A r \in holds' : r \in all' \X all'
    BY <1>1, <1>2, <1>3
  <2> QED BY <1>7, <2>1 DEF Held
<1>11. Garbage' /\ Dying'
  <2>1. \A x : Listed(deleted, x)' <=> Listed(deleted, x)
    BY <1>1 DEF Listed
  <2> QED BY <1>1, <1>2, <1>3, <2>1 DEF Garbage, Dying, Top, RInv
<1>12. Calls(ctl', all', deleted')
  BY <1>1, <1>2, CallsGrow
<1> QED BY <1>9, <1>10, <1>11, <1>12, Conclude

\* The end of a destructor: nothing refers to the object that is gone.
LEMMA RDtorReturn == ASSUME IInv, RInv, DtorReturn PROVE RInv'
<1> DEFINE s == Self
           a == all \ {s}
<1>1. /\ Top.fn = "Dtor" /\ (\A t \in Task : <<s, t>> \notin holds) /\ all' = a /\ ctl' = Caller
      /\ deleting' = [deleting EXCEPT ![s] = FALSE] /\ UNCHANGED <<deleted, counts>>
  BY DEF DtorReturn
<1>2. /\ ctl \in Seq(Frame) /\ Len(ctl) \in DOMAIN ctl /\ Top = ctl[Len(ctl)] /\ FrameOK(Top, all, deleted)
      /\ Stack(ctl, running) /\ all \subseteq Task /\ End \notin Task
  BY RFacts
<1>3. /\ s \in all /\ s \in Task /\ running[s] = 0 /\ Top.next = End /\ Len(ctl) > 1
      /\ ~Listed(deleted, s) /\ ref_count[s] = 0
  BY <1>1, <1>2, NotBottom DEF FrameOK, Stack, RInv, Dying, Self
<1>4. Refs(holds, s) = {} /\ Pins(ctl, s) = {}
  <2>1. /\ IsFiniteSet(Refs(holds, s)) /\ Cardinality(Refs(holds, s)) \in Nat
    BY RefsFinite DEF RInv, Held
  <2>2. IsFiniteSet(Pins(ctl, s)) /\ Cardinality(Pins(ctl, s)) \in Nat
    BY <1>2, PinsFinite
  <2>3. Cardinality(Refs(holds, s)) + Cardinality(Pins(ctl, s)) = 0
    BY <1>3 DEF RInv, Exact
  <2>4. Cardinality(Refs(holds, s)) = 0 /\ Cardinality(Pins(ctl, s)) = 0
    BY <2>1, <2>2, <2>3
  <2> QED BY <2>1, <2>2, <2>4, FS_EmptySet
<1>5. /\ Calls(Caller, all, deleted) /\ Caller[Len(Caller)].fn # "Dtor"
      /\ \A i \in DOMAIN Caller : i \in DOMAIN ctl /\ i # Len(ctl) /\ Caller[i] = ctl[i]
      /\ \A t \in Task : Pins(Caller, t) = Pins(ctl, t)
  BY <1>3, CallerFacts
<1> HIDE DEF s
<1>6. ASSUME NEW i \in DOMAIN ctl, i # Len(ctl) PROVE FrameOK(ctl[i], a, deleted)
  <2>1. FrameOK(ctl[i], all, deleted) /\ (ctl[i].node # End => ctl[i].fn = "Collect")
    BY <1>6 DEF RInv, Calls
  <2>2. ctl[i].next # s
    BY <1>4 DEF Pins
  <2>3. ctl[i].node # s
    BY <1>2, <1>3, <2>1 DEF FrameOK
  <2>4. ctl[i].task # s
    <3>1. CASE ctl[i].fn \in {"Do", "Roll"}
      <4>1. ctl[i].task = s => OnStack(ctl, s)
        BY <3>1 DEF OnStack, IsActivation
      <4>2. ~OnStack(ctl, s)
        BY <1>2, <1>3 DEF Stack
      <4> QED BY <4>1, <4>2
    <3>2. CASE ctl[i].fn = "Dtor"
      BY <1>2, <1>6, <3>2 DEF Stack
    <3>3. CASE ctl[i].fn \notin {"Do", "Roll", "Dtor"}
      BY <1>2, <1>3, <2>1, <3>3 DEF FrameOK
    <3> QED BY <3>1, <3>2, <3>3
  <2> QED BY <2>1, <2>2, <2>3, <2>4 DEF FrameOK
<1>7. Calls(ctl', all', deleted')
  <2>1. \A i \in DOMAIN Caller : FrameOK(Caller[i], a, deleted)
    BY <1>5, <1>6
  <2>2. Calls(Caller, a, deleted)
    BY <1>5, <2>1 DEF Calls
  <2> QED BY <1>1, <2>2
<1>8. Exact'
  <2>1. ASSUME NEW x \in a
        PROVE  ref_count'[x] = Cardinality(Refs(holds', x)) + Cardinality(Pins(ctl', x))
    <3>1. x \in all /\ x \in Task
      BY <1>2
    <3>2. Pins(ctl', x) = Pins(ctl, x) /\ UNCHANGED <<ref_count, holds>>
      BY <1>1, <1>5, <3>1 DEF counts
    <3> QED BY <3>1, <3>2 DEF RInv, Exact
  <2> QED BY <1>1, <2>1 DEF Exact, Pins, Refs
<1>9. Held'
  <2>1. holds' = holds /\ IsFiniteSet(holds) /\ \A r \in holds : r \in all \X all
    BY <1>1 DEF counts, RInv, Held
  <2>2. ASSUME NEW r \in holds PROVE r \in a \X a
    <3>1. r \in all \X all /\ r = <<r[1], r[2]>> /\ r[2] \in Task
      BY <1>2, <2>1
    <3>2. r[2] # s
      BY <1>4 DEF Refs
    <3>3. r[1] # s
      BY <1>1, <3>1
    <3> QED BY <3>1, <3>2, <3>3
  <2> QED BY <1>1, <2>1, <2>2 DEF Held
<1>10. Garbage' /\ Dying'
  <2>1. \A x : Listed(deleted, x)' <=> Listed(deleted, x)
    BY <1>1 DEF Listed
  <2>2. deleting \in [Task -> BOOLEAN]
    BY DEF IInv, TypeOK
  <2> QED BY <1>1, <1>3, <1>5, <2>1, <2>2 DEF Garbage, Dying, Top, RInv
<1> QED BY <1>7, <1>8, <1>9, <1>10, Conclude

-----------------------------------------------------------------------------
(* The theorems. *)

LEMMA RInit == Init => RInv
<1> SUFFICES ASSUME Init PROVE RInv
  OBVIOUS
<1> DEFINE b == Body("Do", InitTask)
<1>1. /\ b.fn = "Do" /\ b.task = InitTask /\ b.node = End /\ b.next = End /\ b.pc = "body"
  BY DEF Body
<1>2. /\ all = {InitTask} /\ deleted = <<>> /\ holds = {} /\ ref_count = [t \in Task |-> 0] /\ ctl = <<b>>
  BY DEF Init
<1> HIDE DEF b
<1>3. Len(ctl) = 1 /\ DOMAIN ctl = {1} /\ ctl[1] = b
  BY <1>2
<1>4. Garbage
  <2>1. \A t : ~Listed(deleted, t)
    BY <1>2 DEF Listed
  <2> QED BY <1>2, <2>1 DEF Garbage, IsInjective
<1>5. Dying
  BY <1>1, <1>3 DEF Dying, Top
<1>6. Held
  BY <1>2, FS_EmptySet DEF Held
<1>7. Calls(ctl, all, deleted)
  BY <1>1, <1>2, <1>3, TaskAssumption DEF Calls, FrameOK
<1>8. Exact
  <2>1. InitTask # End /\ InitTask \in Task
    BY TaskAssumption
  <2>2. Refs(holds, InitTask) = {}
    BY <1>2 DEF Refs
  <2>3. Pins(ctl, InitTask) = {}
    BY <1>1, <1>3, <2>1 DEF Pins
  <2>4. Cardinality({}) = 0
    BY FS_EmptySet
  <2>5. Cardinality(Refs(holds, InitTask)) = 0 /\ Cardinality(Pins(ctl, InitTask)) = 0
    BY <2>2, <2>3, <2>4
  <2>6. ref_count[InitTask] = 0
    BY <1>2, <2>1
  <2>7. 0 = 0 + 0
    OBVIOUS
  <2> QED BY <1>2, <2>5, <2>6, <2>7 DEF Exact
<1> QED BY <1>4, <1>5, <1>6, <1>7, <1>8 DEF RInv

\* Every step of the scheduler, or of the code it runs, preserves RInv.
LEMMA RNext == IInv /\ RInv /\ [Next]_vars => RInv'
<1> SUFFICES ASSUME IInv, RInv, [Next]_vars PROVE RInv'
  OBVIOUS
<1>1. CASE CallSchedule
  BY <1>1, RCallSchedule
<1>2. CASE ScheduleStart \/ ScheduleRan \/ ScheduleCollect
  BY <1>2, RWalkCalls
<1>3. CASE Advance
  BY <1>3, RAdvance
<1>4. CASE ScheduleLoop \/ ScheduleNewLoop
  BY <1>4, RLoops
<1>5. CASE ScheduleReturn \/ ScheduleNewReturn \/ CollectReturn \/ \E m \in BOOLEAN : DoReturn(m)
  BY <1>5, RReturns
<1>6. CASE CollectLoop
  BY <1>6, RCollectLoop
<1>7. CASE DtorDropRef
  <2>1. PICK t \in Task : DropRef(Self, t)
    BY <1>7 DEF DtorDropRef
  <2>2. Self \in Task /\ UNCHANGED ctl /\ Top.fn = "Dtor"
    BY <1>7, <2>1 DEF DropRef, DtorDropRef, IInv, TypeOK
  <2> QED BY <2>1, <2>2, RDoom
<1>8. CASE DtorReturn
  BY <1>8, RDtorReturn
<1>9. ASSUME NEW t \in Task, Operation(t) PROVE RInv'
  <2>1. CASE \E keep \in BOOLEAN : NewTask(t, keep)
    BY <2>1, RNewTask
  <2>2. CASE ShareRef(t) \/ BorrowRef(t)
    BY <2>2, RRefs
  <2>3. CASE (\E h \in Task : ReleaseRef(h, t)) \/ DeleteLater(t)
    BY <2>3, RDoom
  <2>4. CASE Suspend(t) \/ Resume(t) \/ Roll(t)
    BY <2>4, RBody
  <2> QED BY <1>9, <2>1, <2>2, <2>3, <2>4 DEF Operation
<1>10. CASE CallCollect
  BY <1>10, RBody, TaskAssumption
<1>11. CASE Wakeup \/ UNCHANGED vars
  BY <1>11, RStutters
<1> QED BY <1>1, <1>2, <1>3, <1>4, <1>5, <1>6, <1>7, <1>8, <1>9, <1>10, <1>11 DEF Next

LEMMA RHolds == Spec => []RInv
BY InvHolds, RInit, RNext, PTL DEF Spec

\* However references are shared, borrowed and dropped while walks pin tasks and tasks create
\* and destroy one another, ref_count is the number of SMTaskRefs and pins: neither leaks, and
\* DecRefCount never takes a count away from another holder (src/SMTask.h, SMTask::ScheduleThis).
THEOREM CountsExact == Spec => []RefCountExact
<1>1. RInv => RefCountExact
  BY DEF RInv, Exact, RefCountExact, Refs, Pins
<1> QED BY <1>1, RHolds, PTL

\* What the lists, the references and the calls in progress point to has not been destroyed
\* by CollectGarbage, whatever the code of the tasks does (src/SMTask.cc, src/xlist.h).
THEOREM NothingDangles == Spec => []NoUseAfterFree
<1>1. IInv /\ RInv => NoUseAfterFree
  <2> SUFFICES ASSUME IInv, RInv PROVE NoUseAfterFree
    OBVIOUS
  <2>1. ready \in Seq(Task) /\ new \in Seq(Task) /\ deleted \in Seq(Task)
    BY DEF IInv, TypeOK
  <2>2. ASSUME NEW q \in {ready, new, deleted} PROVE ToSet(q) \subseteq all
    <3>1. \A t \in Task : Listed(q, t) => t \in all
      BY <2>2 DEF IInv, ListsOK, RInv, Garbage
    <3>2. \A i \in DOMAIN q : q[i] \in Task
      BY <2>1, <2>2, LenProperties, ElementOfSeq
    <3> QED BY <3>1, <3>2 DEF ToSet, Listed
  <2>3. \A i \in DOMAIN ctl : {ctl[i].task, ctl[i].node, ctl[i].next} \subseteq all \cup {End}
    BY DEF RInv, Calls, FrameOK
  <2>4. \A r \in holds : r \in all \X all
    BY DEF RInv, Held
  <2> QED BY <2>2, <2>3, <2>4 DEF NoUseAfterFree
<1> QED BY <1>1, InvHolds, RHolds, PTL

=============================================================================
