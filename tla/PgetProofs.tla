----------------------------- MODULE PgetProofs -----------------------------
(***************************************************************************)
(* For files of any size, any number of connections and any number of       *)
(* failures and ends of the program: what the status file of pget does not  *)
(* list is on the disk, and a pget that succeeds leaves the whole file.     *)
(* Both under the conditions the model names: -c is used when there is a    *)
(* status file (Careful), and the status is not saved while one part of the *)
(* program has seen the end of a chunk and another has not (~AnyMoment).    *)
(***************************************************************************)
EXTENDS Pget, TLAPS, WellFoundedInduction

-----------------------------------------------------------------------------
(* Arithmetic and the least of a set of numbers.                           *)

Before == {ss \in Nat \X Nat : ss[1] < ss[2]}

\* The first chunk is one of the chunks: every set of numbers has a least one.
LEMMA LeastOfNat ==
  ASSUME NEW S \in SUBSET Nat, S # {}
  PROVE  Min(S) \in S /\ \A x \in S : Min(S) <= x
<1>1. IsWellFoundedOn(Before, Nat)
  BY NatLessThanWellFounded DEF OpToRel, Before
<1>2. \E m \in S : \A y \in S : ~ (<<y, m>> \in Before)
  BY <1>1, WFMin
<1>3. \A x, y \in S : ~ (<<y, x>> \in Before) => x <= y
  BY DEF Before
<1>4. \E m \in S : \A y \in S : m <= y
  BY <1>2, <1>3
<1> QED BY <1>4 DEF Min

\* Division with remainder, as InitChunks uses it.
LEMMA Quotient ==
  ASSUME NEW a \in Nat, NEW d \in Nat \ {0}
  PROVE  a \div d \in Nat /\ d * (a \div d) <= a /\ a < d * (a \div d + 1)
  BY SMT

LEMMA Monotone ==
  ASSUME NEW a \in Nat, NEW b \in Nat, NEW c \in Nat, a <= b
  PROVE  c * a <= c * b
  BY SMT

-----------------------------------------------------------------------------
(* The inductive invariant, of a job, a status file and the local file.    *)

ChunkSet == [start : Nat, pos : Nat, limit : Nat, st : {"run", "err", "gone", "done"}, susp : BOOLEAN]
ChunkFunctions == UNION {[S -> ChunkSet] : S \in SUBSET Nat}
RestFunctions == UNION {[S -> [pos : Nat, limit : Nat]] : S \in SUBSET Nat}
JobSet ==
    [on : BOOLEAN, cont : BOOLEAN, pos : Nat, limit0 : Nat, chunks : ChunkFunctions, no_parallel : BOOLEAN,
     chunks_done : BOOLEAN, priority_ends : BOOLEAN, ends_pending : BOOLEAN, sized : {"yet", "known", "none"},
     open : BOOLEAN, susp : BOOLEAN, limited : BOOLEAN, copied : BOOLEAN, removed : BOOLEAN, err : BOOLEAN, done : BOOLEAN]
StatusSet == [on : BOOLEAN, size : Int, pos : Nat, limits : BOOLEAN, limit : Nat, rest : RestFunctions]

\* What the main copy has passed is written; what is behind its limit is written or belongs to a chunk.
Written(j, n, d) == j.pos <= n /\ 0..(j.pos - 1) \subseteq d
Covered(j, n, d) ==
    DOMAIN j.chunks # {} =>
      \A b \in j.limit0..(n - 1) :
        b \in d \/ \E k \in DOMAIN j.chunks : j.chunks[k].pos <= b /\ b < j.chunks[k].limit
Ranges(j, n) ==
    /\ \A k \in DOMAIN j.chunks :
         /\ j.chunks[k].pos <= j.chunks[k].limit /\ j.chunks[k].limit <= n /\ k < j.chunks[k].limit
         /\ j.chunks[k].st = "done" => j.chunks[k].pos = j.chunks[k].limit
    /\ DOMAIN j.chunks # {} => j.open /\ j.sized = "known" /\ ~j.limited
    /\ j.chunks_done => \A k \in DOMAIN j.chunks : j.chunks[k].st = "done"

\* When the main copy has ended all is written, and its success comes after the removal of the status file.
Ended(j, n, d) ==
    /\ j.limited => j.open /\ j.chunks_done /\ j.pos >= j.limit0 /\ 0..(n - 1) \subseteq d
    /\ j.copied => j.open /\ 0..(n - 1) \subseteq d
    /\ j.done /\ ~j.err => j.copied /\ j.removed

\* A new pget leaves no hole until it has chunks; then holes are only in front of later chunks.
Fresh(j, d, l) ==
    ~j.cont => /\ ~j.open => j.pos = 0
               /\ j.open /\ DOMAIN j.chunks = {} /\ ~j.no_parallel /\ ~j.chunks_done => 0..(l - 1) \subseteq d
Dense(j, d, l) ==
    ~j.cont => /\ \A k \in DOMAIN j.chunks : k <= j.chunks[k].pos
               /\ \A k, m \in DOMAIN j.chunks : k < m => j.chunks[k].limit <= m
               /\ DOMAIN j.chunks # {} =>
                    \A b \in j.limit0..(l - 1) :
                      b \in d \/ \E k, m \in DOMAIN j.chunks : k < m /\ j.chunks[k].pos <= b /\ b < j.chunks[k].limit

\* Chunks write only when there is a status file.
Joint(j, s) ==
    /\ j.removed => j.copied /\ ~s.on
    /\ DOMAIN j.chunks # {} => s.on \/ j.copied
    /\ j.cont => s.on \/ j.removed
    /\ ~j.cont /\ ~j.open /\ s.on => s.pos = 0 /\ ~s.limits

\* The status file, if there is one, lists what is not written below the size it names.
Listed(s, n, d) ==
    /\ s.size \in Nat /\ s.size <= n
    /\ \A b \in s.limit..(s.size - 1) : b \in d \/ \E k \in DOMAIN s.rest : s.rest[k].pos <= b /\ b < s.rest[k].limit
    /\ \A k \in DOMAIN s.rest : s.rest[k].pos < s.rest[k].limit /\ s.rest[k].limit <= s.size /\ k < s.rest[k].limit
Recorded(s, n, d, l) ==
    /\ s.on => s.pos <= n /\ 0..(s.pos - 1) \subseteq d /\ (s.limits => Listed(s, n, d))
    /\ ~s.on => 0..(l - 1) \subseteq d

JobOK(j, n, d, l) == Written(j, n, d) /\ Covered(j, n, d) /\ Ranges(j, n) /\ Ended(j, n, d) /\ Fresh(j, d, l) /\ Dense(j, d, l)
Sane(j, s, n, d, l) ==
    /\ j \in JobSet /\ s \in StatusSet /\ n \in Nat /\ n <= N /\ l \in Int /\ l <= n
    /\ Recorded(s, n, d, l)
    /\ j.on => JobOK(j, n, d, l) /\ Joint(j, s)

IInv == Sane(job, status, size, disk, len)

-----------------------------------------------------------------------------
LEMMA ChunksAre ==
  ASSUME NEW cs \in ChunkFunctions
  PROVE  /\ DOMAIN cs \subseteq Nat /\ cs = [k \in DOMAIN cs |-> cs[k]]
         /\ \A k \in DOMAIN cs : /\ cs[k] \in ChunkSet /\ cs[k].pos \in Nat /\ cs[k].limit \in Nat /\ cs[k].start \in Nat
                                 /\ cs[k].st \in {"run", "err", "gone", "done"}
  BY ZenonT(30) DEF ChunkFunctions, ChunkSet

LEMMA RestIs ==
  ASSUME NEW f \in RestFunctions
  PROVE  /\ DOMAIN f \subseteq Nat
         /\ \A k \in DOMAIN f : f[k] \in [pos : Nat, limit : Nat] /\ f[k].pos \in Nat /\ f[k].limit \in Nat
  BY DEF RestFunctions

LEMMA NoChunksIs == NoChunks \in ChunkFunctions /\ NoChunks \in RestFunctions /\ DOMAIN NoChunks = {}
<1>1. NoChunks = [k \in {} |-> 0] /\ DOMAIN NoChunks = {}
  BY DEF NoChunks
<1>2. NoChunks \in [{} -> ChunkSet] /\ NoChunks \in [{} -> [pos : Nat, limit : Nat]]
  BY <1>1
<1> QED BY <1>1, <1>2 DEF ChunkFunctions, RestFunctions

-----------------------------------------------------------------------------
(* The parts of Do.                                                        *)

\* The invariant of a moment within Do, and what of it holds between two parts of MakeChunks
Half(w) ==
    /\ w \in [j : JobSet, s : StatusSet] /\ w.j.on /\ size \in Nat /\ size <= N /\ len \in Int /\ len <= size
    /\ Recorded(w.s, size, disk, len) /\ JobOK(w.j, size, disk, len)
Good(w) == Half(w) /\ Joint(w.j, w.s)

\* No chunk is between its end and the moment that all have seen it.
Steady(j) == \A k \in DOMAIN j.chunks :
    j.chunks[k].st \in {"run", "done"} /\ (j.chunks[k].st = "run" => j.chunks[k].pos < j.chunks[k].limit)

USE DEF Good, Half, JobOK

LEMMA SaveStatusGood ==
  ASSUME NEW w, Half(w), w.j.removed => w.j.copied /\ ~w.s.on, Steady(w.j)
  PROVE  Good(SaveStatus(w)) /\ SaveStatus(w).j = w.j
<1> DEFINE rest == [k \in Left(w.j) |-> [pos |-> w.j.chunks[k].pos, limit |-> w.j.chunks[k].limit]]
           s == [on |-> TRUE, size |-> IF w.j.sized = "known" THEN size ELSE -1, pos |-> w.j.pos,
                 limits |-> DOMAIN w.j.chunks # {}, limit |-> w.j.limit0, rest |-> rest]
<1> USE DEF JobSet
<1>1. CASE w.j.removed
  BY <1>1 DEF SaveStatus, Joint
<1>2. CASE ~w.j.removed
  <2>1. SaveStatus(w) = [j |-> w.j, s |-> s]
    BY <1>2 DEF SaveStatus
  <2>2. /\ Left(w.j) \subseteq Nat /\ Left(w.j) \subseteq DOMAIN w.j.chunks
        /\ \A k \in DOMAIN w.j.chunks : w.j.chunks[k].pos \in Nat /\ w.j.chunks[k].limit \in Nat
    BY ChunksAre DEF Left
  <2>3. rest \in [Left(w.j) -> [pos : Nat, limit : Nat]]
    BY <2>2
  <2>4. rest \in RestFunctions
    BY <2>2, <2>3 DEF RestFunctions
  <2>5. s \in StatusSet
    BY <2>4 DEF StatusSet
  <2>6. DOMAIN w.j.chunks # {} => Listed(s, size, disk)
    <3> SUFFICES ASSUME DOMAIN w.j.chunks # {} PROVE Listed(s, size, disk)
      OBVIOUS
    <3>1. s.size = size /\ s.limit = w.j.limit0
      BY DEF Ranges
    <3>2. \A k \in DOMAIN w.j.chunks : k \notin Left(w.j) => w.j.chunks[k].pos = w.j.chunks[k].limit
      BY DEF Left, Steady, Ranges
    <3>3. \A b \in s.limit..(s.size - 1) : b \in disk \/ \E k \in Left(w.j) : w.j.chunks[k].pos <= b /\ b < w.j.chunks[k].limit
      BY <3>1, <3>2, <2>2 DEF Covered
    <3>4. \A k \in Left(w.j) : w.j.chunks[k].pos < w.j.chunks[k].limit /\ w.j.chunks[k].limit <= size /\ k < w.j.chunks[k].limit
      BY <2>2 DEF Left, Steady, Ranges
    <3>5. DOMAIN rest = Left(w.j) /\ \A k \in Left(w.j) : rest[k].pos = w.j.chunks[k].pos /\ rest[k].limit = w.j.chunks[k].limit
      OBVIOUS
    <3> HIDE DEF rest
    <3> QED BY <3>1, <3>3, <3>4, <3>5 DEF Listed
  <2>7. Recorded(s, size, disk, len)
    <3> HIDE DEF rest
    <3> QED BY <2>6 DEF Recorded, Written
  <2>8. Joint(w.j, s)
    <3> HIDE DEF rest
    <3> QED BY <1>2 DEF Joint, Fresh, Ranges
  <2> HIDE DEF s
  <2> QED BY <2>1, <2>5, <2>7, <2>8
<1> QED BY <1>1, <1>2

\* What a new division of the file into chunks leaves as it is
Same(v, w) ==
    /\ v.j.open = w.j.open /\ v.j.sized = w.j.sized /\ v.j.cont = w.j.cont /\ v.j.copied = w.j.copied /\ v.j.removed = w.j.removed
    /\ v.j.done = w.j.done /\ v.j.no_parallel = w.j.no_parallel /\ v.j.chunks_done = w.j.chunks_done
Undivided(w) == DOMAIN w.j.chunks = {} /\ ~w.j.chunks_done /\ w.j.open /\ w.j.sized = "known"

LEMMA LoadStatusGood ==
  ASSUME NEW w, Good(w), Undivided(w), w.j.cont
  PROVE  Good(LoadStatus(w)) /\ Same(LoadStatus(w), w) /\ Steady(LoadStatus(w).j)
<1> DEFINE s == w.s
           keys == Read(s) \cup (IF Apart(s) THEN {s.size} ELSE {})
           cs == [k \in keys |-> IF k \in Read(s) THEN Chunk(s.rest[k].pos, Now(s, s.rest[k].limit)) ELSE Chunk(k, size)]
           j == [w.j EXCEPT !.pos = s.pos, !.limit0 = Now(s, s.limit), !.chunks = cs]
<1>1. CASE ~s.on \/ ~s.limits
  BY <1>1 DEF LoadStatus, Same, Steady, Undivided
<1>2. CASE s.on /\ s.limits
  <2>1. LoadStatus(w) = [w EXCEPT !.j = j]
    BY <1>2 DEF LoadStatus, JobSet
  <2>2. /\ s.size \in Nat /\ s.size <= size /\ s.limit \in Nat /\ s.pos \in Nat /\ s.rest \in RestFunctions
        /\ s.pos <= size /\ 0..(s.pos - 1) \subseteq disk
        /\ \A b \in s.limit..(s.size - 1) : b \in disk \/ \E k \in DOMAIN s.rest : s.rest[k].pos <= b /\ b < s.rest[k].limit
        /\ \A k \in DOMAIN s.rest : s.rest[k].pos < s.rest[k].limit /\ s.rest[k].limit <= s.size /\ k < s.rest[k].limit
    BY <1>2 DEF Recorded, Listed, StatusSet
  <2>3. Read(s) = DOMAIN s.rest /\ Read(s) \subseteq Nat
    BY <2>2, RestIs DEF Read
  <2>4. /\ \A l \in Nat : l <= s.size => Now(s, l) \in Nat /\ l <= Now(s, l) /\ Now(s, l) <= size
        /\ keys \subseteq Nat
    BY <2>2, <2>3 DEF Now
  <2>5. \A k \in Read(s) : /\ s.rest[k].pos \in Nat /\ s.rest[k].limit \in Nat
                           /\ Now(s, s.rest[k].limit) \in Nat /\ s.rest[k].limit <= Now(s, s.rest[k].limit)
                           /\ Now(s, s.rest[k].limit) <= size
    BY <2>2, <2>3, <2>4, RestIs
  <2>6. /\ \A k \in Read(s) : /\ cs[k].pos = s.rest[k].pos /\ cs[k].limit = Now(s, s.rest[k].limit)
                              /\ cs[k].st = "run" /\ cs[k] \in ChunkSet
        /\ \A k \in keys : k \notin Read(s) => k = s.size /\ s.size < size /\ cs[k].pos = s.size /\ cs[k].limit = size
                                               /\ cs[k].st = "run" /\ cs[k] \in ChunkSet
    BY <2>2, <2>5 DEF Chunk, ChunkSet, Apart
  <2>7. cs \in [keys -> ChunkSet] /\ DOMAIN cs = keys
    BY <2>6
  <2>8. cs \in ChunkFunctions
    BY <2>4, <2>7 DEF ChunkFunctions
  <2>9. Now(s, s.limit) \in Nat /\ s.limit <= Now(s, s.limit)
    BY <2>2 DEF Now
  <2> HIDE DEF cs, keys
  <2>10. j \in JobSet
    BY <2>2, <2>8, <2>9 DEF JobSet
  <2>11. Ranges(j, size)
    <3>1. j.chunks = cs /\ j.open /\ j.sized = "known" /\ ~j.limited /\ ~j.chunks_done
      BY DEF JobSet, Undivided, Ended
    <3>2. \A k \in keys : cs[k].pos <= cs[k].limit /\ cs[k].limit <= size /\ k < cs[k].limit /\ cs[k].st = "run"
      BY <2>2, <2>3, <2>5, <2>6
    <3> HIDE DEF j
    <3> QED BY <2>7, <3>1, <3>2 DEF Ranges
  <2>12. Covered(j, size, disk)
    <3> SUFFICES ASSUME NEW b \in Now(s, s.limit)..(size - 1), b \notin disk
                 PROVE  \E k \in keys : cs[k].pos <= b /\ b < cs[k].limit
      BY <2>7 DEF Covered, JobSet
    <3>1. CASE b < s.size
      <4>1. PICK k \in DOMAIN s.rest : s.rest[k].pos <= b /\ b < s.rest[k].limit
        BY <2>2, <2>9, <3>1
      <4>2. k \in keys /\ cs[k].pos <= b /\ b < cs[k].limit
        BY <2>3, <2>5, <2>6, <4>1, <2>9 DEF keys
      <4> QED BY <4>2
    <3>2. CASE s.size <= b /\ \E k \in Read(s) : s.rest[k].limit = s.size
      <4>1. PICK k \in Read(s) : s.rest[k].limit = s.size
        BY <3>2
      <4>2. s.rest[k].pos < s.size
        BY <2>2, <2>3, <4>1
      <4>3. k \in keys /\ cs[k].pos <= b /\ cs[k].limit = size
        BY <2>2, <2>5, <2>6, <3>2, <4>1, <4>2, <2>9 DEF keys, Now
      <4> QED BY <4>3, <2>2, <2>9
    <3>3. CASE s.size <= b /\ \A k \in Read(s) : s.rest[k].limit # s.size
      <4>1. s.size < size /\ s.limit # s.size
        BY <2>2, <2>9, <3>3 DEF Now
      <4>2. Apart(s)
        BY <3>3, <4>1 DEF Apart
      <4>3. s.size \in keys /\ s.size \notin Read(s)
        BY <2>2, <2>3, <2>5, <4>2 DEF keys
      <4> QED BY <2>2, <2>6, <2>9, <3>3, <4>3
    <3> QED BY <2>2, <2>9, <3>1, <3>2, <3>3
  <2>13. Written(j, size, disk) /\ Ended(j, size, disk) /\ Fresh(j, disk, len) /\ Dense(j, disk, len) /\ Joint(j, s)
    BY <1>2, <2>2, <2>10 DEF Written, Ended, Fresh, Dense, Joint, JobSet, Undivided
  <2>14. Same([w EXCEPT !.j = j], w) /\ Steady(j)
    <3>1. j.chunks = cs
      BY DEF JobSet
    <3>2. \A k \in keys : cs[k].st = "run" /\ cs[k].pos < cs[k].limit
      BY <2>2, <2>3, <2>5, <2>6
    <3> QED BY <2>7, <3>1, <3>2 DEF Same, Steady, JobSet
  <2> HIDE DEF j
  <2>15. [w EXCEPT !.j = j].j = j /\ [w EXCEPT !.j = j].s = s /\ [w EXCEPT !.j = j] \in [j : JobSet, s : StatusSet] /\ j.on
    BY <2>10 DEF j, JobSet
  <2> QED BY <2>1, <2>11, <2>12, <2>13, <2>14, <2>15
<1> QED BY <1>1, <1>2

LEMMA InitChunksGood ==
  ASSUME NEW w, Half(w), Undivided(w), ~w.j.cont => 0..(len - 1) \subseteq disk
  PROVE  Half(InitChunks(w)) /\ InitChunks(w).s = w.s /\ Same(InitChunks(w), w) /\ Steady(InitChunks(w).j)
<1> DEFINE rem == size - w.j.pos
           part == IF rem \div MaxChunks < MinChunk THEN MinChunk ELSE rem \div MaxChunks
           n == rem \div part - 1
           limit0 == size - part * n
           ends == w.j.priority_ends /\ n >= 2
           keys == {limit0 + part * i : i \in 0..(n - 1)}
           cs == [k \in keys |-> [Chunk(k, k + part) EXCEPT !.susp = ends /\ k + part < size]]
           j == [w.j EXCEPT !.limit0 = limit0, !.ends_pending = ends, !.chunks = cs]
<1>1. CASE n < 1
  BY <1>1 DEF InitChunks, Same, Steady, Undivided
<1>2. CASE ~(n < 1)
  <2>1. InitChunks(w) = [w EXCEPT !.j = j]
    BY <1>2 DEF InitChunks, JobSet
  <2>2. rem \in Nat /\ w.j.pos \in Nat /\ w.j.pos <= size
    BY DEF Written, JobSet
  <2>3. part \in Nat /\ part >= 1
    BY <2>2, Quotient, PgetAssumption
  <2> HIDE DEF part
  <2>4. n \in Nat /\ n >= 1 /\ part * (n + 1) <= rem
    BY <1>2, <2>2, <2>3, Quotient, SMTT(30)
  <2> HIDE DEF n
  <2>5. part * n \in Nat /\ part * n <= part * (n + 1)
    BY <2>3, <2>4, Monotone
  <2>6. limit0 \in Nat /\ limit0 + part * n = size
    BY <2>2, <2>4, <2>5, <2>3
  <2>7. \A i \in 0..(n - 1) : /\ part * i \in Nat /\ part * i + part <= part * n
                              /\ limit0 + part * i \in Nat /\ limit0 + part * i + part <= size
    <3> SUFFICES ASSUME NEW i \in 0..(n - 1)
                 PROVE  part * i \in Nat /\ part * i + part <= part * n
      BY <2>6, <2>5, <2>3
    <3>1. part * (i + 1) <= part * n /\ part * (i + 1) = part * i + part /\ part * i \in Nat
      BY <2>3, <2>4, Monotone
    <3> QED BY <3>1
  <2> HIDE DEF limit0
  <2>8. \A k \in keys : k \in Nat /\ k + part <= size
    BY <2>7
  <2>9. \A k \in keys : /\ cs[k] \in ChunkSet /\ cs[k].pos = k /\ cs[k].limit = k + part /\ cs[k].st = "run"
    <3> SUFFICES ASSUME NEW k \in keys
                 PROVE  cs[k] \in ChunkSet /\ cs[k].pos = k /\ cs[k].limit = k + part /\ cs[k].st = "run"
      OBVIOUS
    <3>1. cs[k] = [start |-> k, pos |-> k, limit |-> k + part, st |-> "run", susp |-> ends /\ k + part < size]
      BY DEF Chunk
    <3>2. k \in Nat /\ k + part \in Nat
      BY <2>3, <2>8
    <3>3. (ends /\ k + part < size) \in BOOLEAN
      OBVIOUS
    <3> HIDE DEF ends, cs
    <3> QED BY <3>1, <3>2, <3>3 DEF ChunkSet
  <2>10. cs \in [keys -> ChunkSet] /\ DOMAIN cs = keys
    BY <2>9
  <2>11. cs \in ChunkFunctions
    BY <2>8, <2>10 DEF ChunkFunctions
  <2>12. \A b \in limit0..(size - 1) : \E k \in keys : k <= b /\ b < k + part
    <3> SUFFICES ASSUME NEW b \in limit0..(size - 1) PROVE \E k \in keys : k <= b /\ b < k + part
      OBVIOUS
    <3> DEFINE i == (b - limit0) \div part
    <3>1. i \in Nat /\ part * i <= b - limit0 /\ b - limit0 < part * (i + 1)
      BY <2>3, <2>6, Quotient
    <3> HIDE DEF i
    <3>2. i < n
      <4> SUFFICES ASSUME n <= i PROVE FALSE
        BY <2>4, <3>1
      <4>1. part * n <= part * i
        BY <2>3, <2>4, <3>1, Monotone
      <4>2. part * i \in Nat
        BY <2>3, <3>1
      <4> QED BY <2>5, <2>6, <3>1, <4>1, <4>2
    <3>3. limit0 + part * i \in keys
      BY <2>4, <3>1, <3>2
    <3>4. part * (i + 1) = part * i + part /\ part * i \in Nat
      BY <2>3, <3>1
    <3>5. limit0 + part * i <= b /\ b < limit0 + part * i + part
      BY <2>3, <2>6, <3>1, <3>4
    <3> HIDE DEF keys
    <3> QED BY <3>3, <3>5
  <2> HIDE DEF cs, keys
  <2>13. j \in JobSet /\ j.chunks = cs /\ j.limit0 = limit0
    BY <2>6, <2>11 DEF JobSet, ends
  <2>14. Covered(j, size, disk)
    BY <2>9, <2>10, <2>12, <2>13 DEF Covered
  <2>15. /\ j.open /\ j.sized = "known" /\ ~j.limited /\ ~j.chunks_done /\ j.on
         /\ \A f \in {"pos", "cont", "no_parallel", "copied", "removed", "done", "err", "chunks_done", "open", "sized"} : j[f] = w.j[f]
    BY DEF JobSet, Undivided, Ended
  <2>16. \A k \in keys : cs[k].pos <= cs[k].limit /\ cs[k].limit <= size /\ k < cs[k].limit /\ cs[k].st = "run" /\ cs[k].pos < cs[k].limit
    BY <2>3, <2>8, <2>9
  <2>17. keys # {}
    <3>1. 0 \in 0..(n - 1)
      BY <2>4
    <3> QED BY <3>1 DEF keys
  <2> HIDE DEF j
  <2>18. Ranges(j, size) /\ Steady(j)
    BY <2>10, <2>13, <2>15, <2>16 DEF Ranges, Steady
  <2>19. Written(j, size, disk) /\ Ended(j, size, disk) /\ Fresh(j, disk, len)
    BY <2>10, <2>13, <2>15, <2>17 DEF Written, Ended, Fresh
  <2>d. Dense(j, disk, len)
    <3>1. \A k \in DOMAIN j.chunks : k <= j.chunks[k].pos
      BY <2>8, <2>9, <2>10, <2>13
    <3>2. ASSUME NEW k \in keys, NEW m \in keys, k < m PROVE k + part <= m
      <4>1. PICK i \in 0..(n - 1) : k = limit0 + part * i
        BY DEF keys
      <4>2. PICK i2 \in 0..(n - 1) : m = limit0 + part * i2
        BY DEF keys
      <4>3. part * i \in Nat /\ part * i2 \in Nat /\ part * (i + 1) = part * i + part /\ i \in Nat /\ i2 \in Nat
        BY <2>3, <2>4
      <4>4. i < i2
        <5> SUFFICES ASSUME i2 <= i PROVE FALSE
          BY <4>3
        <5>1. part * i2 <= part * i
          BY <2>3, <4>3, Monotone
        <5> QED BY <2>6, <3>2, <4>1, <4>2, <4>3, <5>1
      <4>5. part * (i + 1) <= part * i2
        BY <2>3, <4>3, <4>4, Monotone
      <4> QED BY <2>3, <2>6, <4>1, <4>2, <4>3, <4>5
    <3>3. ~j.cont => \A b \in j.limit0..(len - 1) : b \in disk
      BY <2>6, <2>13, <2>15
    <3> QED BY <2>9, <2>10, <2>13, <3>1, <3>2, <3>3 DEF Dense
  <2>20. [w EXCEPT !.j = j].j = j /\ [w EXCEPT !.j = j].s = w.s /\ [w EXCEPT !.j = j] \in [j : JobSet, s : StatusSet]
    BY <2>13
  <2> QED BY <2>1, <2>14, <2>15, <2>18, <2>19, <2>20, <2>d DEF Same
<1> QED BY <1>1, <1>2

\* Once the main copy has ended, its status file is removed before anything else is done.
Tidy(w) == w.j.copied => w.j.removed

LEMMA MakeChunksGood ==
  ASSUME NEW w, Good(w), Tidy(w), DOMAIN w.j.chunks = {}, ~w.j.chunks_done,
         ~w.j.cont /\ w.j.open => 0..(len - 1) \subseteq disk
  PROVE  Good(MakeChunks(w)) /\ Tidy(MakeChunks(w)) /\ MakeChunks(w).j.done = w.j.done
<1> DEFINE plain == [w EXCEPT !.j.no_parallel = TRUE]
           v == IF w.j.cont THEN LoadStatus(w) ELSE IF w.j.removed THEN w ELSE [w EXCEPT !.s = NoStatus]
           u == IF DOMAIN v.j.chunks # {} THEN v ELSE InitChunks(v)
<1>1. MakeChunks(w) = IF w.j.sized = "none" THEN plain
                      ELSE IF w.j.sized = "yet" \/ ~w.j.open THEN w
                      ELSE IF DOMAIN u.j.chunks = {} THEN [u EXCEPT !.j.no_parallel = TRUE]
                      ELSE IF w.j.cont THEN u ELSE SaveStatus(u)
  BY DEF MakeChunks
<1>2. ASSUME NEW x, Good(x)
      PROVE  /\ Good([x EXCEPT !.j.no_parallel = TRUE]) /\ [x EXCEPT !.j.no_parallel = TRUE].j.done = x.j.done
             /\ Tidy(x) => Tidy([x EXCEPT !.j.no_parallel = TRUE])
  <2> DEFINE j == [x.j EXCEPT !.no_parallel = TRUE]
             y == [x EXCEPT !.j = j]
  <2>1. y = [x EXCEPT !.j.no_parallel = TRUE] /\ j \in JobSet /\ y.j = j /\ y.s = x.s /\ y \in [j : JobSet, s : StatusSet]
    BY <1>2 DEF JobSet
  <2>2. /\ j.no_parallel /\ j.chunks = x.j.chunks /\ j.pos = x.j.pos /\ j.limit0 = x.j.limit0 /\ j.open = x.j.open
        /\ j.sized = x.j.sized /\ j.limited = x.j.limited /\ j.chunks_done = x.j.chunks_done /\ j.copied = x.j.copied
        /\ j.removed = x.j.removed /\ j.err = x.j.err /\ j.done = x.j.done /\ j.cont = x.j.cont /\ j.on = x.j.on
    BY <1>2 DEF JobSet
  <2> HIDE DEF j
  <2>3. JobOK(j, size, disk, len)
    BY <1>2, <2>2 DEF Written, Covered, Ranges, Ended, Fresh, Dense
  <2>4. Joint(j, x.s)
    BY <1>2, <2>2 DEF Joint
  <2> QED BY <1>2, <2>1, <2>2, <2>3, <2>4 DEF Tidy
<1>3. CASE w.j.sized # "known" \/ ~w.j.open
  <2>1. w.j.sized \in {"yet", "known", "none"}
    BY DEF JobSet
  <2> HIDE DEF u, v
  <2>2. MakeChunks(w) = plain \/ MakeChunks(w) = w
    BY <1>1, <1>3, <2>1
  <2> QED BY <1>2, <2>2
<1>4. CASE w.j.sized = "known" /\ w.j.open
  <2>1. Undivided(w)
    BY <1>4 DEF Undivided
  <2>2. CASE w.j.cont
    <3>1. Good(v) /\ Same(v, w) /\ Steady(v.j)
      BY <2>1, <2>2, LoadStatusGood
    <3> HIDE DEF v
    <3>2. CASE DOMAIN v.j.chunks # {}
      BY <1>1, <1>4, <2>2, <3>1, <3>2 DEF Same, Tidy
    <3>3. CASE DOMAIN v.j.chunks = {}
      <4>1. Undivided(v) /\ v.j.cont
        BY <2>1, <2>2, <3>1, <3>3 DEF Undivided, Same
      <4>2. Half(u) /\ u.s = v.s /\ Same(u, v)
        BY <3>1, <3>3, <4>1, InitChunksGood
      <4> HIDE DEF u
      <4>3. Joint(u.j, u.s)
        BY <3>1, <4>1, <4>2 DEF Joint, Same
      <4>4. Good(u) /\ Tidy(u) /\ u.j.done = w.j.done
        BY <3>1, <4>2, <4>3 DEF Same, Tidy
      <4> QED BY <1>1, <1>2, <1>4, <2>2, <4>4
    <3> QED BY <3>2, <3>3
  <2>3. CASE ~w.j.cont
    <3>1. v.j = w.j /\ Half(v) /\ (w.j.removed => v = w) /\ (~w.j.removed => ~v.s.on)
      <4>1. CASE w.j.removed
        BY <2>3, <4>1
      <4>2. CASE ~w.j.removed
        <5>1. NoStatus \in StatusSet /\ ~NoStatus.on
          BY NoChunksIs DEF NoStatus, NoChunks, StatusSet
        <5>2. v.j = w.j /\ v.s = NoStatus /\ v \in [j : JobSet, s : StatusSet]
          BY <2>3, <4>2, <5>1
        <5>3. Recorded(NoStatus, size, disk, len)
          BY <1>4, <2>3, <5>1 DEF Recorded
        <5> HIDE DEF v
        <5> QED BY <4>2, <5>1, <5>2, <5>3
      <4> QED BY <4>1, <4>2
    <3> HIDE DEF v
    <3>2. Undivided(v) /\ u = InitChunks(v)
      BY <2>1, <3>1 DEF Undivided
    <3>3. Half(u) /\ u.s = v.s /\ Same(u, v) /\ Steady(u.j)
      BY <1>4, <2>3, <3>1, <3>2, InitChunksGood
    <3> HIDE DEF u
    <3>4. CASE DOMAIN u.j.chunks = {}
      <4>1. Joint(u.j, u.s)
        BY <1>4, <2>3, <3>1, <3>3, <3>4 DEF Joint, Same
      <4> QED BY <1>1, <1>2, <1>4, <3>1, <3>3, <3>4, <4>1 DEF Same, Tidy
    <3>5. CASE DOMAIN u.j.chunks # {}
      <4>1. u.j.removed => u.j.copied /\ ~u.s.on
        BY <3>1, <3>3 DEF Same, Joint
      <4>2. Good(SaveStatus(u)) /\ SaveStatus(u).j = u.j
        BY <3>3, <4>1, SaveStatusGood
      <4> QED BY <1>1, <1>4, <2>3, <3>1, <3>3, <3>5, <4>2 DEF Same, Tidy
    <3> QED BY <3>4, <3>5
  <2> QED BY <2>2, <2>3
<1> QED BY <1>3, <1>4 DEF JobSet

LEMMA CycleGood ==
  ASSUME NEW w, Good(w), Tidy(w), DOMAIN w.j.chunks # {} \/ w.j.chunks_done
  PROVE  Good(Cycle(w)) /\ Tidy(Cycle(w)) /\ Cycle(w).j.done = w.j.done
<1> DEFINE cs == w.j.chunks
           plain == w.j.no_parallel \/ \E k \in DOMAIN cs : Failed(cs[k])
           all == \A k \in DOMAIN cs : cs[k].st = "done"
           j == [w.j EXCEPT !.chunks_done = all, !.no_parallel = plain, !.chunks = IF plain THEN NoChunks ELSE cs]
<1>1. Cycle(w) = [w EXCEPT !.j = j]
  BY DEF Cycle, JobSet
<1>2. plain \in BOOLEAN /\ all \in BOOLEAN /\ NoChunks \in ChunkFunctions /\ DOMAIN NoChunks = {}
  BY NoChunksIs DEF JobSet
<1>3. /\ j \in JobSet /\ j.chunks_done = all /\ j.no_parallel = plain /\ (plain => DOMAIN j.chunks = {}) /\ (~plain => j.chunks = cs)
      /\ j.pos = w.j.pos /\ j.limit0 = w.j.limit0 /\ j.open = w.j.open /\ j.on /\ j.cont = w.j.cont
      /\ j.sized = w.j.sized /\ j.limited = w.j.limited /\ j.copied = w.j.copied
      /\ j.removed = w.j.removed /\ j.err = w.j.err /\ j.done = w.j.done
  <2> HIDE DEF plain, all
  <2> QED BY <1>2 DEF JobSet
<1>4. [w EXCEPT !.j = j].j = j /\ [w EXCEPT !.j = j].s = w.s /\ [w EXCEPT !.j = j] \in [j : JobSet, s : StatusSet]
  BY <1>3
<1>5. w.j.limited => all
  BY DEF Ended, Ranges
<1> HIDE DEF j, plain
<1>6. Written(j, size, disk) /\ Covered(j, size, disk) /\ Ended(j, size, disk)
  BY <1>3, <1>5 DEF Written, Covered, Ended
<1>7. Ranges(j, size)
  BY <1>3 DEF Ranges
<1>8. Fresh(j, disk, len)
  BY <1>3 DEF Fresh, Ranges
<1>9. Dense(j, disk, len)
  BY <1>3 DEF Dense
<1>10. Joint(j, w.s)
  BY <1>3 DEF Joint
<1> QED BY <1>1, <1>3, <1>4, <1>6, <1>7, <1>8, <1>9, <1>10 DEF Tidy

LEMMA ChunksGood ==
  ASSUME NEW w, Good(w), Tidy(w), ~w.j.cont /\ w.j.open /\ DOMAIN w.j.chunks = {} /\ ~w.j.chunks_done => 0..(len - 1) \subseteq disk
  PROVE  Good(Chunks(w)) /\ Tidy(Chunks(w)) /\ Chunks(w).j.done = w.j.done
<1>1. CASE w.j.done
  BY <1>1 DEF Chunks
<1>2. CASE ~w.j.done /\ (DOMAIN w.j.chunks # {} \/ w.j.chunks_done)
  BY <1>2, CycleGood DEF Chunks
<1>3. CASE ~w.j.done /\ DOMAIN w.j.chunks = {} /\ ~w.j.chunks_done
  <2>1. Good(MakeChunks(w)) /\ Tidy(MakeChunks(w)) /\ MakeChunks(w).j.done = w.j.done
    BY <1>3, MakeChunksGood
  <2>2. Chunks(w) = IF DOMAIN MakeChunks(w).j.chunks = {} THEN MakeChunks(w) ELSE Cycle(MakeChunks(w))
    BY <1>3 DEF Chunks
  <2> QED BY <2>1, <2>2, CycleGood
<1> QED BY <1>1, <1>2, <1>3

LEMMA CopyJobDoGood ==
  ASSUME NEW w, Good(w), Tidy(w)
  PROVE  Good(CopyJobDo(w)) /\ Tidy(CopyJobDo(w)) /\ CopyJobDo(w).j.chunks = w.j.chunks /\ CopyJobDo(w).j.no_parallel = w.j.no_parallel
<1> DEFINE j == [w.j EXCEPT !.done = w.j.err \/ w.j.copied, !.susp = FALSE]
<1>1. CopyJobDo(w) = [w EXCEPT !.j = j]
  BY DEF CopyJobDo, JobSet
<1>2. /\ j \in JobSet /\ j.chunks_done = w.j.chunks_done /\ j.no_parallel = w.j.no_parallel /\ j.chunks = w.j.chunks
      /\ j.pos = w.j.pos /\ j.limit0 = w.j.limit0 /\ j.open = w.j.open /\ j.on /\ j.cont = w.j.cont
      /\ j.sized = w.j.sized /\ j.limited = w.j.limited /\ j.copied = w.j.copied
      /\ j.removed = w.j.removed /\ j.err = w.j.err /\ j.done = (w.j.err \/ w.j.copied)
  BY DEF JobSet
<1>3. [w EXCEPT !.j = j].j = j /\ [w EXCEPT !.j = j].s = w.s /\ [w EXCEPT !.j = j] \in [j : JobSet, s : StatusSet]
  BY <1>2
<1> HIDE DEF j
<1>4. Written(j, size, disk) /\ Covered(j, size, disk) /\ Ranges(j, size) /\ Fresh(j, disk, len) /\ Dense(j, disk, len)
  BY <1>2 DEF Written, Covered, Ranges, Fresh, Dense
<1>5. Ended(j, size, disk) /\ Joint(j, w.s)
  BY <1>2 DEF Ended, Joint, Tidy
<1> QED BY <1>1, <1>2, <1>3, <1>4, <1>5 DEF Tidy

\* The main copy has come to the first chunk.
LEMMA AtLimitGood ==
  ASSUME NEW w, Good(w), Tidy(w), DOMAIN w.j.chunks # {}, w.j.pos >= w.j.limit0
  PROVE  /\ Good(AtLimit(w)) /\ Tidy(AtLimit(w)) /\ AtLimit(w).j.done = w.j.done
         /\ LET x == AtLimit(w).j IN ~x.cont /\ x.open /\ DOMAIN x.chunks = {} /\ ~x.chunks_done => 0..(len - 1) \subseteq disk
<1> DEFINE cs == w.j.chunks
           first == Min(DOMAIN cs)
           next == cs[first]
           last == cs[Max(DOMAIN cs)]
           on == [w EXCEPT !.j = [w.j EXCEPT !.ends_pending = FALSE, !.chunks = [k \in DOMAIN cs |-> [cs[k] EXCEPT !.susp = FALSE]]]]
           alone == [w EXCEPT !.j = [w.j EXCEPT !.susp = FALSE, !.no_parallel = TRUE, !.chunks = NoChunks]]
           over == [w EXCEPT !.j = [w.j EXCEPT !.susp = FALSE, !.limit0 = next.limit, !.chunks = Restrict(cs, DOMAIN cs \ {first})]]
           Fine(x) == /\ Good(x) /\ Tidy(x) /\ x.j.done = w.j.done
                      /\ ~x.j.cont /\ x.j.open /\ DOMAIN x.j.chunks = {} /\ ~x.j.chunks_done => 0..(len - 1) \subseteq disk
<1>0. w.j \in JobSet /\ cs \in ChunkFunctions
  BY DEF JobSet
<1>1. first \in DOMAIN cs /\ (\A k \in DOMAIN cs : first <= k) /\ DOMAIN cs \subseteq Nat
  BY <1>0, ChunksAre, LeastOfNat
<1> HIDE DEF first
<1>2. \/ AtLimit(w) \in {Plain(w), Wait(w), on}
      \/ AtLimit(w) = alone /\ DOMAIN cs = {first}
      \/ AtLimit(w) = over /\ DOMAIN cs # {first}
  <2>1. /\ on = [w EXCEPT !.j.ends_pending = FALSE, !.j.chunks = [k \in DOMAIN cs |-> [cs[k] EXCEPT !.susp = FALSE]]]
        /\ alone = [w EXCEPT !.j.susp = FALSE, !.j.no_parallel = TRUE, !.j.chunks = NoChunks]
        /\ over = [w EXCEPT !.j.susp = FALSE, !.j.limit0 = next.limit, !.j.chunks = Restrict(cs, DOMAIN cs \ {first})]
    BY DEF JobSet
  <2> HIDE DEF on, alone, over
  <2> QED BY <2>1 DEF AtLimit, first
<1>3. Fine(Plain(w)) /\ Fine(Wait(w))
  <2>1. ASSUME NEW a \in BOOLEAN, NEW b \in BOOLEAN PROVE Fine([w EXCEPT !.j = [w.j EXCEPT !.susp = a, !.no_parallel = b]])
    <3> DEFINE j == [w.j EXCEPT !.susp = a, !.no_parallel = b]
               y == [w EXCEPT !.j = j]
    <3>1. j \in JobSet /\ y.j = j /\ y.s = w.s /\ y \in [j : JobSet, s : StatusSet]
      BY ZenonT(30) DEF JobSet
    <3>2. /\ j.chunks = w.j.chunks /\ j.pos = w.j.pos /\ j.limit0 = w.j.limit0 /\ j.open = w.j.open
          /\ j.sized = w.j.sized /\ j.limited = w.j.limited /\ j.chunks_done = w.j.chunks_done /\ j.copied = w.j.copied
          /\ j.removed = w.j.removed /\ j.err = w.j.err /\ j.done = w.j.done /\ j.cont = w.j.cont /\ j.on = w.j.on
      BY DEF JobSet
    <3>3. y = [w EXCEPT !.j = [w.j EXCEPT !.susp = a, !.no_parallel = b]]
      OBVIOUS
    <3> HIDE DEF j, y
    <3>4. JobOK(j, size, disk, len) /\ Joint(j, w.s)
      BY <3>2 DEF Written, Covered, Ranges, Ended, Fresh, Dense, Joint
    <3> QED BY <3>1, <3>2, <3>3, <3>4 DEF Tidy
  <2>2. /\ Plain(w) = [w EXCEPT !.j = [w.j EXCEPT !.susp = FALSE, !.no_parallel = TRUE]]
        /\ Wait(w) = [w EXCEPT !.j = [w.j EXCEPT !.susp = TRUE, !.no_parallel = w.j.no_parallel]]
        /\ w.j.no_parallel \in BOOLEAN
    BY DEF Plain, Wait, JobSet
  <2> QED BY <2>1, <2>2, ZenonT(30)
<1>4. Fine(on)
  <2> DEFINE cs2 == [k \in DOMAIN cs |-> [cs[k] EXCEPT !.susp = FALSE]]
             j == [w.j EXCEPT !.ends_pending = FALSE, !.chunks = cs2]
  <2>1. \A k \in DOMAIN cs : /\ cs2[k] \in ChunkSet /\ cs2[k].pos = cs[k].pos /\ cs2[k].limit = cs[k].limit /\ cs2[k].st = cs[k].st
    <3> SUFFICES ASSUME NEW k \in DOMAIN cs
                 PROVE  LET c == [cs[k] EXCEPT !.susp = FALSE]
                        IN  c \in ChunkSet /\ c.pos = cs[k].pos /\ c.limit = cs[k].limit /\ c.st = cs[k].st
      OBVIOUS
    <3>1. cs[k] \in ChunkSet
      BY <1>0, ChunksAre
    <3> HIDE DEF cs
    <3> QED BY <3>1 DEF ChunkSet
  <2>2. DOMAIN cs2 = DOMAIN cs /\ cs2 \in [DOMAIN cs -> ChunkSet]
    BY <2>1
  <2>3. cs2 \in ChunkFunctions
    BY <1>1, <2>2 DEF ChunkFunctions
  <2> HIDE DEF cs2
  <2>4. /\ j \in JobSet /\ j.chunks = cs2 /\ j.pos = w.j.pos /\ j.limit0 = w.j.limit0 /\ j.open = w.j.open
        /\ j.sized = w.j.sized /\ j.limited = w.j.limited /\ j.chunks_done = w.j.chunks_done /\ j.copied = w.j.copied
        /\ j.removed = w.j.removed /\ j.err = w.j.err /\ j.done = w.j.done /\ j.cont = w.j.cont /\ j.on = w.j.on
    BY <2>3 DEF JobSet
  <2>5. on = [w EXCEPT !.j = j]
    BY DEF cs2
  <2> HIDE DEF j, on
  <2>6. on.j = j /\ on.s = w.s /\ on \in [j : JobSet, s : StatusSet]
    BY <2>4, <2>5
  <2>7. Written(j, size, disk) /\ Ended(j, size, disk) /\ Fresh(j, disk, len) /\ Joint(j, w.s)
    BY <2>2, <2>4 DEF Written, Ended, Fresh, Joint
  <2>8. Covered(j, size, disk)
    BY <2>1, <2>2, <2>4 DEF Covered
  <2>9. Ranges(j, size)
    BY <2>1, <2>2, <2>4 DEF Ranges
  <2>10. Dense(j, disk, len)
    BY <2>1, <2>2, <2>4 DEF Dense
  <2> QED BY <2>2, <2>4, <2>6, <2>7, <2>8, <2>9, <2>10 DEF Tidy
<1>5. ASSUME DOMAIN cs = {first} PROVE Fine(alone)
  <2> DEFINE j == [w.j EXCEPT !.susp = FALSE, !.no_parallel = TRUE, !.chunks = NoChunks]
  <2>1. /\ j \in JobSet /\ DOMAIN j.chunks = {} /\ j.pos = w.j.pos /\ j.limit0 = w.j.limit0 /\ j.open = w.j.open /\ j.no_parallel
        /\ j.sized = w.j.sized /\ j.limited = w.j.limited /\ j.chunks_done = w.j.chunks_done /\ j.copied = w.j.copied
        /\ j.removed = w.j.removed /\ j.err = w.j.err /\ j.done = w.j.done /\ j.cont = w.j.cont /\ j.on = w.j.on
    BY NoChunksIs DEF JobSet
  <2>2. alone = [w EXCEPT !.j = j]
    OBVIOUS
  <2> HIDE DEF j, alone
  <2>3. alone.j = j /\ alone.s = w.s /\ alone \in [j : JobSet, s : StatusSet]
    BY <2>1, <2>2
  <2>4. JobOK(j, size, disk, len) /\ Joint(j, w.s)
    BY <2>1 DEF Written, Covered, Ranges, Ended, Fresh, Dense, Joint
  <2>5. ~w.j.cont => 0..(len - 1) \subseteq disk
    <3> SUFFICES ASSUME ~w.j.cont, NEW b \in 0..(len - 1), b \notin disk PROVE FALSE
      OBVIOUS
    <3>1. ~(b < w.j.limit0)
      BY DEF Written, JobSet
    <3>2. \A k, m \in DOMAIN cs : ~(k < m)
      BY <1>1, <1>5
    <3> QED BY <3>1, <3>2 DEF Dense, JobSet
  <2> QED BY <2>1, <2>3, <2>4, <2>5 DEF Tidy
<1>6. ASSUME DOMAIN cs # {first} PROVE Fine(over)
  <2> DEFINE keys == DOMAIN cs \ {first}
             cs2 == Restrict(cs, keys)
             j == [w.j EXCEPT !.susp = FALSE, !.limit0 = next.limit, !.chunks = cs2]
  <2>1. keys # {} /\ keys \subseteq DOMAIN cs /\ keys \subseteq Nat
    BY <1>1, <1>6
  <2>2. DOMAIN cs2 = keys /\ \A k \in keys : cs2[k] = cs[k] /\ cs[k] \in ChunkSet
    BY <1>0, ChunksAre DEF Restrict
  <2>3. cs2 = [k \in keys |-> cs[k]]
    BY DEF Restrict
  <2>4. cs2 \in [keys -> ChunkSet]
    BY <2>2, <2>3
  <2>5. cs2 \in ChunkFunctions
    BY <2>1, <2>4 DEF ChunkFunctions
  <2>6. next.limit \in Nat /\ first \in Nat
    BY <1>0, <1>1, ChunksAre
  <2> HIDE DEF cs2, next
  <2>7. /\ j \in JobSet /\ j.chunks = cs2 /\ j.pos = w.j.pos /\ j.limit0 = next.limit /\ j.open = w.j.open
        /\ j.sized = w.j.sized /\ j.limited = w.j.limited /\ j.chunks_done = w.j.chunks_done /\ j.copied = w.j.copied
        /\ j.removed = w.j.removed /\ j.err = w.j.err /\ j.done = w.j.done /\ j.cont = w.j.cont /\ j.on = w.j.on
    BY <2>5, <2>6 DEF JobSet
  <2>8. over = [w EXCEPT !.j = j]
    BY DEF cs2
  <2> HIDE DEF j, over, keys
  <2>9. over.j = j /\ over.s = w.s /\ over \in [j : JobSet, s : StatusSet]
    BY <2>7, <2>8
  <2>10. Written(j, size, disk)
    BY <2>7 DEF Written
  <2>11. ~w.j.limited /\ w.j.open
    BY DEF Ranges
  <2>12. Ended(j, size, disk) /\ Joint(j, w.s)
    BY <2>7, <2>11 DEF Ended, Joint
  <2>13. Fresh(j, disk, len)
    BY <2>1, <2>2, <2>7, <2>11 DEF Fresh
  <2>14. Ranges(j, size)
    BY <2>1, <2>2, <2>7 DEF Ranges
  <2>15. ASSUME NEW b \in next.limit..(size - 1), b \notin disk PROVE b \in w.j.limit0..(size - 1)
    <3>1. w.j.pos \in Nat /\ w.j.limit0 \in Nat /\ 0..(w.j.pos - 1) \subseteq disk
      BY DEF Written, JobSet
    <3> QED BY <2>6, <2>15, <3>1
  <2>16. Covered(j, size, disk)
    <3> SUFFICES ASSUME NEW b \in next.limit..(size - 1), b \notin disk
                 PROVE  \E k \in keys : cs2[k].pos <= b /\ b < cs2[k].limit
      BY <2>2, <2>7 DEF Covered
    <3>1. PICK k \in DOMAIN cs : cs[k].pos <= b /\ b < cs[k].limit
      BY <2>15 DEF Covered
    <3>2. k # first
      BY <2>6, <3>1 DEF next
    <3> QED BY <2>2, <3>1, <3>2 DEF keys
  <2>17. Dense(j, disk, len)
    <3> SUFFICES ASSUME ~w.j.cont PROVE Dense(j, disk, len)
      BY <2>7 DEF Dense
    <3>1. ASSUME NEW b \in next.limit..(len - 1), b \notin disk
          PROVE  \E k, m \in keys : k < m /\ cs2[k].pos <= b /\ b < cs2[k].limit
      <4>1. b \in w.j.limit0..(len - 1)
        BY <2>6, <3>1 DEF Written, JobSet
      <4>2. PICK k \in DOMAIN cs, m \in DOMAIN cs : k < m /\ cs[k].pos <= b /\ b < cs[k].limit
        BY <3>1, <4>1 DEF Dense
      <4>3. k # first /\ m # first
        BY <1>1, <2>6, <3>1, <4>2 DEF next
      <4> QED BY <2>2, <4>2, <4>3 DEF keys
    <3>2. \A k \in keys : k <= cs2[k].pos
      BY <2>1, <2>2 DEF Dense
    <3>3. \A k, m \in keys : k < m => cs2[k].limit <= m
      BY <2>1, <2>2 DEF Dense
    <3> QED BY <2>2, <2>7, <3>1, <3>2, <3>3 DEF Dense
  <2> QED BY <2>1, <2>2, <2>7, <2>9, <2>10, <2>12, <2>13, <2>14, <2>16, <2>17 DEF Tidy
<1> QED BY <1>2, <1>3, <1>4, <1>5, <1>6

\* All that the chunks had to write is written when they are all done.
LEMMA StopGood ==
  ASSUME NEW w, Good(w), Tidy(w)
  PROVE  Good(Stop(w)) /\ Tidy(Stop(w)) /\ Stop(w).j.no_parallel = w.j.no_parallel
<1> DEFINE j == [w.j EXCEPT !.susp = FALSE, !.limited = TRUE, !.chunks = NoChunks]
           y == [w EXCEPT !.j = j]
           stops == w.j.chunks_done /\ DOMAIN w.j.chunks # {} /\ w.j.pos >= w.j.limit0
<1>1. CASE ~stops
  BY <1>1 DEF Stop
<1>2. CASE stops
  <2>1. Stop(w) = y /\ y.j = j /\ y.s = w.s
    BY <1>2 DEF Stop, JobSet
  <2>2. /\ j \in JobSet /\ DOMAIN j.chunks = {} /\ j.pos = w.j.pos /\ j.limit0 = w.j.limit0 /\ j.open = w.j.open
        /\ j.no_parallel = w.j.no_parallel /\ j.sized = w.j.sized /\ j.limited /\ j.chunks_done = w.j.chunks_done
        /\ j.copied = w.j.copied /\ j.removed = w.j.removed /\ j.err = w.j.err /\ j.done = w.j.done /\ j.cont = w.j.cont /\ j.on
    BY NoChunksIs DEF JobSet
  <2>3. y \in [j : JobSet, s : StatusSet]
    BY <2>2
  <2> HIDE DEF j, y
  <2>4. 0..(size - 1) \subseteq disk
    <3> SUFFICES ASSUME NEW b \in 0..(size - 1), b \notin disk PROVE FALSE
      OBVIOUS
    <3>1. w.j.pos \in Nat /\ w.j.limit0 \in Nat /\ w.j.chunks \in ChunkFunctions
      BY DEF JobSet
    <3>2. b \in w.j.limit0..(size - 1)
      BY <1>2, <3>1 DEF Written
    <3>3. PICK k \in DOMAIN w.j.chunks : w.j.chunks[k].pos <= b /\ b < w.j.chunks[k].limit
      BY <1>2, <3>2 DEF Covered
    <3>4. w.j.chunks[k].pos = w.j.chunks[k].limit /\ w.j.chunks[k].pos \in Nat
      BY <1>2, <3>1, ChunksAre DEF Ranges
    <3> QED BY <3>3, <3>4
  <2>5. Ended(j, size, disk)
    BY <1>2, <2>2, <2>4 DEF Ended, Ranges
  <2>6. Written(j, size, disk) /\ Covered(j, size, disk) /\ Ranges(j, size) /\ Fresh(j, disk, len) /\ Dense(j, disk, len)
    BY <1>2, <2>2 DEF Written, Covered, Ranges, Fresh, Dense
  <2>7. Joint(j, w.s)
    BY <2>2 DEF Joint
  <2> QED BY <2>1, <2>2, <2>3, <2>5, <2>6, <2>7 DEF Tidy
<1> QED BY <1>1, <1>2

\* The status file is removed when the whole file is there.
LEMMA DoneGood ==
  ASSUME NEW w, Good(w)
  PROVE  Good(Done(w)) /\ Tidy(Done(w))
<1> DEFINE j == [w.j EXCEPT !.removed = TRUE]
           y == [w EXCEPT !.j = j, !.s = NoStatus]
<1>1. CASE ~w.j.copied
  BY <1>1 DEF Done, Tidy
<1>2. CASE w.j.copied
  <2>1. NoStatus \in StatusSet /\ ~NoStatus.on
    BY NoChunksIs DEF NoStatus, NoChunks, StatusSet
  <2>2. Done(w) = y /\ y.j = j /\ y.s = NoStatus
    BY <1>2 DEF Done, JobSet
  <2>3. /\ j \in JobSet /\ j.chunks = w.j.chunks /\ j.pos = w.j.pos /\ j.limit0 = w.j.limit0 /\ j.open = w.j.open
        /\ j.no_parallel = w.j.no_parallel /\ j.sized = w.j.sized /\ j.limited = w.j.limited /\ j.chunks_done = w.j.chunks_done
        /\ j.copied /\ j.removed /\ j.err = w.j.err /\ j.done = w.j.done /\ j.cont = w.j.cont /\ j.on
    BY <1>2 DEF JobSet
  <2>4. y \in [j : JobSet, s : StatusSet]
    BY <2>1, <2>3
  <2> HIDE DEF j, y
  <2>5. Written(j, size, disk) /\ Covered(j, size, disk) /\ Ranges(j, size) /\ Fresh(j, disk, len) /\ Dense(j, disk, len)
    BY <2>3 DEF Written, Covered, Ranges, Fresh, Dense
  <2>6. Ended(j, size, disk) /\ 0..(size - 1) \subseteq disk
    BY <1>2, <2>3 DEF Ended
  <2>7. Recorded(NoStatus, size, disk, len)
    BY <2>1, <2>6 DEF Recorded
  <2>8. Joint(j, NoStatus)
    BY <2>1, <2>3 DEF Joint
  <2> QED BY <2>1, <2>2, <2>3, <2>4, <2>5, <2>6, <2>7, <2>8 DEF Tidy
<1> QED BY <1>1, <1>2

LEMMA DoAllGood ==
  ASSUME NEW w, Good(w), Tidy(w)
  PROVE  Good(DoAll(w))
<1> DEFINE v == Stop(w)
<1>1. Good(v) /\ Tidy(v) /\ v.j.no_parallel = w.j.no_parallel
  BY StopGood
<1>2. CASE w.j.no_parallel
  BY <1>2, CopyJobDoGood DEF DoAll
<1>3. CASE ~w.j.no_parallel /\ (DOMAIN v.j.chunks = {} \/ v.j.pos < v.j.limit0)
  <2> DEFINE u == CopyJobDo(v)
  <2>1. DoAll(w) = Chunks(u)
    BY <1>3 DEF DoAll
  <2>2. Good(u) /\ Tidy(u) /\ u.j.no_parallel = FALSE
    BY <1>1, <1>3, CopyJobDoGood DEF JobSet
  <2> HIDE DEF u
  <2>3. ~u.j.cont /\ u.j.open /\ DOMAIN u.j.chunks = {} /\ ~u.j.chunks_done => 0..(len - 1) \subseteq disk
    BY <2>2 DEF Fresh
  <2> QED BY <2>1, <2>2, <2>3, ChunksGood
<1>4. CASE ~w.j.no_parallel /\ ~(DOMAIN v.j.chunks = {} \/ v.j.pos < v.j.limit0)
  <2> DEFINE u == AtLimit(v)
  <2>1. DoAll(w) = Chunks(u)
    BY <1>4 DEF DoAll
  <2> HIDE DEF v
  <2>2. v.j.pos \in Nat /\ v.j.limit0 \in Nat
    BY <1>1 DEF JobSet
  <2>3. DOMAIN v.j.chunks # {} /\ v.j.pos >= v.j.limit0
    BY <1>4, <2>2
  <2>4. /\ Good(u) /\ Tidy(u)
        /\ ~u.j.cont /\ u.j.open /\ DOMAIN u.j.chunks = {} /\ ~u.j.chunks_done => 0..(len - 1) \subseteq disk
    BY <1>1, <2>3, AtLimitGood
  <2> HIDE DEF u
  <2> QED BY <2>1, <2>4, ChunksGood
<1> QED BY <1>2, <1>3, <1>4

LEMMA StepGood ==
  ASSUME NEW w, Good(w)
  PROVE  Good(Step(w))
BY DoneGood, DoAllGood DEF Step

-----------------------------------------------------------------------------
(* The invariant.                                                          *)

LEMMA NewJobIs ==
  ASSUME NEW cont \in BOOLEAN, NEW pos \in Nat, NEW ends \in BOOLEAN
  PROVE  /\ NewJob(cont, pos, ends) \in JobSet /\ NoJob \in JobSet /\ ~NoJob.on
         /\ DOMAIN NewJob(cont, pos, ends).chunks = {}
  BY NoChunksIs DEF NewJob, NoJob, JobSet

\* Init has no job, no local file and no status file.
LEMMA InitGood == Init => IInv
<1> SUFFICES ASSUME Init PROVE IInv
  OBVIOUS
<1>1. NoStatus \in StatusSet /\ ~NoStatus.on
  BY NoChunksIs DEF NoStatus, NoChunks, StatusSet
<1>2. NoJob \in JobSet /\ ~NoJob.on
  BY NewJobIs
<1>3. size \in Nat /\ size <= N /\ len \in Int /\ len <= size /\ 0..(len - 1) \subseteq disk
  BY PgetAssumption DEF Init
<1> QED BY <1>1, <1>2, <1>3 DEF Init, IInv, Sane, Recorded

\* A byte that is written changes nothing of what the status file says of the others.
LEMMA WriteKeeps ==
  ASSUME NEW p \in Nat, Write(p), IInv, p < size, status.on \/ 0..(IF len > p THEN len - 1 ELSE p) \subseteq disk \cup {p}
  PROVE  /\ Recorded(status, size, disk', len') /\ len' \in Int /\ len' <= size
         /\ disk \subseteq disk' /\ p \in disk'
<1>1. disk' = disk \cup {p} /\ len' = (IF len > p THEN len ELSE p + 1) /\ len \in Int /\ size \in Nat /\ len <= size
  BY DEF Write, IInv, Sane
<1>2. Recorded(status, size, disk, len)
  BY DEF IInv, Sane
<1>3. Listed(status, size, disk) => Listed(status, size, disk')
  BY <1>1 DEF Listed
<1> QED BY <1>1, <1>2, <1>3 DEF Recorded

LEMMA DoKeeps ==
  ASSUME ~AnyMoment, IInv, Do
  PROVE  IInv'
<1>1. Good(W) /\ W.j = job /\ W.s = status
  BY DEF IInv, Sane, W, Do
<1>2. Settled => Steady(job)
  <2> SUFFICES ASSUME Settled, NEW k \in DOMAIN job.chunks
               PROVE  job.chunks[k].st \in {"run", "done"} /\ (job.chunks[k].st = "run" => job.chunks[k].pos < job.chunks[k].limit)
    BY DEF Steady
  <2>1. job.chunks[k].st \in {"run", "err", "gone", "done"}
    BY ChunksAre DEF IInv, Sane, JobSet
  <2> QED BY <2>1 DEF Settled, Failed
<1>3. Settled => Good(SaveStatus(W))
  BY <1>1, <1>2, SaveStatusGood DEF Joint
<1>4. PICK w \in {Step(W)} \cup (IF AnyMoment \/ Settled THEN {Step(SaveStatus(W))} ELSE {}) : job' = w.j /\ status' = w.s
  BY DEF Do
<1>5. Good(w)
  BY <1>1, <1>3, <1>4, StepGood
<1> QED BY <1>5, <1>4 DEF Do, IInv, Sane

\* The main copy: its size, its file, what it writes.
LEMMA MainKeeps ==
  ASSUME IInv, Sized \/ OpenFile \/ CopyMain \/ MainFails
  PROVE  IInv'
<1> USE DEF Sane
<1>1. job \in JobSet /\ job.on /\ ~job.done /\ ~job.err /\ JobOK(job, size, disk, len) /\ Joint(job, status)
  BY DEF IInv, Runs, Sized, OpenFile, CopyMain, MainFails
<1>2. /\ status \in StatusSet /\ size \in Nat /\ size <= N /\ len \in Int /\ len <= size /\ Recorded(status, size, disk, len)
      /\ job.pos \in Nat /\ job.limit0 \in Nat
  BY DEF IInv, JobSet
<1>3. CASE Sized
  <2>1. PICK x \in {"known", "none"} : job' = [job EXCEPT !.sized = x]
    BY <1>3 DEF Sized
  <2>2. /\ job' \in JobSet /\ job'.chunks = job.chunks /\ job'.pos = job.pos /\ job'.limit0 = job.limit0 /\ job'.open = job.open
        /\ job'.no_parallel = job.no_parallel /\ job'.limited = job.limited /\ job'.chunks_done = job.chunks_done
        /\ job'.copied = job.copied /\ job'.removed = job.removed /\ job'.err = job.err /\ job'.done = job.done
        /\ job'.cont = job.cont /\ job'.on
    BY <1>1, <2>1 DEF JobSet
  <2>3. UNCHANGED <<size, disk, len, status>> /\ job.sized = "yet"
    BY <1>3 DEF Sized
  <2>4. JobOK(job', size, disk, len) /\ Joint(job', status)
    BY <1>1, <2>2, <2>3 DEF Written, Covered, Ranges, Ended, Fresh, Dense, Joint
  <2> QED BY <1>2, <2>2, <2>3, <2>4 DEF IInv
<1>4. CASE OpenFile
  <2>1. /\ job' \in JobSet /\ job'.chunks = job.chunks /\ job'.pos = job.pos /\ job'.limit0 = job.limit0 /\ job'.open
        /\ job'.no_parallel = job.no_parallel /\ job'.limited = job.limited /\ job'.chunks_done = job.chunks_done
        /\ job'.copied = job.copied /\ job'.removed = job.removed /\ job'.err = job.err /\ job'.done = job.done
        /\ job'.cont = job.cont /\ job'.on
    BY <1>1, <1>4 DEF OpenFile, JobSet
  <2>2. /\ ~job.open /\ size' = size /\ status' = status
        /\ IF job.cont THEN len' = (IF len = -1 THEN 0 ELSE len) /\ disk' = disk ELSE len' = 0 /\ disk' = {}
    BY <1>4 DEF OpenFile
  <2>3. ~job.limited /\ ~job.copied /\ ~job.removed /\ DOMAIN job.chunks = {}
    BY <1>1, <2>2 DEF Ended, Ranges, Joint
  <2>4. len' \in Int /\ len' <= size /\ Recorded(status, size, disk', len')
    BY <1>1, <1>2, <2>2 DEF Recorded, Joint
  <2>5. Written(job', size, disk')
    BY <1>1, <1>2, <2>1, <2>2 DEF Written, Fresh
  <2>6. /\ Covered(job', size, disk') /\ Ranges(job', size) /\ Ended(job', size, disk') /\ Dense(job', disk', len')
        /\ Joint(job', status)
    BY <1>1, <2>1, <2>2, <2>3 DEF Covered, Ranges, Ended, Dense, Joint
  <2>7. Fresh(job', disk', len')
    BY <2>1, <2>2 DEF Fresh
  <2> QED BY <1>2, <2>1, <2>2, <2>4, <2>5, <2>6, <2>7 DEF IInv
<1>5. CASE CopyMain
  <2>1. job.open /\ size' = size /\ status' = status
    BY <1>5 DEF CopyMain
  <2>2. CASE job.pos >= (IF job.limited THEN job.limit0 ELSE size)
    <3>1. job' = [job EXCEPT !.copied = TRUE] /\ disk' = disk /\ len' = len
      BY <1>5, <2>2 DEF CopyMain
    <3>2. /\ job' \in JobSet /\ job'.chunks = job.chunks /\ job'.pos = job.pos /\ job'.limit0 = job.limit0 /\ job'.open = job.open
          /\ job'.no_parallel = job.no_parallel /\ job'.limited = job.limited /\ job'.chunks_done = job.chunks_done
          /\ job'.copied /\ job'.removed = job.removed /\ job'.err = job.err /\ job'.done = job.done
          /\ job'.cont = job.cont /\ job'.on /\ job'.sized = job.sized
      BY <1>1, <3>1 DEF JobSet
    <3>3. 0..(size - 1) \subseteq disk
      BY <1>1, <1>2, <2>2 DEF Ended, Written
    <3>4. Ended(job', size, disk)
      BY <1>1, <2>1, <3>2, <3>3 DEF Ended
    <3>5. /\ Written(job', size, disk) /\ Covered(job', size, disk) /\ Ranges(job', size) /\ Fresh(job', disk, len)
          /\ Dense(job', disk, len) /\ Joint(job', status)
      BY <1>1, <3>2 DEF Written, Covered, Ranges, Fresh, Dense, Joint
    <3> QED BY <1>2, <2>1, <3>1, <3>2, <3>4, <3>5 DEF IInv
  <2>3. CASE ~(job.pos >= (IF job.limited THEN job.limit0 ELSE size))
    <3>1. job' = [job EXCEPT !.pos = @ + 1] /\ Write(job.pos) /\ ~job.copied
      BY <1>5, <2>3 DEF CopyMain
    <3>2. /\ job' \in JobSet /\ job'.chunks = job.chunks /\ job'.pos = job.pos + 1 /\ job'.limit0 = job.limit0 /\ job'.open = job.open
          /\ job'.no_parallel = job.no_parallel /\ job'.limited = job.limited /\ job'.chunks_done = job.chunks_done
          /\ job'.copied = job.copied /\ job'.removed = job.removed /\ job'.err = job.err /\ job'.done = job.done
          /\ job'.cont = job.cont /\ job'.on /\ job'.sized = job.sized
      BY <1>1, <1>2, <3>1 DEF JobSet
    <3>3. ~job.limited /\ job.pos < size
      BY <1>1, <1>2, <2>3 DEF Ended
    <3>4. status.on \/ 0..(IF len > job.pos THEN len - 1 ELSE job.pos) \subseteq disk \cup {job.pos}
      BY <1>1, <1>2 DEF Recorded, Written
    <3>5. /\ Recorded(status, size, disk', len') /\ len' \in Int /\ len' <= size
          /\ disk \subseteq disk' /\ job.pos \in disk'
      BY <1>2, <3>1, <3>3, <3>4, WriteKeeps
    <3>6. len' = (IF len > job.pos THEN len ELSE job.pos + 1) /\ 0..job.pos \subseteq disk'
      BY <1>1, <1>2, <3>1, <3>5 DEF Write, Written
    <3>7. Written(job', size, disk')
      BY <1>2, <3>2, <3>3, <3>6 DEF Written
    <3>8. Covered(job', size, disk')
      BY <1>1, <3>2, <3>5 DEF Covered
    <3>9. Ranges(job', size) /\ Ended(job', size, disk') /\ Joint(job', status)
      BY <1>1, <3>1, <3>2, <3>3 DEF Ranges, Ended, Joint
    <3>10. Fresh(job', disk', len')
      BY <1>1, <1>2, <2>1, <3>2, <3>5, <3>6 DEF Fresh
    <3>11. Dense(job', disk', len')
      <4> SUFFICES ASSUME ~job.cont PROVE Dense(job', disk', len')
        BY <3>2 DEF Dense
      <4>1. ASSUME NEW b \in job.limit0..(len' - 1), b \notin disk'
            PROVE  b \in job.limit0..(len - 1) /\ b \notin disk
        BY <1>2, <3>5, <3>6, <4>1
      <4> QED BY <1>1, <3>2, <4>1 DEF Dense
    <3> QED BY <1>2, <2>1, <3>2, <3>5, <3>7, <3>8, <3>9, <3>10, <3>11 DEF IInv
  <2> QED BY <2>2, <2>3
<1>6. CASE MainFails
  <2>1. job' = [job EXCEPT !.err = TRUE] /\ UNCHANGED <<size, disk, len, status>>
    BY <1>6 DEF MainFails, Fails
  <2>2. /\ job' \in JobSet /\ job'.chunks = job.chunks /\ job'.pos = job.pos /\ job'.limit0 = job.limit0 /\ job'.open = job.open
        /\ job'.no_parallel = job.no_parallel /\ job'.limited = job.limited /\ job'.chunks_done = job.chunks_done
        /\ job'.copied = job.copied /\ job'.removed = job.removed /\ job'.err /\ job'.done = job.done
        /\ job'.cont = job.cont /\ job'.on /\ job'.sized = job.sized
    BY <1>1, <2>1 DEF JobSet
  <2>3. JobOK(job', size, disk, len) /\ Joint(job', status)
    BY <1>1, <2>2 DEF Written, Covered, Ranges, Ended, Fresh, Dense, Joint
  <2> QED BY <1>2, <2>1, <2>2, <2>3 DEF IInv
<1> QED BY <1>3, <1>4, <1>5, <1>6

\* A chunk writes, ends or fails.
LEMMA ChunkKeeps ==
  ASSUME IInv, NEW k, CopyChunk(k) \/ ChunkFails(k)
  PROVE  IInv'
<1> USE DEF Sane
<1> DEFINE cs == job.chunks
           c == cs[k]
<1>1. job \in JobSet /\ job.on /\ k \in DOMAIN cs /\ JobOK(job, size, disk, len) /\ Joint(job, status)
  BY DEF IInv, CopyChunk, ChunkFails
<1>2. /\ status \in StatusSet /\ size \in Nat /\ size <= N /\ len \in Int /\ len <= size /\ Recorded(status, size, disk, len)
      /\ job.pos \in Nat /\ job.limit0 \in Nat /\ cs \in ChunkFunctions
  BY DEF IInv, JobSet
<1>3. /\ DOMAIN cs \subseteq Nat
      /\ \A m \in DOMAIN cs : cs[m] \in ChunkSet /\ cs[m].pos \in Nat /\ cs[m].limit \in Nat
  BY <1>2, ChunksAre
<1>4. /\ size' = size /\ status' = status
      /\ \/ /\ c.st = "run" /\ c.pos < c.limit /\ job' = [job EXCEPT !.chunks = [cs EXCEPT ![k] = [c EXCEPT !.pos = c.pos + 1]]]
            /\ Write(c.pos)
         \/ /\ c.st = "err" \/ (c.st = "run" /\ c.pos = c.limit)
            /\ job' = [job EXCEPT !.chunks = [cs EXCEPT ![k] = [c EXCEPT !.st = IF c.st = "err" THEN "gone" ELSE "done"]]]
            /\ UNCHANGED <<disk, len>>
         \/ /\ c.st = "run" /\ job' = [job EXCEPT !.chunks = [cs EXCEPT ![k] = [c EXCEPT !.st = "err"]]]
            /\ UNCHANGED <<disk, len>>
  BY <1>1 DEF CopyChunk, ChunkFails, Fails, JobSet
<1>5. ASSUME NEW x \in ChunkSet, job' = [job EXCEPT !.chunks = [cs EXCEPT ![k] = x]]
      PROVE  /\ job' \in JobSet /\ DOMAIN job'.chunks = DOMAIN cs /\ job'.chunks[k] = x
             /\ \A m \in DOMAIN cs : m # k => job'.chunks[m] = cs[m]
             /\ job'.pos = job.pos /\ job'.limit0 = job.limit0 /\ job'.open = job.open
             /\ job'.no_parallel = job.no_parallel /\ job'.limited = job.limited /\ job'.chunks_done = job.chunks_done
             /\ job'.copied = job.copied /\ job'.removed = job.removed /\ job'.err = job.err /\ job'.done = job.done
             /\ job'.cont = job.cont /\ job'.on /\ job'.sized = job.sized
  <2> DEFINE cs2 == [cs EXCEPT ![k] = x]
  <2>1. cs2 \in [DOMAIN cs -> ChunkSet] /\ DOMAIN cs2 = DOMAIN cs /\ cs2[k] = x /\ \A m \in DOMAIN cs : m # k => cs2[m] = cs[m]
    BY <1>1, <1>2, <1>3, <1>5, ChunksAre
  <2>2. cs2 \in ChunkFunctions
    BY <1>3, <2>1 DEF ChunkFunctions
  <2>3. job' = [job EXCEPT !.chunks = cs2]
    BY <1>5
  <2> HIDE DEF cs2
  <2> QED BY <1>1, <2>1, <2>2, <2>3 DEF JobSet
<1>6. c \in ChunkSet /\ c.pos \in Nat /\ c.limit \in Nat /\ c.pos <= c.limit /\ c.limit <= size
  BY <1>1, <1>3 DEF Ranges
<1>7. CASE /\ c.st = "run" /\ c.pos < c.limit /\ job' = [job EXCEPT !.chunks = [cs EXCEPT ![k] = [c EXCEPT !.pos = c.pos + 1]]]
           /\ Write(c.pos)
  <2> DEFINE x == [c EXCEPT !.pos = c.pos + 1]
  <2>1. x \in ChunkSet /\ x.pos = c.pos + 1 /\ x.limit = c.limit /\ x.st = c.st
    <3> HIDE DEF c
    <3> QED BY <1>6 DEF ChunkSet
  <2>2. job' = [job EXCEPT !.chunks = [cs EXCEPT ![k] = x]]
    BY <1>7
  <2> HIDE DEF x
  <2>3. /\ job' \in JobSet /\ DOMAIN job'.chunks = DOMAIN cs /\ job'.chunks[k] = x
        /\ \A m \in DOMAIN cs : m # k => job'.chunks[m] = cs[m]
        /\ job'.pos = job.pos /\ job'.limit0 = job.limit0 /\ job'.open = job.open
        /\ job'.no_parallel = job.no_parallel /\ job'.limited = job.limited /\ job'.chunks_done = job.chunks_done
        /\ job'.copied = job.copied /\ job'.removed = job.removed /\ job'.err = job.err /\ job'.done = job.done
        /\ job'.cont = job.cont /\ job'.on /\ job'.sized = job.sized
    BY <1>5, <2>1, <2>2
  <2>4. status.on \/ 0..(IF len > c.pos THEN len - 1 ELSE c.pos) \subseteq disk \cup {c.pos}
    <3>1. status.on \/ 0..(size - 1) \subseteq disk
      BY <1>1 DEF Joint, Ended
    <3> QED BY <1>2, <1>6, <1>7, <3>1
  <2>5. /\ Recorded(status, size, disk', len') /\ len' \in Int /\ len' <= size /\ disk \subseteq disk' /\ c.pos \in disk'
    BY <1>2, <1>6, <1>7, <2>4, WriteKeeps
  <2>6. len' = (IF len > c.pos THEN len ELSE c.pos + 1)
    BY <1>7 DEF Write
  <2>7. Written(job', size, disk') /\ Ended(job', size, disk') /\ Joint(job', status)
    BY <1>1, <2>3, <2>5 DEF Written, Ended, Joint
  <2>8. ~job.chunks_done /\ job.open
    BY <1>1, <1>7 DEF Ranges
  <2>9. Ranges(job', size)
    BY <1>1, <1>6, <1>7, <2>1, <2>3, <2>8 DEF Ranges
  <2>10. Fresh(job', disk', len')
    BY <1>1, <2>3, <2>8 DEF Fresh
  <2>11. Covered(job', size, disk')
    <3> SUFFICES ASSUME NEW b \in job.limit0..(size - 1), b \notin disk'
                 PROVE  \E m \in DOMAIN cs : job'.chunks[m].pos <= b /\ b < job'.chunks[m].limit
      BY <2>3 DEF Covered
    <3>1. PICK m \in DOMAIN cs : cs[m].pos <= b /\ b < cs[m].limit
      BY <1>1, <2>5 DEF Covered
    <3>2. CASE m = k
      BY <1>1, <1>2, <1>6, <2>1, <2>3, <2>5, <3>1, <3>2
    <3>3. CASE m # k
      BY <2>3, <3>1, <3>3
    <3> QED BY <3>2, <3>3
  <2>12. Dense(job', disk', len')
    <3> SUFFICES ASSUME ~job.cont PROVE Dense(job', disk', len')
      BY <2>3 DEF Dense
    <3>1. /\ \A m \in DOMAIN cs : m <= cs[m].pos
          /\ \A m1, m2 \in DOMAIN cs : m1 < m2 => cs[m1].limit <= m2
          /\ \A b \in job.limit0..(len - 1) : b \in disk \/ \E m1, m2 \in DOMAIN cs : m1 < m2 /\ cs[m1].pos <= b /\ b < cs[m1].limit
      BY <1>1 DEF Dense
    <3>2. \A m \in DOMAIN cs : m <= job'.chunks[m].pos /\ job'.chunks[m].limit = cs[m].limit /\ m \in Nat
      BY <1>3, <1>6, <2>1, <2>3, <3>1
    <3>3. ASSUME NEW b \in job.limit0..(len' - 1), b \notin disk'
          PROVE  \E m1, m2 \in DOMAIN cs : m1 < m2 /\ job'.chunks[m1].pos <= b /\ b < job'.chunks[m1].limit
      <4>1. b # c.pos /\ b \notin disk /\ b \in job.limit0..(size - 1)
        <5> HIDE DEF c, cs
        <5>0. job.limit0 \in Nat /\ len' \in Int
          BY <1>2, <2>5
        <5>1. b \in Int /\ job.limit0 <= b /\ b < len'
          BY <1>2, <1>6, <2>6, <5>0, <3>3
        <5>2. b # c.pos /\ b \notin disk
          BY <2>5, <3>3
        <5> QED BY <1>2, <2>5, <5>1, <5>2
      <4>2. PICK m1 \in DOMAIN cs, m2 \in DOMAIN cs : m1 < m2 /\ cs[m1].pos <= b /\ b < cs[m1].limit
        <5>1. CASE b < len
          BY <1>2, <2>5, <3>1, <3>3, <4>1, <5>1
        <5>2. CASE ~(b < len)
          <6>1. b < c.pos
            BY <1>2, <1>6, <2>5, <2>6, <3>3, <4>1, <5>2
          <6>2. PICK m \in DOMAIN cs : cs[m].pos <= b /\ b < cs[m].limit
            BY <1>1, <4>1 DEF Covered
          <6>3. m # k /\ m \in Nat /\ k \in Nat
            BY <1>1, <1>2, <1>3, <1>6, <6>1, <6>2
          <6>4. ~(k < m)
            BY <1>1, <1>2, <1>3, <1>6, <1>7, <3>1, <6>1, <6>2, <6>3
          <6> QED BY <1>1, <6>2, <6>3, <6>4
        <5> QED BY <5>1, <5>2
      <4>3. CASE m1 = k
        BY <1>2, <1>6, <2>1, <2>3, <4>1, <4>2, <4>3
      <4>4. CASE m1 # k
        BY <2>3, <4>2, <4>4
      <4> QED BY <4>3, <4>4
    <3> QED BY <2>3, <3>1, <3>2, <3>3 DEF Dense
  <2> QED BY <1>2, <1>4, <2>3, <2>5, <2>7, <2>9, <2>10, <2>11, <2>12 DEF IInv
<1>8. ASSUME NEW st \in {"err", "gone", "done"}, c.st # "done", st = "done" => c.pos = c.limit,
             job' = [job EXCEPT !.chunks = [cs EXCEPT ![k] = [c EXCEPT !.st = st]]], UNCHANGED <<disk, len>>
      PROVE  IInv'
  <2> DEFINE x == [c EXCEPT !.st = st]
  <2>1. x \in ChunkSet /\ x.pos = c.pos /\ x.limit = c.limit /\ x.st = st
    <3> HIDE DEF c
    <3> QED BY <1>6 DEF ChunkSet
  <2>2. job' = [job EXCEPT !.chunks = [cs EXCEPT ![k] = x]]
    BY <1>8
  <2> HIDE DEF x
  <2>3. /\ job' \in JobSet /\ DOMAIN job'.chunks = DOMAIN cs /\ job'.chunks[k] = x
        /\ \A m \in DOMAIN cs : m # k => job'.chunks[m] = cs[m]
        /\ job'.pos = job.pos /\ job'.limit0 = job.limit0 /\ job'.open = job.open
        /\ job'.no_parallel = job.no_parallel /\ job'.limited = job.limited /\ job'.chunks_done = job.chunks_done
        /\ job'.copied = job.copied /\ job'.removed = job.removed /\ job'.err = job.err /\ job'.done = job.done
        /\ job'.cont = job.cont /\ job'.on /\ job'.sized = job.sized
    BY <1>5, <2>1, <2>2
  <2>4. \A m \in DOMAIN cs : /\ job'.chunks[m].pos = cs[m].pos /\ job'.chunks[m].limit = cs[m].limit
                             /\ job'.chunks[m].st = "done" => job'.chunks[m].pos = job'.chunks[m].limit
    BY <1>1, <1>8, <2>1, <2>3 DEF Ranges
  <2>5. ~job.chunks_done /\ job.open
    BY <1>1, <1>8 DEF Ranges
  <2>6. Written(job', size, disk) /\ Ended(job', size, disk) /\ Joint(job', status) /\ Fresh(job', disk, len)
    BY <1>1, <2>3, <2>5 DEF Written, Ended, Joint, Fresh
  <2>7. Covered(job', size, disk)
    BY <1>1, <2>3, <2>4 DEF Covered
  <2>8. Ranges(job', size)
    BY <1>1, <2>3, <2>4, <2>5 DEF Ranges
  <2>9. Dense(job', disk, len)
    BY <1>1, <2>3, <2>4 DEF Dense
  <2> QED BY <1>2, <1>4, <1>8, <2>3, <2>6, <2>7, <2>8, <2>9 DEF IInv
<1> QED BY <1>4, <1>7, <1>8

\* The user calls pget with -c when there is a status file, and only then.
LEMMA UserKeeps ==
  ASSUME Careful, IInv, Crash \/ Grow \/ \E how \in {"get", "continue"} : Start(how)
  PROVE  IInv'
<1> USE DEF Sane
<1>1. /\ status \in StatusSet /\ size \in Nat /\ size <= N /\ len \in Int /\ len <= size /\ Recorded(status, size, disk, len)
  BY DEF IInv
<1>2. CASE Crash
  BY <1>1, <1>2, NewJobIs DEF Crash, IInv
<1>3. CASE Grow
  <2>1. size' \in Nat /\ size' <= N /\ len <= size' /\ Recorded(status, size', disk, len)
    <3>1. size' = size + 1 /\ size < N /\ N \in Nat
      BY <1>3, PgetAssumption DEF Grow
    <3>2. Listed(status, size, disk) => Listed(status, size', disk)
      BY <1>1, <3>1 DEF Listed
    <3>3. size' \in Nat /\ size' <= N /\ len <= size' /\ \A p \in Nat : p <= size => p <= size'
      BY <1>1, <3>1
    <3>4. status.pos \in Nat
      BY <1>1 DEF StatusSet
    <3> QED BY <1>1, <3>2, <3>3, <3>4 DEF Recorded
  <2> QED BY <1>1, <1>3, <2>1 DEF Grow, IInv
<1>4. ASSUME NEW how \in {"get", "continue"}, Start(how) PROVE IInv'
  <2> DEFINE cont == how = "continue"
             pos == IF cont THEN LoadStatus0 ELSE 0
  <2>1. PICK ends \in BOOLEAN : job' = NewJob(cont, pos, ends)
    BY <1>4 DEF Start
  <2>2. cont = status.on /\ UNCHANGED <<size, disk, len, status>>
    BY <1>4 DEF Start
  <2>3. pos \in Nat /\ pos <= size /\ 0..(pos - 1) \subseteq disk /\ (~cont => pos = 0)
    BY <1>1, <2>2 DEF LoadStatus0, Recorded, StatusSet
  <2> HIDE DEF pos
  <2>4. job' \in JobSet /\ DOMAIN job'.chunks = {}
    BY <2>1, <2>3, NewJobIs
  <2>5. /\ job'.on /\ job'.cont = cont /\ job'.pos = pos /\ ~job'.open /\ ~job'.limited /\ ~job'.copied /\ ~job'.removed
        /\ ~job'.done /\ ~job'.chunks_done
    BY <2>1 DEF NewJob
  <2>6. JobOK(job', size, disk, len)
    BY <2>3, <2>4, <2>5 DEF Written, Covered, Ranges, Ended, Fresh, Dense
  <2>7. Joint(job', status)
    BY <2>2, <2>4, <2>5 DEF Joint
  <2> QED BY <1>1, <2>2, <2>4, <2>6, <2>7 DEF IInv
<1> QED BY <1>2, <1>3, <1>4

LEMMA NextKeeps ==
  ASSUME Careful, ~AnyMoment, IInv, [Next]_vars
  PROVE  IInv'
<1>1. CASE Do
  BY <1>1, DoKeeps
<1>2. CASE Copies
  BY <1>2, MainKeeps, ChunkKeeps DEF Copies
<1>3. CASE Failures
  BY <1>3, MainKeeps, ChunkKeeps, UserKeeps DEF Failures
<1>4. CASE Grow \/ \E how \in {"get", "continue"} : Start(how)
  BY <1>4, UserKeeps
<1>5. CASE UNCHANGED vars
  BY <1>5 DEF vars, IInv
<1> QED BY <1>1, <1>2, <1>3, <1>4, <1>5 DEF Next

\* What the status file does not list is on the disk.
LEMMA InvContinuable == IInv => Continuable
<1> SUFFICES ASSUME IInv PROVE Continuable
  OBVIOUS
<1>1. /\ status \in StatusSet /\ size \in Nat /\ size <= N /\ len \in Int /\ len <= size /\ N \in Nat
      /\ Recorded(status, size, disk, len)
  BY PgetAssumption DEF IInv, Sane
<1>2. CASE ~status.on
  BY <1>1, <1>2 DEF Continuable, Recorded
<1>3. CASE status.on
  <2> SUFFICES ASSUME NEW b \in 0..(len - 1), b \notin Missing PROVE b \in disk
    BY <1>3 DEF Continuable
  <2>1. b \in 0..(N - 1) /\ status.pos \in Nat /\ status.limit \in Nat /\ status.rest \in RestFunctions
    BY <1>1 DEF StatusSet
  <2>2. /\ ~(b >= status.pos /\ (b < status.limit \/ ~status.limits))
        /\ ~(status.limits /\ \E k \in Read(status) : b \in status.rest[k].pos .. (status.rest[k].limit - 1))
        /\ ~(status.limits /\ b >= status.size)
    BY <2>1 DEF Missing
  <2>3. CASE b < status.pos
    BY <1>1, <1>3, <2>1, <2>3 DEF Recorded
  <2>4. CASE ~(b < status.pos)
    <3>1. status.limits /\ Listed(status, size, disk)
      BY <1>1, <1>3, <2>1, <2>2, <2>4 DEF Recorded
    <3>2. status.size \in Nat /\ b \in status.limit..(status.size - 1)
      BY <2>1, <2>2, <2>4, <3>1 DEF Listed
    <3>3. Read(status) = DOMAIN status.rest
      BY <2>1, <3>1, RestIs DEF Read, Listed
    <3>4. \A k \in DOMAIN status.rest : status.rest[k].pos \in Nat /\ status.rest[k].limit \in Nat
      BY <2>1, RestIs
    <3>5. ~\E k \in DOMAIN status.rest : status.rest[k].pos <= b /\ b < status.rest[k].limit
      BY <2>1, <2>2, <3>1, <3>3, <3>4
    <3> QED BY <3>1, <3>2, <3>5 DEF Listed
  <2> QED BY <2>3, <2>4
<1> QED BY <1>2, <1>3

\* The success of a job is the end of its copy and the removal of its status file.
LEMMA InvWhole == IInv => Whole
  BY DEF IInv, Sane, Ended, Joint, Whole

\* At every moment that lftp may be killed, what pget -c would not fetch is on the disk (SaveStatus,
\* LoadStatus, the order of the first save and the chunks), if the status is not saved between the
\* two moments in which the end of a chunk is seen, and the user says -c when there is a status file.
THEOREM StatusIsEnough ==
  ASSUME Careful, ~AnyMoment
  PROVE  Spec => []Continuable
<1>1. IInv /\ [Next]_vars => IInv'
  BY NextKeeps
<1> QED BY <1>1, InitGood, InvContinuable, PTL DEF Spec

\* A pget that succeeds, be it the continuation of others that were killed, has written the whole
\* file and removed its status file.
THEOREM SuccessIsWhole ==
  ASSUME Careful, ~AnyMoment
  PROVE  Spec => []Whole
<1>1. IInv /\ [Next]_vars => IInv'
  BY NextKeeps
<1> QED BY <1>1, InitGood, InvWhole, PTL DEF Spec
=============================================================================
