--------------------------- MODULE EvaluationProofs ---------------------------
(***************************************************************************)
(* Proofs about Evaluation, for any number of lines, any size of the pool  *)
(* and any number of interruptions: every verdict that was saved is kept,  *)
(* is returned at the place of its line, and all of them are scored.       *)
(***************************************************************************)
EXTENDS Evaluation, FiniteSetTheorems, SequenceTheorems, WellFoundedInduction, TLAPS

\* A pool, which calls a worker once for a task; a single process calls it twice.
PoolUsed == 1 \notin NProcs

VerdictSet == [of : 1 .. Lines, said : Sayings \cup {"prefetch"}]
ResultSet  == [idx : Nat, saved : VerdictSet, returned : VerdictSet]

\* Verdicts by their line.
Verdicts(f) ==
  /\ f = [k \in DOMAIN f |-> f[k]] /\ DOMAIN f \subseteq 1 .. Lines
  /\ \A k \in DOMAIN f : f[k] \in VerdictSet /\ f[k].of = k

Types ==
  /\ driver \in Drivers /\ nproc \in NProcs
  /\ tmp.is = "absent" => tmp = Absent
  /\ Verdicts(tmp.has) /\ Verdicts(storage.has) /\ Verdicts(ans)
  /\ keys \in Seq(1 .. Lines)
  /\ arrived \in Seq(ResultSet) /\ unordered \in Seq(ResultSet)

\* Where the drivers go their own ways.
Ways ==
  /\ pc \in {"off", "resume", "prefetch", "dump", "exact", "init", "create", "judge", "save",
             "assertion", "store", "stored", "dump_again", "dumped", "score", "done"}
  /\ pc \in {"resume", "store", "stored"} => driver = "lines"
  /\ pc \in {"prefetch", "dump", "exact", "dump_again", "dumped"} => driver # "lines"

\* The pool starts without old results.
PoolIdle == tasks = {} /\ arrived = << >> /\ unordered = << >>

Begun ==
  /\ pc \in {"off", "resume", "prefetch", "dump", "exact", "init"} => PoolIdle
  /\ pc = "score" /\ Scored.is # "ok" => PoolIdle

\* Each key is the key of one task.
KeysOnce == \A i, j \in 1 .. Len(keys) : keys[i] = keys[j] => i = j

\* What has no verdict in f is left to judge.
Covered(f) == \A k \in 1 .. Lines : k \in DOMAIN f \/ \E i \in 1 .. Len(keys) : keys[i] = k

\* What is left to judge has no verdict.
Fresh(f) == \A i \in 1 .. Len(keys) : keys[i] \notin DOMAIN f

Left ==
  /\ pc = "dump" => Covered(ans) /\ Fresh(ans) /\ KeysOnce
  /\ pc \in {"exact", "init"} => Covered(tmp.has) /\ Fresh(tmp.has) /\ KeysOnce
  /\ pc = "exact" => ans = tmp.has

\* The verdicts that tmp_file has, or had before it was opened to add one.
Before ==
  IF pc = "save"
  THEN LET k == keys[Head(arrived).idx] IN [i \in DOMAIN ans \ {k} |-> ans[i]]
  ELSE tmp.has

\* The tasks that are not delivered, that arrived and that are saved.
TasksOnce ==
  /\ \A c \in tasks : c \in Seq(1 .. Len(keys))
  /\ \A c, d \in tasks : \A i \in 1 .. Len(c), j \in 1 .. Len(d) : c[i] = d[j] => c = d /\ i = j
  /\ \A c \in tasks : \A i \in 1 .. Len(c) : keys[c[i]] \notin DOMAIN Before

ArrivedOnce ==
  /\ \A j \in 1 .. Len(arrived) :
       /\ arrived[j].idx \in 1 .. Len(keys)
       /\ keys[arrived[j].idx] \notin DOMAIN Before
       /\ arrived[j].saved.of = keys[arrived[j].idx]
       /\ nproc # 1 => arrived[j].returned = arrived[j].saved
  /\ \A i, j \in 1 .. Len(arrived) : arrived[i].idx = arrived[j].idx => i = j
  /\ \A c \in tasks : \A i \in 1 .. Len(c), j \in 1 .. Len(arrived) : c[i] # arrived[j].idx

SavedOnce ==
  \A j \in 1 .. Len(unordered) :
    /\ unordered[j].idx \in 1 .. Len(keys)
    /\ keys[unordered[j].idx] \in DOMAIN Before
    /\ Before[keys[unordered[j].idx]] = unordered[j].saved
    /\ nproc # 1 => unordered[j].returned = unordered[j].saved

EveryTask ==
  \A i \in 1 .. Len(keys) :
    \/ \E c \in tasks : \E j \in 1 .. Len(c) : c[j] = i
    \/ \E j \in 1 .. Len(arrived) : arrived[j].idx = i
    \/ \E j \in 1 .. Len(unordered) : unordered[j].idx = i

\* With the result that is being saved.
WithHead ==
  LET k == keys[Head(arrived).idx]
  IN [i \in DOMAIN Before \cup {k} |-> IF i = k THEN Head(arrived).saved ELSE Before[i]]

Judging ==
  pc \in {"create", "judge", "save"} =>
    /\ Covered(Before) /\ KeysOnce
    /\ TasksOnce /\ ArrivedOnce /\ SavedOnce /\ EveryTask
    /\ tmp.is # "absent"
    /\ pc \in {"create", "save"} => tmp = Torn
    /\ pc = "save" => arrived # << >> /\ ans = WithHead

\* All lines have a verdict.
Full(f) == DOMAIN f = 1 .. Lines

Ended ==
  /\ pc \in {"store", "stored"} => Full(ans) /\ ans = tmp.has
  /\ pc \in {"dump_again", "dumped"} => Full(ans)
  /\ driver = "lines" /\ storage.is # "absent" => pc \in {"stored", "score", "done", "off"}
  /\ driver = "lines" /\ storage.is = "ok" => Full(storage.has) /\ storage.has = tmp.has
  /\ driver # "lines" /\ pc \in {"score", "done"} => Full(tmp.has)
  /\ pc = "done" => Scored.is = "ok"

Inv == Types /\ Ways /\ Begun /\ Left /\ Judging /\ Ended

-----------------------------------------------------------------------------
(* Lines in the order of the file.                                           *)

\* A set of numbers that is not empty has a smallest one.
LEMMA Smallest ==
  ASSUME NEW T \in SUBSET Nat, T # {}
  PROVE  \E x \in T : \A y \in T : x <= y
<1>1. PICK x \in T : \A y \in T : ~(<<y, x>> \in OpToRel(<, Nat))
  BY NatLessThanWellFounded, WFMin
<1>2. \A y \in T : ~(y < x)
  BY <1>1 DEF OpToRel
<1> QED BY <1>2

\* s lists S in its order.
Lists(s, S) ==
  /\ s \in [1 .. Cardinality(S) -> S]
  /\ ToSet(s) = S /\ \A i, j \in DOMAIN s : i < j => s[i] < s[j]

\* A list of smaller numbers and one more.
LEMMA OneMore ==
  ASSUME NEW m \in Nat, NEW S \in SUBSET (1 .. m), NEW s, Lists(s, S)
  PROVE  \E t : Lists(t, S \cup {m + 1})
<1> DEFINE c == Cardinality(S)
           t == [i \in 1 .. c + 1 |-> IF i <= c THEN s[i] ELSE m + 1]
           U == S \cup {m + 1}
<1>1. IsFiniteSet(S) /\ c \in Nat
  <2>1. IsFiniteSet(1 .. m)
    BY FS_Interval
  <2>2. IsFiniteSet(S)
    BY <2>1, FS_Subset
  <2> QED BY <2>2, FS_CardinalityType
<1>2. Cardinality(U) = c + 1
  <2>1. m + 1 \notin S
    OBVIOUS
  <2> QED BY <1>1, <2>1, FS_AddElement
<1>3. /\ DOMAIN s = 1 .. c /\ \A i \in 1 .. c : s[i] \in S
      /\ \A k \in S : \E i \in 1 .. c : s[i] = k
      /\ \A i, j \in 1 .. c : i < j => s[i] < s[j]
  BY DEF Lists, ToSet
<1> HIDE DEF c
<1>4. t \in [1 .. c + 1 -> U]
  BY <1>1, <1>3
<1>5. ToSet(t) = U
  <2>1. \A k \in S : \E i \in 1 .. c + 1 : t[i] = k
    BY <1>1, <1>3
  <2>2. c + 1 \in 1 .. c + 1 /\ t[c + 1] = m + 1
    BY <1>1
  <2>3. DOMAIN t = 1 .. c + 1
    OBVIOUS
  <2> HIDE DEF t
  <2> QED BY <1>4, <2>1, <2>2, <2>3 DEF ToSet
<1>6. ASSUME NEW i \in 1 .. c + 1, NEW j \in 1 .. c + 1, i < j PROVE t[i] < t[j]
  <2>1. i \in 1 .. c /\ t[i] = s[i]
    BY <1>1, <1>6
  <2>2. CASE j \in 1 .. c
    BY <1>1, <1>3, <1>6, <2>1, <2>2
  <2>3. CASE j = c + 1
    <3>1. t[j] = m + 1
      BY <1>1, <2>3
    <3>2. s[i] \in 1 .. m
      BY <1>3, <2>1
    <3> QED BY <2>1, <3>1, <3>2
  <2> QED BY <1>1, <2>2, <2>3
<1>7. Lists(t, U)
  <2> HIDE DEF t, U
  <2>1. DOMAIN t = 1 .. c + 1
    BY <1>4
  <2> QED BY <1>2, <1>4, <1>5, <1>6, <2>1 DEF Lists
<1> QED BY <1>7

\* There is a list of any set of lines: there is no smallest number up to which some set
\* has none.
LEMMA SomeList ==
  ASSUME NEW n \in Nat
  PROVE  \A S \in SUBSET (1 .. n) : \E s : Lists(s, S)
<1> DEFINE T == {m \in Nat : \E S \in SUBSET (1 .. m) : \A s : ~Lists(s, S)}
<1>1. T = {}
  <2> SUFFICES ASSUME T # {} PROVE FALSE
    OBVIOUS
  <2>1. PICK m \in T : \A y \in T : m <= y
    <3>1. T \in SUBSET Nat
      OBVIOUS
    <3> HIDE DEF T
    <3> QED BY <3>1, Smallest
  <2>2. PICK S \in SUBSET (1 .. m) : \A s : ~Lists(s, S)
    OBVIOUS
  <2>3. CASE m = 0
    <3>1. S = {}
      BY <2>3
    <3>2. Cardinality(S) = 0
      BY <3>1, FS_EmptySet
    <3>3. <<>> \in [1 .. 0 -> S] /\ DOMAIN <<>> = {} /\ ToSet(<<>>) = {}
      BY DEF ToSet
    <3>4. Lists(<<>>, S)
      BY <3>1, <3>2, <3>3 DEF Lists
    <3> QED BY <2>2, <3>4
  <2>4. CASE m > 0
    <3> DEFINE p == m - 1
               R == S \ {m}
    <3>1. p \in Nat /\ m = p + 1 /\ p < m
      BY <2>4
    <3>2. p \notin T
      <4> HIDE DEF T, p
      <4> QED BY <2>1, <3>1
    <3>3. R \in SUBSET (1 .. p)
      BY <3>1
    <3>4. PICK s : Lists(s, R)
      <4> HIDE DEF p, R
      <4> QED BY <3>1, <3>2, <3>3
    <3>5. CASE m \in S
      <4>1. R \cup {p + 1} = S
        BY <3>1, <3>5
      <4>2. \E t : Lists(t, R \cup {p + 1})
        <5> HIDE DEF p, R
        <5> QED BY <3>1, <3>3, <3>4, OneMore
      <4> QED BY <2>2, <4>1, <4>2
    <3>6. CASE m \notin S
      <4>1. R = S
        BY <3>6
      <4> QED BY <2>2, <3>4, <4>1
    <3> QED BY <3>5, <3>6
  <2> QED BY <2>3, <2>4
<1>2. n \notin T
  BY <1>1
<1> QED BY <1>2

\* A function on 1 .. c is a sequence.
LEMMA AsSequence ==
  ASSUME NEW c \in Nat, NEW A, NEW s \in [1 .. c -> A]
  PROVE  s \in Seq(A) /\ Len(s) = c
OBVIOUS

LEMMA InOrderLists ==
  ASSUME NEW S \in SUBSET (1 .. Lines)
  PROVE  /\ InOrder(S) \in Seq(1 .. Lines)
         /\ \A k \in S : \E i \in 1 .. Len(InOrder(S)) : InOrder(S)[i] = k
         /\ \A i \in 1 .. Len(InOrder(S)) : InOrder(S)[i] \in S
         /\ \A i, j \in 1 .. Len(InOrder(S)) : InOrder(S)[i] = InOrder(S)[j] => i = j
<1> DEFINE s == InOrder(S)
           c == Cardinality(S)
<1>1. \E t : Lists(t, S)
  BY SomeList, EvaluationAssumption
<1>2. Lists(s, S)
  BY <1>1, Zenon DEF Lists, InOrder
<1>3. c \in Nat
  <2>1. IsFiniteSet(1 .. Lines)
    BY FS_Interval, EvaluationAssumption
  <2> QED BY <2>1, FS_Subset, FS_CardinalityType
<1> HIDE DEF s, c
<1>4. /\ s \in [1 .. c -> S] /\ \A k \in S : \E i \in DOMAIN s : s[i] = k
      /\ \A i, j \in DOMAIN s : i < j => s[i] < s[j]
  BY <1>2 DEF Lists, ToSet, c
<1>5. s \in Seq(1 .. Lines) /\ Len(s) = c
  <2>1. s \in [1 .. c -> 1 .. Lines]
    BY <1>4
  <2> QED BY <1>3, <2>1, AsSequence
<1>6. \A i \in 1 .. c : s[i] \in S /\ s[i] \in Int
  <2>1. \A i \in 1 .. c : s[i] \in S
    BY <1>4
  <2>2. \A k \in S : k \in Int
    OBVIOUS
  <2> QED BY <2>1, <2>2
<1>7. ASSUME NEW i \in 1 .. c, NEW j \in 1 .. c, s[i] = s[j] PROVE i = j
  <2>1. CASE i < j
    BY <1>4, <1>6, <1>7, <2>1
  <2>2. CASE j < i
    BY <1>4, <1>6, <1>7, <2>2
  <2> QED BY <2>1, <2>2, <1>3
<1>8. \A k \in S : \E i \in 1 .. c : s[i] = k
  BY <1>4
<1> QED BY <1>5, <1>6, <1>7, <1>8 DEF s

-----------------------------------------------------------------------------
(* The chunks of the pool.                                                   *)

LEMMA Multiple ==
  ASSUME NEW n \in Nat \ {0}, NEW a \in Nat
  PROVE  \E m \in 0 .. a : m % n = 0 /\ a < m + n
<1>1. a = n * (a \div n) + (a % n) /\ a % n \in 0 .. n - 1 /\ a \div n \in Nat
  OBVIOUS
<1>2. PICK q \in Nat, r \in 0 .. n - 1 : a = n * q + r
  BY <1>1
<1>3. n * q \in Nat /\ (n * q) % n = 0
  OBVIOUS
<1> DEFINE m == n * q
<1>4. m \in 0 .. a /\ a < m + n /\ m % n = 0
  <2>1. m \in Nat /\ a = m + r /\ m % n = 0
    BY <1>2, <1>3
  <2> HIDE DEF m
  <2> QED BY <2>1
<1> HIDE DEF m
<1> QED BY <1>4

LEMMA MultiplesApart ==
  ASSUME NEW n \in Nat \ {0}, NEW m \in Nat, NEW p \in Nat, m % n = 0, p % n = 0, m < p
  PROVE  m + n <= p
<1>1. m = n * (m \div n) /\ p = n * (p \div n) /\ m \div n \in Nat /\ p \div n \in Nat
  OBVIOUS
<1>2. PICK u \in Nat, v \in Nat : m = n * u /\ p = n * v
  BY <1>1
<1>3. u < v
  BY <1>2
<1>4. n * (u + 1) <= n * v
  BY <1>3
<1> QED BY <1>2, <1>4

\* Each position of keys is in one chunk, once.
LEMMA ChunkFacts ==
  ASSUME Types
  PROVE  /\ \A c \in Chunks : c \in Seq(1 .. Len(keys))
         /\ \A c, d \in Chunks : \A i \in 1 .. Len(c), j \in 1 .. Len(d) : c[i] = d[j] => c = d /\ i = j
         /\ \A i \in 1 .. Len(keys) : \E c \in Chunks : \E j \in 1 .. Len(c) : c[j] = i
<1> DEFINE n == Len(keys)
           size(m) == IF m + nproc < n THEN nproc ELSE n - m
           chunk(m) == [j \in 1 .. size(m) |-> m + j]
           heads == {m \in 0 .. n - 1 : m % nproc = 0}
<1>1. n \in Nat /\ nproc \in Nat \ {0}
  BY EvaluationAssumption DEF Types
<1>2. Chunks = {chunk(m) : m \in heads}
  BY DEF Chunks
<1>3. ASSUME NEW m \in heads
      PROVE  /\ m \in Nat /\ m % nproc = 0
             /\ size(m) \in Nat /\ size(m) <= nproc /\ m + size(m) <= n
  BY <1>1
<1>4. ASSUME NEW m \in heads
      PROVE  /\ chunk(m) \in Seq(1 .. n) /\ Len(chunk(m)) = size(m)
             /\ \A j \in 1 .. size(m) : chunk(m)[j] = m + j
  <2>1. \A j \in 1 .. size(m) : m + j \in 1 .. n
    BY <1>1, <1>3
  <2>2. chunk(m) \in [1 .. size(m) -> 1 .. n]
    <3> HIDE DEF size
    <3> QED BY <2>1
  <2>3. chunk(m) \in Seq(1 .. n) /\ Len(chunk(m)) = size(m)
    <3>1. size(m) \in Nat
      BY <1>3
    <3> HIDE DEF size, chunk
    <3> QED BY <2>2, <3>1, AsSequence
  <2>4. \A j \in 1 .. size(m) : chunk(m)[j] = m + j
    <3> HIDE DEF size
    <3> QED OBVIOUS
  <2> QED BY <2>3, <2>4
<1>5. ASSUME NEW m \in heads, NEW p \in heads, NEW i \in 1 .. size(m), NEW j \in 1 .. size(p),
             m + i = p + j
      PROVE  m = p /\ i = j
  <2> HIDE DEF size, heads
  <2>1. m \in Nat /\ p \in Nat /\ i \in 1 .. nproc /\ j \in 1 .. nproc
    BY <1>1, <1>3
  <2>2. ~(m < p)
    <3> SUFFICES ASSUME m < p PROVE FALSE
      OBVIOUS
    <3>1. m + nproc <= p
      BY <1>1, <1>3, <2>1, MultiplesApart
    <3> QED BY <1>1, <1>5, <2>1, <3>1
  <2>3. ~(p < m)
    <3> SUFFICES ASSUME p < m PROVE FALSE
      OBVIOUS
    <3>1. p + nproc <= m
      BY <1>1, <1>3, <2>1, MultiplesApart
    <3> QED BY <1>1, <1>5, <2>1, <3>1
  <2> QED BY <1>5, <2>1, <2>2, <2>3
<1>6. ASSUME NEW i \in 1 .. n PROVE \E m \in heads : \E j \in 1 .. size(m) : m + j = i
  <2>1. i - 1 \in Nat /\ i - 1 < n
    BY <1>1
  <2>2. PICK m \in 0 .. i - 1 : m % nproc = 0 /\ i - 1 < m + nproc
    BY <1>1, <2>1, Multiple
  <2>3. m \in heads
    BY <1>1, <2>1, <2>2
  <2>4. i - m \in 1 .. size(m) /\ m + (i - m) = i
    BY <1>1, <2>1, <2>2
  <2> QED BY <2>3, <2>4
<1> HIDE DEF n, size, chunk, heads
<1>7. \A c \in Chunks : c \in Seq(1 .. n)
  BY <1>2, <1>4
<1>8. ASSUME NEW c \in Chunks, NEW d \in Chunks, NEW i \in 1 .. Len(c), NEW j \in 1 .. Len(d), c[i] = d[j]
      PROVE  c = d /\ i = j
  <2>1. PICK m \in heads, p \in heads : c = chunk(m) /\ d = chunk(p)
    BY <1>2
  <2>2. i \in 1 .. size(m) /\ j \in 1 .. size(p) /\ c[i] = m + i /\ d[j] = p + j
    BY <1>4, <2>1
  <2>3. m + i = p + j
    BY <1>8, <2>2
  <2>4. m = p /\ i = j
    BY <1>5, <2>2, <2>3
  <2> QED BY <2>1, <2>4
<1>9. ASSUME NEW i \in 1 .. n PROVE \E c \in Chunks : \E j \in 1 .. Len(c) : c[j] = i
  <2>1. PICK m \in heads : \E j \in 1 .. size(m) : m + j = i
    BY <1>6
  <2>2. PICK j \in 1 .. size(m) : m + j = i
    BY <2>1
  <2>3. chunk(m) \in Chunks /\ j \in 1 .. Len(chunk(m)) /\ chunk(m)[j] = m + j
    BY <1>2, <1>4
  <2> QED BY <2>2, <2>3
<1> QED BY <1>7, <1>8, <1>9 DEF n

-----------------------------------------------------------------------------
(* The drivers.                                                              *)

LEMMA NoVerdicts == Verdicts(<< >>) /\ DOMAIN << >> = {}
BY DEF Verdicts

LEMMA InvInit == Init => Inv
<1> SUFFICES ASSUME Init PROVE Inv
  OBVIOUS
<1>1. tmp.has = << >> /\ tmp = Absent /\ storage.has = << >> /\ storage.is = "absent" /\ ans = << >>
      /\ pc = "off"
  BY DEF Init, Absent
<1>2. Types
  <2>1. << >> \in Seq(1 .. Lines) /\ << >> \in Seq(ResultSet)
    OBVIOUS
  <2> QED BY <1>1, <2>1, NoVerdicts DEF Init, Types
<1>3. Ways /\ Begun /\ Left /\ Judging
  BY <1>1 DEF Init, Ways, Begun, PoolIdle, Left, Judging
<1>4. Ended
  BY <1>1 DEF Ended
<1> QED BY <1>2, <1>3, <1>4 DEF Inv

LEMMA InvStart ==
  ASSUME Inv, Start
  PROVE  Inv'
<1>1. /\ UNCHANGED <<driver, nproc, tmp, storage, ans, keys, tasks, arrived, unordered>>
      /\ pc = "off"
      /\ pc' = IF driver # "lines" THEN "prefetch"
               ELSE IF storage.is # "absent" THEN "score"
               ELSE IF tmp.is = "torn" THEN "off" ELSE "resume"
  BY DEF Start, fileVars, memoryVars
<1>2. pc' \in {"prefetch", "score", "off", "resume"}
  BY <1>1
<1>3. Types'
  BY <1>1 DEF Inv, Types
<1>4. Ways'
  BY <1>1 DEF Ways
<1>5. Begun'
  BY <1>1, <1>2 DEF Inv, Begun, PoolIdle
<1>6. Left' /\ Judging'
  BY <1>2 DEF Left, Judging
<1>7. Ended'
  BY <1>1, <1>2 DEF Inv, Ended, Full
<1> QED BY <1>3, <1>4, <1>5, <1>6, <1>7 DEF Inv

LEMMA InvResume ==
  ASSUME Inv, Resume
  PROVE  Inv'
<1> DEFINE S == (1 .. Lines) \ DOMAIN tmp.has
<1>1. /\ UNCHANGED <<driver, nproc, tmp, storage, tasks, arrived, unordered>>
      /\ pc = "resume" /\ ans' = tmp.has /\ keys' = InOrder(S)
      /\ pc' = IF keys' = << >> THEN "store" ELSE "init"
  BY DEF Resume, fileVars
<1>2. /\ keys' \in Seq(1 .. Lines)
      /\ \A k \in S : \E i \in 1 .. Len(keys') : keys'[i] = k
      /\ \A i \in 1 .. Len(keys') : keys'[i] \in S
      /\ \A i, j \in 1 .. Len(keys') : keys'[i] = keys'[j] => i = j
  <2>1. S \in SUBSET (1 .. Lines)
    OBVIOUS
  <2> HIDE DEF S
  <2> QED BY <1>1, <2>1, InOrderLists
<1>3. PoolIdle /\ Types /\ driver = "lines"
  BY <1>1 DEF Inv, Begun, Ways
<1>4. Types'
  BY <1>1, <1>2, <1>3 DEF Types
<1>5. Ways' /\ Begun'
  BY <1>1, <1>3 DEF Ways, Begun, PoolIdle
<1>6. Left'
  <2>1. Covered(tmp.has)' /\ Fresh(tmp.has)' /\ KeysOnce'
    BY <1>1, <1>2 DEF Covered, Fresh, KeysOnce
  <2> QED BY <1>1, <2>1 DEF Left
<1>7. Judging'
  BY <1>1 DEF Judging
<1>8. Ended'
  <2>1. pc' = "store" => Full(ans') /\ ans' = tmp'.has
    <3> SUFFICES ASSUME keys' = << >> PROVE Full(tmp.has)
      BY <1>1
    <3>1. S = {}
      BY <1>2
    <3>2. DOMAIN tmp.has \subseteq 1 .. Lines
      BY <1>3 DEF Types, Verdicts
    <3> QED BY <3>1, <3>2 DEF Full
  <2>2. storage'.is = "absent"
    BY <1>1, <1>3 DEF Inv, Ended
  <2> QED BY <1>1, <1>3, <2>1, <2>2 DEF Ended
<1> QED BY <1>4, <1>5, <1>6, <1>7, <1>8 DEF Inv

LEMMA InvPrefetch ==
  ASSUME Inv, Prefetch
  PROVE  Inv'
<1> DEFINE S == (1 .. Lines) \ Prefetched
<1>1. /\ UNCHANGED <<driver, nproc, storage, tasks, arrived, unordered>>
      /\ pc = "prefetch" /\ pc' = "dump"
      /\ ans' = [k \in Prefetched |-> Verdict(k, "prefetch")]
      /\ keys' = InOrder(S) /\ tmp' = Torn
  BY DEF Prefetch
<1>2. /\ keys' \in Seq(1 .. Lines)
      /\ \A k \in S : \E i \in 1 .. Len(keys') : keys'[i] = k
      /\ \A i \in 1 .. Len(keys') : keys'[i] \in S
      /\ \A i, j \in 1 .. Len(keys') : keys'[i] = keys'[j] => i = j
  <2>1. S \in SUBSET (1 .. Lines)
    OBVIOUS
  <2> HIDE DEF S
  <2> QED BY <1>1, <2>1, InOrderLists
<1>3. PoolIdle /\ Types /\ driver # "lines"
  BY <1>1 DEF Inv, Begun, Ways
<1>4. Verdicts(ans') /\ DOMAIN ans' = Prefetched
  BY <1>1, EvaluationAssumption DEF Verdicts, Verdict, VerdictSet
<1>5. tmp'.has = << >> /\ tmp'.is = "torn"
  BY <1>1 DEF Torn
<1>6. Types'
  BY <1>1, <1>2, <1>3, <1>4, <1>5, NoVerdicts DEF Types
<1>7. Ways' /\ Begun'
  BY <1>1, <1>3 DEF Ways, Begun, PoolIdle
<1>8. Left'
  <2>1. Covered(ans)' /\ Fresh(ans)' /\ KeysOnce'
    BY <1>2, <1>4 DEF Covered, Fresh, KeysOnce
  <2> QED BY <1>1, <2>1 DEF Left
<1>9. Judging' /\ Ended'
  BY <1>1, <1>3 DEF Judging, Ended
<1> QED BY <1>6, <1>7, <1>8, <1>9 DEF Inv

\* What is covered without a key is everything.
LEMMA CoveredIsFull ==
  ASSUME NEW f, Verdicts(f), Covered(f), keys = << >>
  PROVE  Full(f)
<1>1. Len(keys) = 0
  OBVIOUS
<1>2. \A k \in 1 .. Lines : k \in DOMAIN f
  BY <1>1 DEF Covered
<1>3. DOMAIN f \subseteq 1 .. Lines
  BY Zenon DEF Verdicts
<1> QED BY <1>2, <1>3 DEF Full

LEMMA InvDump ==
  ASSUME Inv, Dump
  PROVE  Inv'
<1>1. /\ UNCHANGED <<driver, nproc, storage, ans, keys, tasks, arrived, unordered>>
      /\ pc = "dump" /\ tmp' = File(ans)
      /\ pc' = IF keys = << >> THEN "score" ELSE IF driver = "exact" THEN "exact" ELSE "init"
  BY DEF Dump, memoryVars
<1>2. tmp'.has = ans /\ tmp'.is = "ok"
  BY <1>1 DEF File
<1>3. PoolIdle /\ Types /\ driver # "lines" /\ Covered(ans) /\ Fresh(ans) /\ KeysOnce
  BY <1>1 DEF Inv, Begun, Ways, Left
<1>4. Types'
  BY <1>1, <1>2, <1>3 DEF Types
<1>5. Ways' /\ Begun'
  BY <1>1, <1>2, <1>3 DEF Ways, Begun, PoolIdle, Scored
<1>6. Left'
  <2>1. Covered(tmp.has)' /\ Fresh(tmp.has)' /\ KeysOnce'
    BY <1>1, <1>2, <1>3 DEF Covered, Fresh, KeysOnce
  <2> QED BY <1>1, <1>2, <2>1 DEF Left
<1>7. Judging'
  BY <1>1 DEF Judging
<1>8. Ended'
  <2>1. keys = << >> => Full(ans)
    BY <1>3, CoveredIsFull DEF Types
  <2>2. pc' = "score" => Full(tmp'.has)
    BY <1>1, <1>2, <2>1
  <2> QED BY <1>1, <1>3, <2>2 DEF Ended
<1> QED BY <1>4, <1>5, <1>6, <1>7, <1>8 DEF Inv

LEMMA InvExactMatch ==
  ASSUME Inv, ExactMatch
  PROVE  Inv'
<1>1. /\ UNCHANGED <<driver, nproc, storage, keys, tasks, arrived, unordered>>
      /\ pc = "exact" /\ pc' = "dumped" /\ tmp' = Torn
      /\ ans' = [k \in DOMAIN ans \cup ToSet(keys) |->
                   IF k \in DOMAIN ans THEN ans[k] ELSE Verdict(k, "failed")]
  BY DEF ExactMatch
<1>2. tmp'.has = << >> /\ tmp'.is = "torn"
  BY <1>1 DEF Torn
<1>3. PoolIdle /\ Types /\ driver # "lines" /\ Covered(ans)
  BY <1>1 DEF Inv, Begun, Ways, Left
<1>4. DOMAIN ans \cup ToSet(keys) = 1 .. Lines
  <2>1. DOMAIN ans \subseteq 1 .. Lines
    BY <1>3, Zenon DEF Types, Verdicts
  <2>2. DOMAIN keys = 1 .. Len(keys) /\ \A i \in 1 .. Len(keys) : keys[i] \in 1 .. Lines
    <3>1. keys \in Seq(1 .. Lines)
      BY <1>3, Zenon DEF Types
    <3> QED BY <3>1, LenProperties, ElementOfSeq
  <2>3. ToSet(keys) \subseteq 1 .. Lines
    BY <2>2, Zenon DEF ToSet
  <2>4. ASSUME NEW k \in 1 .. Lines, k \notin DOMAIN ans PROVE k \in ToSet(keys)
    <3>1. PICK i \in 1 .. Len(keys) : keys[i] = k
      BY <1>3, <2>4, Zenon DEF Covered
    <3> QED BY <2>2, <3>1 DEF ToSet
  <2> QED BY <2>1, <2>3, <2>4
<1>5. Verdicts(ans') /\ Full(ans')
  <2>1. DOMAIN ans' = 1 .. Lines
    BY <1>1, <1>4
  <2>2. ASSUME NEW k \in 1 .. Lines PROVE ans'[k] \in VerdictSet /\ ans'[k].of = k
    <3>1. ans'[k] = IF k \in DOMAIN ans THEN ans[k] ELSE Verdict(k, "failed")
      BY <1>1, <1>4
    <3>2. Verdict(k, "failed") \in VerdictSet /\ Verdict(k, "failed").of = k
      BY DEF Verdict, VerdictSet, Sayings
    <3>3. k \in DOMAIN ans => ans[k] \in VerdictSet /\ ans[k].of = k
      BY <1>3 DEF Types, Verdicts
    <3> QED BY <3>1, <3>2, <3>3
  <2>3. ans' = [k \in DOMAIN ans' |-> ans'[k]]
    BY <1>1
  <2> QED BY <2>1, <2>2, <2>3 DEF Verdicts, Full
<1>6. Types'
  BY <1>1, <1>2, <1>3, <1>5, NoVerdicts DEF Types
<1>7. Ways' /\ Begun' /\ Left' /\ Judging' /\ Ended'
  BY <1>1, <1>3, <1>5 DEF Ways, Begun, Left, Judging, Ended
<1> QED BY <1>6, <1>7 DEF Inv

-----------------------------------------------------------------------------
(* The pool.                                                                 *)

LEMMA InvInitSave ==
  ASSUME Inv, InitSave
  PROVE  Inv'
<1>1. /\ UNCHANGED <<driver, nproc, storage, ans, keys, arrived, unordered>>
      /\ pc = "init" /\ tasks' = Chunks
      /\ IF tmp.is = "absent" THEN tmp' = Torn /\ pc' = "create" ELSE tmp' = tmp /\ pc' = "judge"
  BY DEF InitSave
<1>2. PoolIdle /\ Types /\ Covered(tmp.has) /\ Fresh(tmp.has) /\ KeysOnce
  BY <1>1 DEF Inv, Begun, Left
<1>3. /\ tmp'.has = tmp.has /\ tmp'.is # "absent" /\ pc' \in {"create", "judge"}
      /\ pc' = "create" => tmp' = Torn
      /\ Before' = tmp.has
  <2>1. tmp.is = "absent" => tmp.has = << >>
    BY <1>2 DEF Types, Absent
  <2> QED BY <1>1, <2>1 DEF Torn, Before
<1>4. Types'
  BY <1>1, <1>2, <1>3 DEF Types
<1>5. Ways' /\ Begun' /\ Left'
  BY <1>3 DEF Ways, Begun, Left
<1>6. Judging'
  <2>1. /\ \A c \in tasks' : c \in Seq(1 .. Len(keys))
        /\ \A c, d \in tasks' : \A i \in 1 .. Len(c), j \in 1 .. Len(d) : c[i] = d[j] => c = d /\ i = j
        /\ \A i \in 1 .. Len(keys) : \E c \in tasks' : \E j \in 1 .. Len(c) : c[j] = i
    BY <1>1, <1>2, ChunkFacts
  <2>2. \A c \in tasks' : \A i \in 1 .. Len(c) : c[i] \in 1 .. Len(keys)
    BY <2>1
  <2>3. arrived' = << >> /\ unordered' = << >> /\ Len(arrived') = 0 /\ Len(unordered') = 0
    BY <1>1, <1>2 DEF PoolIdle
  <2>4. TasksOnce'
    BY <1>1, <1>2, <1>3, <2>1, <2>2 DEF TasksOnce, Fresh
  <2>5. ArrivedOnce' /\ SavedOnce'
    BY <2>3 DEF ArrivedOnce, SavedOnce
  <2>6. EveryTask'
    BY <1>1, <2>1 DEF EveryTask
  <2>7. Covered(Before)' /\ KeysOnce'
    BY <1>1, <1>2, <1>3 DEF Covered, KeysOnce
  <2> QED BY <1>1, <1>3, <2>4, <2>5, <2>6, <2>7 DEF Judging
<1>7. Ended'
  BY <1>1, <1>3 DEF Inv, Ended
<1> QED BY <1>4, <1>5, <1>6, <1>7 DEF Inv

LEMMA InvCreate ==
  ASSUME Inv, Create
  PROVE  Inv'
<1>1. /\ UNCHANGED <<driver, nproc, storage, ans, keys, tasks, arrived, unordered>>
      /\ pc = "create" /\ pc' = "judge" /\ tmp' = File(<< >>)
  BY DEF Create, memoryVars
<1>2. /\ Types /\ Covered(Before) /\ KeysOnce
      /\ TasksOnce /\ ArrivedOnce /\ SavedOnce /\ EveryTask /\ tmp = Torn
  BY <1>1 DEF Inv, Judging
<1>3. Before' = Before /\ tmp'.has = << >> /\ tmp'.is = "ok"
  BY <1>1, <1>2 DEF Before, File, Torn
<1>4. Types'
  BY <1>1, <1>2, <1>3, NoVerdicts DEF Types
<1>5. Ways' /\ Begun' /\ Left'
  BY <1>1 DEF Ways, Begun, Left
<1>6. Judging'
  <2>1. Covered(Before)' /\ KeysOnce' /\ EveryTask'
    BY <1>1, <1>2, <1>3 DEF Covered, KeysOnce, EveryTask
  <2>2. TasksOnce' /\ SavedOnce'
    BY <1>1, <1>2, <1>3 DEF TasksOnce, SavedOnce
  <2>3. ArrivedOnce'
    BY <1>1, <1>2, <1>3 DEF ArrivedOnce
  <2> QED BY <1>1, <1>3, <2>1, <2>2, <2>3 DEF Judging
<1>7. Ended'
  BY <1>1 DEF Inv, Ended
<1> QED BY <1>4, <1>5, <1>6, <1>7 DEF Inv

\* A chunk arrives: its results take the place of its tasks.
LEMMA InvDeliver ==
  ASSUME Inv, Deliver
  PROVE  Inv'
<1>a. PICK c \in tasks :
      /\ tasks' = tasks \ {c}
      /\ \E said, again \in [DOMAIN c -> Sayings] :
           /\ nproc # 1 => again = said
           /\ arrived' = [j \in DOMAIN c |->
                            [idx |-> c[j], saved |-> Verdict(keys[c[j]], said[j]),
                             returned |-> Verdict(keys[c[j]], again[j])]]
  BY DEF Deliver, MayDeliver
<1>b. PICK said \in [DOMAIN c -> Sayings], again \in [DOMAIN c -> Sayings] :
      /\ nproc # 1 => again = said
      /\ arrived' = [j \in DOMAIN c |->
                       [idx |-> c[j], saved |-> Verdict(keys[c[j]], said[j]),
                        returned |-> Verdict(keys[c[j]], again[j])]]
  BY <1>a
<1>1. /\ UNCHANGED <<driver, nproc, pc, tmp, storage, ans, keys, unordered>>
      /\ pc = "judge" /\ arrived = << >> /\ Before' = Before
  BY DEF Deliver, fileVars, Before
<1>2. /\ Types /\ Covered(Before) /\ KeysOnce
      /\ TasksOnce /\ ArrivedOnce /\ SavedOnce /\ EveryTask /\ tmp.is # "absent"
  BY <1>1 DEF Inv, Judging
<1>3. /\ Len(c) \in Nat /\ DOMAIN c = 1 .. Len(c)
      /\ \A j \in 1 .. Len(c) : c[j] \in 1 .. Len(keys) /\ keys[c[j]] \in 1 .. Lines
  <2>1. c \in Seq(1 .. Len(keys))
    BY <1>2 DEF TasksOnce
  <2>2. \A i \in 1 .. Len(keys) : keys[i] \in 1 .. Lines
    <3>1. keys \in Seq(1 .. Lines)
      BY <1>2, Zenon DEF Types
    <3> QED BY <3>1, ElementOfSeq
  <2> QED BY <2>1, <2>2
<1>4. ASSUME NEW j \in 1 .. Len(c)
      PROVE  /\ arrived'[j] \in ResultSet
             /\ arrived'[j].idx = c[j]
             /\ arrived'[j].saved.of = keys[c[j]]
             /\ nproc # 1 => arrived'[j].returned = arrived'[j].saved
  <2>1. arrived'[j] = [idx |-> c[j], saved |-> Verdict(keys[c[j]], said[j]),
                       returned |-> Verdict(keys[c[j]], again[j])]
    BY <1>3, <1>b
  <2>2. said[j] \in Sayings /\ again[j] \in Sayings
    BY <1>3
  <2>3. /\ Verdict(keys[c[j]], said[j]) \in VerdictSet
        /\ Verdict(keys[c[j]], again[j]) \in VerdictSet
        /\ Verdict(keys[c[j]], said[j]).of = keys[c[j]]
    BY <1>3, <2>2 DEF Verdict, VerdictSet
  <2>4. c[j] \in Nat
    BY <1>3
  <2> QED BY <1>b, <2>1, <2>3, <2>4 DEF ResultSet
<1>5. arrived' \in Seq(ResultSet) /\ Len(arrived') = Len(c)
  <2>1. arrived' \in [1 .. Len(c) -> ResultSet]
    BY <1>3, <1>4, <1>b
  <2> QED BY <1>3, <2>1, AsSequence
<1>6. Types'
  BY <1>1, <1>2, <1>5 DEF Types
<1>7. Ways' /\ Begun' /\ Left' /\ Ended'
  BY <1>1 DEF Inv, Ways, Begun, Left, Ended
<1>8. TasksOnce'
  <2>1. tasks' \subseteq tasks
    BY <1>a
  <2>2. keys' = keys /\ Before' = Before
    BY <1>1
  <2>3. \A d \in tasks' : d \in Seq(1 .. Len(keys'))
    BY <1>2, <2>1, <2>2 DEF TasksOnce
  <2>4. ASSUME NEW d \in tasks', NEW e \in tasks', NEW i \in 1 .. Len(d), NEW j \in 1 .. Len(e), d[i] = e[j]
        PROVE  d = e /\ i = j
    BY <1>2, <2>1, <2>4 DEF TasksOnce
  <2>5. \A d \in tasks' : \A i \in 1 .. Len(d) : keys'[d[i]] \notin DOMAIN Before'
    BY <1>2, <2>1, <2>2 DEF TasksOnce
  <2> QED BY <2>3, <2>4, <2>5, Zenon DEF TasksOnce
<1>9. ArrivedOnce'
  <2>1. ASSUME NEW j \in 1 .. Len(arrived')
        PROVE  /\ arrived'[j].idx \in 1 .. Len(keys)
               /\ keys[arrived'[j].idx] \notin DOMAIN Before
               /\ arrived'[j].saved.of = keys[arrived'[j].idx]
               /\ nproc # 1 => arrived'[j].returned = arrived'[j].saved
    <3>1. j \in 1 .. Len(c)
      BY <1>5
    <3>2. keys[c[j]] \notin DOMAIN Before
      BY <1>2, <3>1 DEF TasksOnce
    <3> QED BY <1>3, <1>4, <3>1, <3>2
  <2>2. ASSUME NEW i \in 1 .. Len(arrived'), NEW j \in 1 .. Len(arrived'),
               arrived'[i].idx = arrived'[j].idx
        PROVE  i = j
    <3>1. i \in 1 .. Len(c) /\ j \in 1 .. Len(c)
      BY <1>5
    <3>2. c[i] = c[j]
      BY <1>4, <2>2, <3>1
    <3> QED BY <1>2, <3>1, <3>2 DEF TasksOnce
  <2>3. ASSUME NEW d \in tasks', NEW i \in 1 .. Len(d), NEW j \in 1 .. Len(arrived')
        PROVE  d[i] # arrived'[j].idx
    <3>1. j \in 1 .. Len(c) /\ arrived'[j].idx = c[j]
      BY <1>4, <1>5
    <3>2. d \in tasks /\ d # c
      BY <1>a
    <3> QED BY <1>2, <3>1, <3>2 DEF TasksOnce
  <2>4. keys' = keys /\ Before' = Before /\ nproc' = nproc
    BY <1>1
  <2>5. \A j \in 1 .. Len(arrived') :
          /\ arrived'[j].idx \in 1 .. Len(keys')
          /\ keys'[arrived'[j].idx] \notin DOMAIN Before'
          /\ arrived'[j].saved.of = keys'[arrived'[j].idx]
          /\ nproc' # 1 => arrived'[j].returned = arrived'[j].saved
    BY <2>1, <2>4
  <2> QED BY <2>2, <2>3, <2>5, Zenon DEF ArrivedOnce
<1>10. SavedOnce'
  BY <1>1, <1>2 DEF SavedOnce
<1>11. EveryTask'
  <2> SUFFICES ASSUME NEW i \in 1 .. Len(keys)
               PROVE  \/ \E d \in tasks' : \E j \in 1 .. Len(d) : d[j] = i
                      \/ \E j \in 1 .. Len(arrived') : arrived'[j].idx = i
                      \/ \E j \in 1 .. Len(unordered) : unordered[j].idx = i
    BY <1>1 DEF EveryTask
  <2>1. CASE \E d \in tasks : \E j \in 1 .. Len(d) : d[j] = i
    <3>1. PICK d \in tasks : \E j \in 1 .. Len(d) : d[j] = i
      BY <2>1
    <3>2. CASE d = c
      BY <1>4, <1>5, <3>1, <3>2
    <3>3. CASE d # c
      BY <1>a, <3>1, <3>3
    <3> QED BY <3>2, <3>3
  <2>2. CASE \E j \in 1 .. Len(arrived) : arrived[j].idx = i
    <3>1. Len(arrived) = 0
      BY <1>1
    <3> QED BY <2>2, <3>1
  <2>3. CASE \E j \in 1 .. Len(unordered) : unordered[j].idx = i
    BY <2>3
  <2> QED BY <1>2, <2>1, <2>2, <2>3 DEF EveryTask
<1>12. Judging'
  <2>1. Covered(Before)' /\ KeysOnce'
    BY <1>1, <1>2 DEF Covered, KeysOnce
  <2> QED BY <1>1, <1>2, <1>8, <1>9, <1>10, <1>11, <2>1 DEF Judging
<1> QED BY <1>6, <1>7, <1>12 DEF Inv

\* The result that is saved next.
LEMMA NextResult ==
  ASSUME Types, ArrivedOnce, arrived # << >>, NEW r, r = Head(arrived), NEW k, k = keys[r.idx]
  PROVE  /\ Len(arrived) \in Nat \ {0} /\ r = arrived[1]
         /\ r \in ResultSet /\ r.saved \in VerdictSet /\ r.saved.of = k
         /\ r.idx \in 1 .. Len(keys) /\ k \in 1 .. Lines /\ k \notin DOMAIN Before
         /\ nproc # 1 => r.returned = r.saved
<1>1. arrived \in Seq(ResultSet) /\ keys \in Seq(1 .. Lines)
  BY Zenon DEF Types
<1>2. Len(arrived) \in Nat \ {0} /\ r = arrived[1]
  BY <1>1, EmptySeq
<1>3. 1 \in 1 .. Len(arrived)
  BY <1>2
<1>4. r \in ResultSet
  BY <1>1, <1>2, <1>3, ElementOfSeq
<1>5. /\ r.idx \in 1 .. Len(keys) /\ keys[r.idx] \notin DOMAIN Before
      /\ r.saved.of = keys[r.idx]
      /\ nproc # 1 => r.returned = r.saved
  BY <1>2, <1>3, Zenon DEF ArrivedOnce
<1>6. k \in 1 .. Lines
  BY <1>1, <1>5, ElementOfSeq
<1>7. r.saved \in VerdictSet
  BY <1>4 DEF ResultSet
<1> QED BY <1>2, <1>4, <1>5, <1>6, <1>7

LEMMA InvOpenSave ==
  ASSUME Inv, OpenSave
  PROVE  Inv'
<1>1. /\ UNCHANGED <<driver, nproc, storage, keys, tasks, arrived, unordered>>
      /\ pc = "judge" /\ pc' = "save" /\ arrived # << >>
      /\ tmp' = Torn /\ ans' = WithHead
  BY DEF OpenSave, WithHead, Before
<1>2. /\ Types /\ Covered(Before) /\ KeysOnce /\ Before = tmp.has
      /\ TasksOnce /\ ArrivedOnce /\ SavedOnce /\ EveryTask
  BY <1>1 DEF Inv, Judging, Before
<1>3. tmp'.has = << >> /\ tmp'.is = "torn"
  BY <1>1 DEF Torn
<1> DEFINE r == Head(arrived)
           k == keys[r.idx]
<1>4. k \in 1 .. Lines /\ k \notin DOMAIN tmp.has /\ r.saved \in VerdictSet /\ r.saved.of = k
  BY <1>1, <1>2, NextResult
<1>5. ans' = [i \in DOMAIN tmp.has \cup {k} |-> IF i = k THEN r.saved ELSE tmp.has[i]]
  BY <1>1, <1>2 DEF WithHead
<1>6. Verdicts(ans')
  <2> HIDE DEF r, k
  <2>1. Verdicts(tmp.has)
    BY <1>2 DEF Types
  <2> QED BY <1>4, <1>5, <2>1 DEF Verdicts
<1>7. Types'
  BY <1>1, <1>2, <1>3, <1>6, NoVerdicts DEF Types
<1>8. Ways' /\ Begun' /\ Left' /\ Ended'
  BY <1>1 DEF Inv, Ways, Begun, Left, Ended
<1>9. Before' = Before
  <2>1. Before' = [i \in DOMAIN ans' \ {k} |-> ans'[i]]
    BY <1>1 DEF Before
  <2>2. tmp.has = [i \in DOMAIN tmp.has |-> tmp.has[i]]
    BY <1>2, Zenon DEF Types, Verdicts
  <2> HIDE DEF r, k
  <2>3. DOMAIN ans' \ {k} = DOMAIN tmp.has /\ \A i \in DOMAIN tmp.has : ans'[i] = tmp.has[i]
    BY <1>4, <1>5
  <2> QED BY <1>2, <2>1, <2>2, <2>3
<1>10. Judging'
  <2>1. Covered(Before)' /\ KeysOnce' /\ EveryTask'
    BY <1>1, <1>2, <1>9 DEF Covered, KeysOnce, EveryTask
  <2>2. TasksOnce' /\ SavedOnce'
    BY <1>1, <1>2, <1>9 DEF TasksOnce, SavedOnce
  <2>3. ArrivedOnce'
    BY <1>1, <1>2, <1>9 DEF ArrivedOnce
  <2>4. ans' = WithHead'
    BY <1>1, <1>9 DEF WithHead
  <2> QED BY <1>1, <1>3, <2>1, <2>2, <2>3, <2>4 DEF Judging, Torn
<1> QED BY <1>7, <1>8, <1>10 DEF Inv

LEMMA InvSave ==
  ASSUME Inv, Save
  PROVE  Inv'
<1> DEFINE r == Head(arrived)
           k == keys[r.idx]
<1>1. /\ UNCHANGED <<driver, nproc, storage, ans, keys, tasks>>
      /\ pc = "save" /\ pc' = "judge" /\ tmp' = File(ans)
      /\ unordered' = Append(unordered, r) /\ arrived' = Tail(arrived)
  BY DEF Save
<1>2. /\ Types /\ Covered(Before) /\ KeysOnce
      /\ TasksOnce /\ ArrivedOnce /\ SavedOnce /\ EveryTask
      /\ arrived # << >> /\ ans = WithHead
  BY <1>1 DEF Inv, Judging
<1>3. /\ Len(arrived) \in Nat \ {0} /\ r = arrived[1]
      /\ r \in ResultSet /\ r.saved \in VerdictSet /\ r.saved.of = k
      /\ r.idx \in 1 .. Len(keys) /\ k \in 1 .. Lines /\ k \notin DOMAIN Before
      /\ nproc # 1 => r.returned = r.saved
  BY <1>2, NextResult
<1>4. /\ Before' = [i \in DOMAIN Before \cup {k} |-> IF i = k THEN r.saved ELSE Before[i]]
      /\ tmp'.is = "ok" /\ tmp'.has = ans
  BY <1>1, <1>2 DEF WithHead, File, Before
<1> HIDE DEF r, k
<1>5. /\ DOMAIN Before' = DOMAIN Before \cup {k} /\ Before'[k] = r.saved
      /\ \A i \in DOMAIN Before : Before'[i] = Before[i]
  BY <1>3, <1>4
<1>6. /\ arrived \in Seq(ResultSet) /\ unordered \in Seq(ResultSet)
      /\ arrived' \in Seq(ResultSet) /\ Len(arrived') = Len(arrived) - 1
      /\ \A j \in 1 .. Len(arrived') : arrived'[j] = arrived[j + 1] /\ j + 1 \in 2 .. Len(arrived)
      /\ unordered' \in Seq(ResultSet) /\ Len(unordered') = Len(unordered) + 1
      /\ \A j \in 1 .. Len(unordered) : unordered'[j] = unordered[j]
      /\ Len(unordered) \in Nat /\ unordered'[Len(unordered) + 1] = r
  <2>1. arrived \in Seq(ResultSet) /\ unordered \in Seq(ResultSet)
    BY <1>2, Zenon DEF Types
  <2>2. /\ arrived' \in Seq(ResultSet) /\ Len(arrived') = Len(arrived) - 1
        /\ \A j \in 1 .. Len(arrived') : arrived'[j] = arrived[j + 1]
    BY <1>1, <1>2, <2>1, HeadTailProperties
  <2>3. \A j \in 1 .. Len(arrived') : j + 1 \in 2 .. Len(arrived)
    BY <1>3, <2>2
  <2>4. /\ unordered' \in Seq(ResultSet) /\ Len(unordered') = Len(unordered) + 1
        /\ \A j \in 1 .. Len(unordered) : unordered'[j] = unordered[j]
        /\ Len(unordered) \in Nat /\ unordered'[Len(unordered) + 1] = r
    BY <1>1, <1>3, <2>1
  <2> QED BY <2>1, <2>2, <2>3, <2>4
<1>7. \A i \in 1 .. Len(keys) : i # r.idx => keys[i] # k
  BY <1>2, <1>3 DEF KeysOnce, k
<1>8. Types'
  <2>1. Verdicts(tmp'.has)
    BY <1>2, <1>4 DEF Types
  <2> QED BY <1>1, <1>2, <1>4, <1>6, <2>1 DEF Types
<1>9. Ways' /\ Begun' /\ Left' /\ Ended'
  BY <1>1 DEF Inv, Ways, Begun, Left, Ended
<1>10. Covered(Before)' /\ KeysOnce'
  BY <1>1, <1>2, <1>5 DEF Covered, KeysOnce
<1>11. TasksOnce'
  <2>1. ASSUME NEW c \in tasks, NEW i \in 1 .. Len(c) PROVE keys[c[i]] \notin DOMAIN Before'
    <3>1. c[i] \in 1 .. Len(keys)
      <4>1. c \in Seq(1 .. Len(keys))
        BY <1>2 DEF TasksOnce
      <4> QED BY <4>1, ElementOfSeq
    <3>2. 1 \in 1 .. Len(arrived)
      BY <1>3
    <3>3. c[i] # r.idx
      BY <1>2, <1>3, <3>2, Zenon DEF ArrivedOnce
    <3>4. keys[c[i]] \notin DOMAIN Before
      BY <1>2 DEF TasksOnce
    <3> QED BY <1>5, <1>7, <3>1, <3>3, <3>4
  <2> QED BY <1>1, <1>2, <2>1 DEF TasksOnce
<1>12. ArrivedOnce'
  <2>1. ASSUME NEW j \in 1 .. Len(arrived')
        PROVE  /\ arrived'[j].idx \in 1 .. Len(keys)
               /\ keys[arrived'[j].idx] \notin DOMAIN Before'
               /\ arrived'[j].saved.of = keys[arrived'[j].idx]
               /\ nproc # 1 => arrived'[j].returned = arrived'[j].saved
    <3>1. PICK i \in 2 .. Len(arrived) : i = j + 1
      BY <1>6
    <3>2. i \in 1 .. Len(arrived) /\ 1 \in 1 .. Len(arrived) /\ i # 1
      BY <1>3
    <3>3. arrived'[j] = arrived[i]
      BY <1>6, <3>1
    <3>4. /\ arrived[i].idx \in 1 .. Len(keys) /\ keys[arrived[i].idx] \notin DOMAIN Before
          /\ arrived[i].saved.of = keys[arrived[i].idx]
          /\ nproc # 1 => arrived[i].returned = arrived[i].saved
      BY <1>2, <3>2, Zenon DEF ArrivedOnce
    <3>5. arrived[i].idx # r.idx
      BY <1>2, <1>3, <3>2, Zenon DEF ArrivedOnce
    <3>6. keys[arrived[i].idx] # k
      BY <1>7, <3>4, <3>5
    <3> QED BY <1>5, <3>3, <3>4, <3>6
  <2>2. ASSUME NEW i \in 1 .. Len(arrived'), NEW j \in 1 .. Len(arrived'),
               arrived'[i].idx = arrived'[j].idx
        PROVE  i = j
    <3>1. PICK p \in 2 .. Len(arrived), q \in 2 .. Len(arrived) : p = i + 1 /\ q = j + 1
      BY <1>6
    <3>2. p \in 1 .. Len(arrived) /\ q \in 1 .. Len(arrived)
      BY <1>3
    <3>3. arrived[p].idx = arrived[q].idx
      BY <1>6, <2>2, <3>1
    <3>4. p = q
      BY <1>2, <3>2, <3>3 DEF ArrivedOnce
    <3> QED BY <1>6, <3>1, <3>4
  <2>3. ASSUME NEW d \in tasks, NEW i \in 1 .. Len(d), NEW j \in 1 .. Len(arrived')
        PROVE  d[i] # arrived'[j].idx
    <3>1. PICK p \in 2 .. Len(arrived) : p = j + 1
      BY <1>6
    <3>2. p \in 1 .. Len(arrived) /\ arrived'[j] = arrived[p]
      BY <1>3, <1>6, <3>1
    <3> QED BY <1>2, <3>2 DEF ArrivedOnce
  <2>4. keys' = keys /\ nproc' = nproc /\ tasks' = tasks
    BY <1>1
  <2>5. \A j \in 1 .. Len(arrived') :
          /\ arrived'[j].idx \in 1 .. Len(keys')
          /\ keys'[arrived'[j].idx] \notin DOMAIN Before'
          /\ arrived'[j].saved.of = keys'[arrived'[j].idx]
          /\ nproc' # 1 => arrived'[j].returned = arrived'[j].saved
    BY <2>1, <2>4
  <2>6. \A d \in tasks' : \A i \in 1 .. Len(d), j \in 1 .. Len(arrived') : d[i] # arrived'[j].idx
    BY <2>3, <2>4
  <2> QED BY <2>2, <2>5, <2>6, Zenon DEF ArrivedOnce
<1>13. SavedOnce'
  <2> SUFFICES ASSUME NEW j \in 1 .. Len(unordered')
               PROVE  /\ unordered'[j].idx \in 1 .. Len(keys)
                      /\ keys[unordered'[j].idx] \in DOMAIN Before'
                      /\ Before'[keys[unordered'[j].idx]] = unordered'[j].saved
                      /\ nproc # 1 => unordered'[j].returned = unordered'[j].saved
    BY <1>1 DEF SavedOnce
  <2>1. CASE j \in 1 .. Len(unordered)
    <3>1. /\ unordered[j].idx \in 1 .. Len(keys)
          /\ keys[unordered[j].idx] \in DOMAIN Before
          /\ Before[keys[unordered[j].idx]] = unordered[j].saved
          /\ nproc # 1 => unordered[j].returned = unordered[j].saved
      BY <1>2, <2>1, Zenon DEF SavedOnce
    <3>2. unordered'[j] = unordered[j]
      BY <1>6, <2>1
    <3> QED BY <1>5, <3>1, <3>2
  <2>2. CASE j = Len(unordered) + 1
    <3>1. unordered'[j] = r
      BY <1>6, <2>2
    <3>2. keys[r.idx] = k
      BY DEF k
    <3> QED BY <1>3, <1>5, <3>1, <3>2
  <2> QED BY <1>6, <2>1, <2>2
<1>14. EveryTask'
  <2> SUFFICES ASSUME NEW i \in 1 .. Len(keys)
               PROVE  \/ \E d \in tasks : \E j \in 1 .. Len(d) : d[j] = i
                      \/ \E j \in 1 .. Len(arrived') : arrived'[j].idx = i
                      \/ \E j \in 1 .. Len(unordered') : unordered'[j].idx = i
    BY <1>1 DEF EveryTask
  <2>1. CASE \E d \in tasks : \E j \in 1 .. Len(d) : d[j] = i
    BY <2>1
  <2>2. CASE \E j \in 1 .. Len(arrived) : arrived[j].idx = i
    <3>1. PICK j \in 1 .. Len(arrived) : arrived[j].idx = i
      BY <2>2
    <3>2. CASE j = 1
      <4>1. Len(unordered) + 1 \in 1 .. Len(unordered') /\ unordered'[Len(unordered) + 1].idx = i
        BY <1>3, <1>6, <3>1, <3>2
      <4> QED BY <4>1
    <3>3. CASE j # 1
      <4>1. PICK p \in 1 .. Len(arrived') : j = p + 1
        <5>1. j - 1 \in 1 .. Len(arrived') /\ j = (j - 1) + 1
          BY <1>3, <1>6, <3>3
        <5> QED BY <5>1
      <4> QED BY <1>6, <3>1, <4>1
    <3> QED BY <3>2, <3>3
  <2>3. CASE \E j \in 1 .. Len(unordered) : unordered[j].idx = i
    <3>1. PICK j \in 1 .. Len(unordered) : unordered[j].idx = i
      BY <2>3
    <3>2. j \in 1 .. Len(unordered') /\ unordered'[j].idx = i
      BY <1>6, <3>1
    <3> QED BY <3>2
  <2> QED BY <1>2, <2>1, <2>2, <2>3 DEF EveryTask
<1>15. Judging'
  BY <1>1, <1>4, <1>10, <1>11, <1>12, <1>13, <1>14 DEF Judging
<1> QED BY <1>8, <1>9, <1>15 DEF Inv

\* When nothing is under way, every key has its result.
LEMMA AllReturned ==
  ASSUME Judging, pc = "judge", tasks = {}, arrived = << >>, NEW i \in 1 .. Len(keys)
  PROVE  /\ keys[i] \in DOMAIN tmp.has
         /\ nproc # 1 /\ unordered \in Seq(ResultSet) => tmp.has[keys[i]] = Results[i]
<1>1. SavedOnce /\ EveryTask /\ Before = tmp.has
  BY DEF Judging, Before
<1>2. PICK j \in 1 .. Len(unordered) : unordered[j].idx = i
  <2>1. Len(arrived) = 0
    OBVIOUS
  <2> QED BY <1>1, <2>1 DEF EveryTask
<1>3. keys[i] \in DOMAIN tmp.has
  BY <1>1, <1>2 DEF SavedOnce
<1>4. ASSUME nproc # 1, unordered \in Seq(ResultSet)
      PROVE  tmp.has[keys[i]] = Results[i]
  <2>1. DOMAIN unordered = 1 .. Len(unordered)
    BY <1>4, LenProperties
  <2>2. \E r \in ToSet(unordered) : r.idx = i
    BY <1>2, <2>1 DEF ToSet
  <2> DEFINE r == CHOOSE r \in ToSet(unordered) : r.idx = i
  <2>3. r \in ToSet(unordered) /\ r.idx = i
    BY <2>2
  <2>4. Results[i] = r.returned
    BY DEF Results
  <2> HIDE DEF r
  <2>5. PICK p \in 1 .. Len(unordered) : unordered[p] = r
    BY <2>1, <2>3 DEF ToSet
  <2>6. tmp.has[keys[unordered[p].idx]] = unordered[p].saved /\ unordered[p].returned = unordered[p].saved
    BY <1>1, <1>4 DEF SavedOnce
  <2> QED BY <2>3, <2>4, <2>5, <2>6
<1> QED BY <1>3, <1>4

LEMMA InvCheck ==
  ASSUME Inv, Check
  PROVE  Inv' /\ (nproc # 1 => pc' # "assertion")
<1>1. /\ UNCHANGED <<driver, nproc, tmp, storage, keys, tasks, arrived, unordered>>
      /\ pc = "judge" /\ tasks = {} /\ arrived = << >> /\ ans' = tmp.has
      /\ pc' = IF \A i \in DOMAIN keys : keys[i] \in DOMAIN tmp.has /\ tmp.has[keys[i]] = Results[i]
               THEN IF driver = "lines" THEN "store" ELSE "dump_again"
               ELSE "assertion"
  BY DEF Check, fileVars
<1>2. Types /\ Judging /\ Covered(tmp.has)
  BY <1>1 DEF Inv, Judging, Before
<1>3. DOMAIN keys = 1 .. Len(keys) /\ unordered \in Seq(ResultSet)
  <2>1. keys \in Seq(1 .. Lines)
    BY <1>2, Zenon DEF Types
  <2> QED BY <1>2, <2>1, LenProperties DEF Types
<1>4. \A i \in 1 .. Len(keys) : keys[i] \in DOMAIN tmp.has /\ (nproc # 1 => tmp.has[keys[i]] = Results[i])
  BY <1>1, <1>2, <1>3, AllReturned
<1>5. nproc # 1 => pc' # "assertion"
  BY <1>1, <1>3, <1>4
<1>6. Full(tmp.has)
  <2>1. DOMAIN tmp.has \subseteq 1 .. Lines
    BY <1>2, Zenon DEF Types, Verdicts
  <2>2. \A k \in 1 .. Lines : k \in DOMAIN tmp.has
    BY <1>2, <1>4, Zenon DEF Covered
  <2> QED BY <2>1, <2>2 DEF Full
<1>7. pc' \in {"store", "dump_again", "assertion"} /\ (pc' = "store" => driver = "lines")
      /\ (pc' = "dump_again" => driver # "lines")
  BY <1>1
<1>8. Types'
  BY <1>1, <1>2 DEF Types
<1>9. Ways' /\ Begun' /\ Left' /\ Judging'
  BY <1>1, <1>7 DEF Ways, Begun, Left, Judging
<1>10. Ended'
  <2>1. driver = "lines" => storage.is = "absent"
    BY <1>1 DEF Inv, Ended
  <2> QED BY <1>1, <1>6, <1>7, <2>1 DEF Ended
<1> QED BY <1>5, <1>8, <1>9, <1>10 DEF Inv

-----------------------------------------------------------------------------
(* What is written at the end.                                               *)

LEMMA InvOpenStorage ==
  ASSUME Inv, OpenStorage
  PROVE  Inv'
<1>1. /\ UNCHANGED <<driver, nproc, tmp, ans, keys, tasks, arrived, unordered>>
      /\ pc = "store" /\ pc' = "stored" /\ storage' = Torn
  BY DEF OpenStorage, memoryVars
<1>2. storage'.has = << >> /\ storage'.is = "torn"
  BY <1>1 DEF Torn
<1>3. Types /\ driver = "lines" /\ Full(ans) /\ ans = tmp.has
  BY <1>1 DEF Inv, Ways, Ended
<1>4. Types'
  BY <1>1, <1>2, <1>3, NoVerdicts DEF Types
<1>5. Ways' /\ Begun' /\ Left' /\ Judging'
  BY <1>1, <1>3 DEF Ways, Begun, Left, Judging
<1>6. Ended'
  BY <1>1, <1>2, <1>3 DEF Ended, Full
<1> QED BY <1>4, <1>5, <1>6 DEF Inv

LEMMA InvStore ==
  ASSUME Inv, Store
  PROVE  Inv'
<1>1. /\ UNCHANGED <<driver, nproc, tmp, ans, keys, tasks, arrived, unordered>>
      /\ pc = "stored" /\ pc' = "score" /\ storage' = File([k \in 1 .. Lines |-> ans[k]])
  BY DEF Store, memoryVars
<1>2. storage'.has = [k \in 1 .. Lines |-> ans[k]] /\ storage'.is = "ok"
  BY <1>1 DEF File
<1>3. Types /\ driver = "lines" /\ Full(ans) /\ ans = tmp.has
  BY <1>1 DEF Inv, Ways, Ended
<1>4. storage'.has = ans
  <2>1. ans = [k \in DOMAIN ans |-> ans[k]]
    BY <1>3, Zenon DEF Types, Verdicts
  <2> QED BY <1>2, <1>3, <2>1 DEF Full
<1>5. Types'
  BY <1>1, <1>3, <1>4 DEF Types
<1>6. Ways' /\ Begun' /\ Left' /\ Judging'
  BY <1>1, <1>2, <1>3 DEF Ways, Begun, Left, Judging, Scored
<1>7. Ended'
  BY <1>1, <1>2, <1>3, <1>4 DEF Ended, Full
<1> QED BY <1>5, <1>6, <1>7 DEF Inv

LEMMA InvOpenResult ==
  ASSUME Inv, OpenResult
  PROVE  Inv'
<1>1. /\ UNCHANGED <<driver, nproc, storage, ans, keys, tasks, arrived, unordered>>
      /\ pc = "dump_again" /\ pc' = "dumped" /\ tmp' = Torn
  BY DEF OpenResult, memoryVars
<1>2. tmp'.has = << >> /\ tmp'.is = "torn"
  BY <1>1 DEF Torn
<1>3. Types /\ driver # "lines" /\ Full(ans)
  BY <1>1 DEF Inv, Ways, Ended
<1>4. Types'
  BY <1>1, <1>2, <1>3, NoVerdicts DEF Types
<1>5. Ways' /\ Begun' /\ Left' /\ Judging' /\ Ended'
  BY <1>1, <1>3 DEF Ways, Begun, Left, Judging, Ended, Full
<1> QED BY <1>4, <1>5 DEF Inv

LEMMA InvWriteResult ==
  ASSUME Inv, WriteResult
  PROVE  Inv'
<1>1. /\ UNCHANGED <<driver, nproc, storage, ans, keys, tasks, arrived, unordered>>
      /\ pc = "dumped" /\ pc' = "score" /\ tmp' = File(ans)
  BY DEF WriteResult, memoryVars
<1>2. tmp'.has = ans /\ tmp'.is = "ok"
  BY <1>1 DEF File
<1>3. Types /\ driver # "lines" /\ Full(ans)
  BY <1>1 DEF Inv, Ways, Ended
<1>4. Types'
  BY <1>1, <1>2, <1>3 DEF Types
<1>5. Ways' /\ Begun' /\ Left' /\ Judging' /\ Ended'
  BY <1>1, <1>2, <1>3 DEF Ways, Begun, Left, Judging, Ended, Full, Scored
<1> QED BY <1>4, <1>5 DEF Inv

LEMMA InvScore ==
  ASSUME Inv, Score
  PROVE  Inv'
<1>1. /\ UNCHANGED <<driver, nproc, tmp, storage, ans, keys, tasks, arrived, unordered>>
      /\ pc = "score" /\ pc' = IF Scored.is = "ok" THEN "done" ELSE "off"
  BY DEF Score, fileVars, memoryVars
<1>2. Types /\ (Scored.is # "ok" => PoolIdle)
  BY <1>1 DEF Inv, Begun
<1>3. Types'
  BY <1>1, <1>2 DEF Types
<1>4. Ways' /\ Begun' /\ Left' /\ Judging'
  BY <1>1, <1>2 DEF Ways, Begun, Left, Judging, PoolIdle
<1>5. Ended'
  BY <1>1 DEF Inv, Ended, Full, Scored
<1> QED BY <1>3, <1>4, <1>5 DEF Inv

LEMMA InvStop ==
  ASSUME Inv, Stop
  PROVE  Inv'
<1>1. /\ UNCHANGED <<driver, nproc, tmp, storage>>
      /\ pc \notin {"off", "done", "assertion"} /\ pc' = "off"
      /\ ans' = << >> /\ keys' = << >> /\ tasks' = {} /\ arrived' = << >> /\ unordered' = << >>
  BY DEF Stop, fileVars
<1>2. << >> \in Seq(1 .. Lines) /\ << >> \in Seq(ResultSet)
  OBVIOUS
<1>3. Types'
  BY <1>1, <1>2, NoVerdicts DEF Inv, Types
<1>4. Ways' /\ Begun' /\ Left' /\ Judging'
  BY <1>1 DEF Ways, Begun, Left, Judging, PoolIdle
<1>5. Ended'
  BY <1>1 DEF Inv, Ended, Full
<1> QED BY <1>3, <1>4, <1>5 DEF Inv

LEMMA InvNext == Inv /\ [Next]_vars => Inv'
<1> SUFFICES ASSUME Inv, [Next]_vars PROVE Inv'
  OBVIOUS
<1>1. CASE UNCHANGED vars
  <2>1. UNCHANGED <<driver, nproc, pc, tmp, storage, ans, keys, tasks, arrived, unordered>>
    BY <1>1 DEF vars, fileVars, memoryVars
  <2>2. Types'
    BY <2>1 DEF Inv, Types
  <2>3. Ways' /\ Begun' /\ Left'
    BY <2>1 DEF Inv, Ways, Begun, PoolIdle, Scored, Left, Covered, Fresh, KeysOnce
  <2>4. Judging'
    <3>1. Before' = Before
      BY <2>1 DEF Before
    <3>2. WithHead' = WithHead
      BY <2>1, <3>1 DEF WithHead
    <3>3. TasksOnce => TasksOnce'
      BY <2>1, <3>1 DEF TasksOnce
    <3>4. ArrivedOnce => ArrivedOnce'
      BY <2>1, <3>1 DEF ArrivedOnce
    <3>5. SavedOnce => SavedOnce'
      BY <2>1, <3>1 DEF SavedOnce
    <3>6. (EveryTask => EveryTask') /\ (KeysOnce => KeysOnce') /\ (Covered(Before) => Covered(Before)')
      BY <2>1, <3>1 DEF EveryTask, KeysOnce, Covered
    <3> QED BY <2>1, <3>2, <3>3, <3>4, <3>5, <3>6 DEF Inv, Judging, Torn
  <2>5. Ended'
    BY <2>1 DEF Inv, Ended, Full, Scored
  <2> QED BY <2>2, <2>3, <2>4, <2>5 DEF Inv
<1> QED BY <1>1, InvStart, InvResume, InvPrefetch, InvDump, InvExactMatch, InvInitSave, InvCreate,
           InvDeliver, InvOpenSave, InvSave, InvCheck, InvOpenStorage, InvStore, InvOpenResult, InvWriteResult,
           InvScore, InvStop DEF Next

\* The invariant holds in every state.
LEMMA Invariance == Spec => []Inv
BY InvInit, InvNext, PTL DEF Spec

-----------------------------------------------------------------------------

\* With a pool, the assertion after track_progress_rich holds: the verdict saved for a key,
\* while chunks arrive in any order, is the one returned at its place.
THEOREM WhatIsSavedIsReturned == ASSUME PoolUsed PROVE Spec => []SavedIsReturned
<1>1. Init => SavedIsReturned
  BY DEF Init, SavedIsReturned
<1>2. Inv /\ SavedIsReturned /\ [Next]_vars => SavedIsReturned'
  <2> SUFFICES ASSUME Inv, pc # "assertion", [Next]_vars PROVE pc' # "assertion"
    BY DEF SavedIsReturned
  <2>1. nproc # 1
    BY DEF Inv, Types, PoolUsed
  <2>2. CASE Check
    BY <2>1, <2>2, InvCheck
  <2>3. CASE ~Check /\ Next
    BY <2>3 DEF Next, Start, Resume, Prefetch, Dump, ExactMatch, InitSave, Create, Deliver, OpenSave,
                Save, OpenStorage, Store, OpenResult, WriteResult, Score, Stop
  <2>4. CASE UNCHANGED vars
    BY <2>4 DEF vars
  <2> QED BY <2>2, <2>3, <2>4
<1> QED BY <1>1, <1>2, Invariance, PTL DEF Spec

\* What is scored has a verdict of its own for every line, and is what was saved, although
\* the run may have been killed between any two steps.
THEOREM EveryLineIsScored == Spec => []ScoreIsOfAll
<1>1. Inv => ScoreIsOfAll
  <2> SUFFICES ASSUME Inv, pc = "done"
               PROVE  /\ DOMAIN Scored.has = 1 .. Lines
                      /\ \A k \in 1 .. Lines : Scored.has[k].of = k
                      /\ driver = "lines" => Scored.has = tmp.has
    BY DEF ScoreIsOfAll
  <2>1. Full(Scored.has) /\ (driver = "lines" => Scored.has = tmp.has)
    BY DEF Inv, Ended, Scored
  <2>2. Verdicts(Scored.has)
    BY DEF Inv, Types, Scored
  <2> QED BY <2>1, <2>2 DEF Full, Verdicts
<1> QED BY <1>1, Invariance, PTL

\* The verdicts that were saved are in the file, or were before it was opened.  It is not
\* torn but while it is written, and for a run that was killed then.
SavedKept ==
  driver = "lines" =>
    /\ tmp.is = "torn" => pc \in {"off", "create", "save"}
    /\ storage.is # "absent" => tmp.is # "torn"
    /\ (tmp.is = "torn" /\ pc = "off") \/ \A v \in saved : v.of \in DOMAIN Before /\ Before[v.of] = v

LEMMA SavedKeptNext ==
  ASSUME Inv, SavedKept, [Next]_vars
  PROVE  SavedKept'
<1> SUFFICES ASSUME driver' = "lines"
             PROVE  /\ tmp'.is = "torn" => pc' \in {"off", "create", "save"}
                    /\ storage'.is # "absent" => tmp'.is # "torn"
                    /\ (tmp'.is = "torn" /\ pc' = "off")
                       \/ \A v \in saved' : v.of \in DOMAIN Before' /\ Before'[v.of] = v
  BY DEF SavedKept
<1>1. /\ driver = "lines"
      /\ tmp.is = "torn" => pc \in {"off", "create", "save"}
      /\ storage.is # "absent" => tmp.is # "torn"
      /\ (tmp.is = "torn" /\ pc = "off") \/ \A v \in saved : v.of \in DOMAIN Before /\ Before[v.of] = v
  <2>1. driver' = driver
    BY DEF Next, Start, Resume, Prefetch, Dump, ExactMatch, InitSave, Create, Deliver, OpenSave, Save,
           Check, OpenStorage, Store, OpenResult, WriteResult, Score, Stop, vars
  <2> QED BY <2>1 DEF SavedKept
<1>2. pc = "save" => tmp.is = "torn"
  BY DEF Inv, Judging, Torn
<1>3. CASE Save
  <2> DEFINE r == Head(arrived)
             k == keys[r.idx]
  <2>1. /\ pc = "save" /\ pc' = "judge" /\ tmp' = File(ans) /\ saved' = saved \cup {r.saved}
        /\ storage' = storage
    BY <1>3 DEF Save
  <2>2. Types /\ ArrivedOnce /\ arrived # << >> /\ ans = WithHead /\ storage.is = "absent"
    BY <1>1, <2>1 DEF Inv, Judging, Ended
  <2>3. r.saved.of = k
    BY <2>2, NextResult
  <2>4. Before' = ans /\ tmp'.is = "ok"
    BY <2>1 DEF Before, File
  <2>5. Before = [i \in DOMAIN ans \ {k} |-> ans[i]]
    BY <2>1 DEF Before
  <2>6. k \in DOMAIN ans /\ ans[k] = r.saved
    BY <2>2 DEF WithHead
  <2>7. \A v \in saved : v.of \in DOMAIN Before /\ Before[v.of] = v
    BY <1>1, <2>1
  <2> HIDE DEF r, k
  <2>8. \A v \in saved : v.of \in DOMAIN ans /\ ans[v.of] = v
    BY <2>5, <2>7
  <2> QED BY <2>1, <2>2, <2>3, <2>4, <2>6, <2>8
<1>4. CASE InitSave
  <2>1. /\ pc = "init" /\ saved' = saved /\ storage' = storage
        /\ IF tmp.is = "absent" THEN tmp' = Torn /\ pc' = "create" ELSE tmp' = tmp /\ pc' = "judge"
    BY <1>4 DEF InitSave
  <2>2. storage.is = "absent" /\ (tmp.is = "absent" => tmp.has = << >>)
    BY <1>1, <2>1 DEF Inv, Types, Ended, Absent
  <2>3. Before' = Before
    BY <2>1, <2>2 DEF Before, Torn
  <2> QED BY <1>1, <2>1, <2>2, <2>3
<1>5. CASE Create
  <2>1. pc = "create" /\ pc' = "judge" /\ tmp' = File(<< >>) /\ saved' = saved /\ tmp = Torn
    BY <1>5 DEF Create, Inv, Judging
  <2>2. Before' = Before /\ tmp'.is = "ok"
    BY <2>1 DEF Before, File, Torn
  <2> QED BY <1>1, <2>1, <2>2
<1>6. CASE OpenSave
  <2>1. /\ pc = "judge" /\ pc' = "save" /\ arrived # << >> /\ saved' = saved /\ storage' = storage
        /\ arrived' = arrived /\ keys' = keys /\ ans' = WithHead
    BY <1>6 DEF OpenSave, WithHead, Before
  <2> DEFINE k == keys[Head(arrived).idx]
  <2>2. Types /\ ArrivedOnce /\ storage.is = "absent"
    BY <1>1, <2>1 DEF Inv, Judging, Ended
  <2>3. k \notin DOMAIN Before
    BY <2>1, <2>2, NextResult
  <2>4. Before' = [i \in DOMAIN ans' \ {k} |-> ans'[i]]
    BY <2>1 DEF Before
  <2>5. ans' = [i \in DOMAIN Before \cup {k} |-> IF i = k THEN Head(arrived).saved ELSE Before[i]]
    BY <2>1 DEF WithHead
  <2> HIDE DEF k
  <2>6. \A i \in DOMAIN Before : i \in DOMAIN Before' /\ Before'[i] = Before[i]
    BY <2>3, <2>4, <2>5
  <2> QED BY <1>1, <2>1, <2>2, <2>6
<1>7. CASE Prefetch \/ Dump \/ ExactMatch \/ OpenResult \/ WriteResult
  BY <1>1, <1>7 DEF Inv, Ways, Prefetch, Dump, ExactMatch, OpenResult, WriteResult
<1>8. CASE OpenStorage \/ Store
  BY <1>1, <1>8 DEF OpenStorage, Store, Before
<1>9. CASE Start \/ Resume \/ Deliver \/ Check \/ Score \/ Stop
  <2>1. tmp' = tmp /\ storage' = storage /\ saved' = saved /\ pc' # "save"
    BY <1>9 DEF Start, Resume, Deliver, Check, Score, Stop, fileVars
  <2>2. tmp.is = "torn" => pc' = "off"
    BY <1>1, <1>9 DEF Start, Resume, Deliver, Check, Score, Stop
  <2>3. tmp.is # "torn" => Before' = Before
    BY <1>2, <2>1 DEF Before
  <2> QED BY <1>1, <2>1, <2>2, <2>3
<1>10. CASE UNCHANGED vars
  BY <1>1, <1>10 DEF vars, fileVars, memoryVars, Before
<1> QED BY <1>3, <1>4, <1>5, <1>6, <1>7, <1>8, <1>9, <1>10 DEF Next

\* A verdict whose dump came to its end is never lost or replaced by a run that goes on: it
\* is in tmp_file, or in memory while the file is written again, however often the run was
\* killed before.  Where a kill inside a dump has lost it, no run goes on.
THEOREM NoVerdictIsLost == Spec => []VerdictsKept
<1>1. Init => SavedKept
  BY DEF Init, SavedKept, Absent
<1>2. Inv /\ SavedKept => VerdictsKept
  <2> SUFFICES ASSUME Inv, SavedKept, driver = "lines"
               PROVE  LET Keeps(f) == \A v \in saved : v.of \in DOMAIN f /\ f[v.of] = v
                      IN IF tmp.is = "torn"
                         THEN pc = "off" \/ (pc \in {"create", "save"} /\ Keeps(ans))
                         ELSE Keeps(tmp.has)
    BY DEF VerdictsKept
  <2>1. /\ tmp.is = "torn" => pc \in {"off", "create", "save"}
        /\ (tmp.is = "torn" /\ pc = "off") \/ \A v \in saved : v.of \in DOMAIN Before /\ Before[v.of] = v
    BY DEF SavedKept
  <2>2. pc = "save" => Before = [i \in DOMAIN ans \ {keys[Head(arrived).idx]} |-> ans[i]]
    BY DEF Before
  <2>3. pc = "create" => DOMAIN Before = {}
    BY NoVerdicts DEF Inv, Judging, Before, Torn
  <2>4. tmp.is # "torn" => Before = tmp.has
    BY DEF Inv, Judging, Before, Torn
  <2> QED BY <2>1, <2>2, <2>3, <2>4
<1>3. Inv /\ SavedKept /\ [Next]_vars => SavedKept'
  BY SavedKeptNext
<1> QED BY <1>1, <1>2, <1>3, Invariance, PTL DEF Spec
=============================================================================
