--------------------------- MODULE HybridCacheProofs ---------------------------
(***************************************************************************)
(* Theorems about HybridCache, for every chunk size, convolution kernel,   *)
(* number of layers, prompt and later turn.  First the positions: what     *)
(* get_rope_index, rope_deltas and cache_position give is what one run     *)
(* gives (PositionsAsInOneRun).  Then the outputs: the chunked gated delta *)
(* rule is the one for one token (ChunkRuleIs), the convolution from its   *)
(* state is the one over all inputs, hence the cache changes nothing       *)
(* (OutputsAsInOneRun).                                                    *)
(***************************************************************************)
EXTENDS HybridCache, SequenceTheorems, WellFoundedInduction, TLAPS

-----------------------------------------------------------------------------
(* Induction, recursive functions and division.                             *)

\* Induction, for a set of numbers.
LEMMA Induction ==
  ASSUME NEW P, 0 \in P, \A n \in Nat : n \in P => n + 1 \in P
  PROVE  \A n \in Nat : n \in P
<1> DEFINE Bad == {n \in Nat : n \notin P}
<1>1. SUFFICES ASSUME Bad # {} PROVE FALSE
  OBVIOUS
<1>2. Bad \subseteq Nat
  OBVIOUS
<1>3. PICK m \in Bad : \A k \in Bad : ~(<<k, m>> \in OpToRel(<, Nat))
  BY <1>1, <1>2, NatLessThanWellFounded, WFMin
<1>4. m \in Nat /\ m \notin P
  OBVIOUS
<1>5. m # 0 /\ m - 1 \in Nat /\ m - 1 \notin P
  BY <1>4
<1>6. <<m - 1, m>> \in OpToRel(<, Nat)
  BY <1>4, <1>5 DEF OpToRel
<1> QED
  BY <1>3, <1>5, <1>6

\* Induction, where all smaller numbers are known.
LEMMA StrongInduction ==
  ASSUME NEW P, \A n \in Nat : (\A m \in 0 .. n - 1 : m \in P) => n \in P
  PROVE  \A n \in Nat : n \in P
<1> DEFINE Q == {n \in Nat : \A m \in 0 .. n : m \in P}
<1>1. 0 \in Q
  OBVIOUS
<1>2. ASSUME NEW n \in Nat, n \in Q PROVE n + 1 \in Q
  <2>1. n + 1 \in P
    BY <1>2
  <2> QED
    BY <1>2, <2>1
<1> HIDE DEF Q
<1>3. \A n \in Nat : n \in Q
  BY <1>1, <1>2, Induction
<1> QED
  BY <1>3 DEF Q

\* g is given by its value at 0 and a step.
Iterates(g, N, S, base, step) ==
  g \in [0 .. N -> S] /\ g[0] = base /\ \A i \in 1 .. N : g[i] = step[i][g[i-1]]

\* A function of S to itself for every step.
Steps(step, N, S) == step \in [1 .. N -> [S -> S]]

\* There is such a function.
LEMMA Primitive ==
  ASSUME NEW N \in Nat, NEW S, NEW base \in S, NEW step, Steps(step, N, S)
  PROVE  \E g : Iterates(g, N, S, base, step)
<1> DEFINE Good(g, n) == g \in [0 .. n -> S] /\ g[0] = base /\ \A i \in 1 .. n : g[i] = step[i][g[i-1]]
           P == {n \in Nat : n <= N => \E g : Good(g, n)}
<1>1. 0 \in P
  <2>1. Good([i \in 0 .. 0 |-> base], 0)
    OBVIOUS
  <2> QED
    BY <2>1
<1>2. ASSUME NEW n \in Nat, n \in P PROVE n + 1 \in P
  <2>1. SUFFICES ASSUME n + 1 <= N PROVE \E g : Good(g, n + 1)
    OBVIOUS
  <2>2. PICK g : Good(g, n)
    BY <1>2, <2>1
  <2> DEFINE h == [i \in 0 .. n + 1 |-> IF i = n + 1 THEN step[n+1][g[n]] ELSE g[i]]
  <2>3. step[n+1][g[n]] \in S
    BY <2>1, <2>2 DEF Steps
  <2>4. h \in [0 .. n + 1 -> S] /\ h[0] = base
    BY <2>2, <2>3
  <2>5. ASSUME NEW i \in 1 .. n + 1 PROVE h[i] = step[i][h[i-1]]
    <3>1. CASE i = n + 1
      BY <3>1
    <3>2. CASE i \in 1 .. n
      BY <2>2, <3>2
    <3> QED
      BY <3>1, <3>2
  <2> QED
    BY <2>4, <2>5
<1> HIDE DEF P
<1>3. N \in P
  BY <1>1, <1>2, Induction
<1> QED
  BY <1>3 DEF P, Iterates

\* There is one such function.
LEMMA Unique ==
  ASSUME NEW N \in Nat, NEW g, NEW h, g[0] = h[0], DOMAIN g = 0 .. N, DOMAIN h = 0 .. N,
         \A i \in 1 .. N : g[i-1] = h[i-1] => g[i] = h[i]
  PROVE  \A i \in 0 .. N : g[i] = h[i]
<1> DEFINE P == {n \in Nat : n <= N => g[n] = h[n]}
<1>1. 0 \in P
  OBVIOUS
<1>2. ASSUME NEW n \in Nat, n \in P PROVE n + 1 \in P
  BY <1>2
<1> HIDE DEF P
<1>3. \A n \in Nat : n \in P
  BY <1>1, <1>2, Induction
<1> QED
  BY <1>3 DEF P

\* g and h begin alike, and every step keeps them alike.
SameSteps(g, h, N) == g[0] = h[0] /\ \A i \in 1 .. N : g[i-1] = h[i-1] => g[i] = h[i]

\* One may be longer.
LEMMA SameBeginning ==
  ASSUME NEW N \in Nat, NEW g, NEW h, SameSteps(g, h, N)
  PROVE  \A i \in 0 .. N : g[i] = h[i]
<1> DEFINE P == {n \in Nat : n <= N => g[n] = h[n]}
<1>1. 0 \in P
  BY DEF SameSteps
<1>2. ASSUME NEW n \in Nat, n \in P PROVE n + 1 \in P
  BY <1>2 DEF SameSteps
<1> HIDE DEF P
<1>3. \A n \in Nat : n \in P
  BY <1>1, <1>2, Induction
<1> QED
  BY <1>3 DEF P

\* Quotient and remainder.
LEMMA Division ==
  ASSUME NEW a \in Nat, NEW n \in Nat \ {0}
  PROVE  /\ a \div n \in Nat /\ a % n \in 0 .. n - 1
         /\ a = n * (a \div n) + (a % n)
  OBVIOUS

\* They are the only ones.
LEMMA DivisionIs ==
  ASSUME NEW n \in Nat \ {0}, NEW q \in Nat, NEW r \in 0 .. n - 1, NEW a, a = n * q + r
  PROVE  a \div n = q /\ a % n = r
<1> DEFINE q1 == a \div n  r1 == a % n
<1>0. n * q \in Nat
  OBVIOUS
<1>1. a \in Nat
  BY <1>0
<1>2. q1 \in Nat /\ r1 \in 0 .. n - 1 /\ a = n * q1 + r1
  BY <1>1, Division
<1> HIDE DEF q1, r1
<1>3. n * (q1 - q) = r - r1
  BY <1>2
<1>4. ~(q1 > q)
  <2> SUFFICES ASSUME q1 - q >= 1 PROVE FALSE
    BY <1>2
  <2>1. n * (q1 - q) >= n
    BY <1>2
  <2> QED
    BY <2>1, <1>2, <1>3
<1>5. ~(q1 < q)
  <2> SUFFICES ASSUME q - q1 >= 1 PROVE FALSE
    BY <1>2
  <2>1. n * (q - q1) >= n
    BY <1>2
  <2> QED
    BY <2>1, <1>2, <1>3
<1>6. q1 = q
  BY <1>4, <1>5, <1>2
<1> QED
  BY <1>2, <1>6 DEF q1, r1

\* A larger number has no smaller quotient.
LEMMA DivisionMonotone ==
  ASSUME NEW a \in Nat, NEW b \in Nat, a <= b, NEW n \in Nat \ {0}
  PROVE  a \div n <= b \div n
<1> DEFINE q == a \div n  p == b \div n  r == a % n  s == b % n
<1>1. /\ q \in Nat /\ r \in 0 .. n - 1 /\ a = n * q + r
      /\ p \in Nat /\ s \in 0 .. n - 1 /\ b = n * p + s
  BY Division
<1> HIDE DEF q, p, r, s
<1>2. SUFFICES ASSUME q - p >= 1 PROVE FALSE
  BY <1>1 DEF q, p
<1>3. n * (q - p) >= n
  BY <1>1, <1>2
<1> QED
  BY <1>1, <1>3

-----------------------------------------------------------------------------
(* Sequences.                                                                *)

\* u is the concatenation of s and t.
IsConcat(u, s, t, S) == s \in Seq(S) /\ t \in Seq(S) /\ u = s \o t

\* What a concatenation consists of.
LEMMA Concat ==
  ASSUME NEW S, NEW s, NEW t, NEW u, IsConcat(u, s, t, S)
  PROVE  /\ u \in Seq(S) /\ Len(u) = Len(s) + Len(t)
         /\ \A i \in 1 .. Len(s) + Len(t) : u[i] = IF i <= Len(s) THEN s[i] ELSE t[i - Len(s)]
<1> DEFINE v == s \o t
<1>1. s \in Seq(S) /\ t \in Seq(S) /\ u = v
  BY DEF IsConcat
<1>2. /\ v \in Seq(S) /\ Len(v) = Len(s) + Len(t)
      /\ \A i \in 1 .. Len(s) + Len(t) : v[i] = IF i <= Len(s) THEN s[i] ELSE t[i - Len(s)]
  BY <1>1, ConcatProperties
<1> HIDE DEF v
<1> QED
  BY <1>1, <1>2

\* u is the n elements of s after the first m.
IsPart(u, s, m, n, S) ==
  /\ s \in Seq(S) /\ m \in Nat /\ n \in Nat /\ m + n <= Len(s)
  /\ u = SubSeq(s, m + 1, m + n)

\* What a part of a sequence consists of.
LEMMA Part ==
  ASSUME NEW S, NEW s, NEW m, NEW n, NEW u, IsPart(u, s, m, n, S)
  PROVE  u \in Seq(S) /\ Len(u) = n /\ \A i \in 1 .. n : u[i] = s[m + i]
<1> DEFINE v == SubSeq(s, m + 1, m + n)
<1>1. /\ s \in Seq(S) /\ m \in Nat /\ n \in Nat /\ m + n <= Len(s)
      /\ u = v
  BY DEF IsPart
<1>2. Len(s) \in Nat /\ \A i \in 1 .. Len(s) : s[i] \in S
  BY <1>1
<1>3. m + 1 \in Int /\ m + n \in Int /\ \A i \in m + 1 .. m + n : s[i] \in S
  BY <1>1, <1>2
<1>4. v \in Seq(S) /\ Len(v) = IF m + 1 <= m + n THEN (m + n) - (m + 1) + 1 ELSE 0
  BY <1>3, SubSeqProperties
<1>5. \A i \in 1 .. (m + n) - (m + 1) + 1 : v[i] = s[(m + 1) + i - 1]
  BY <1>3, SubSeqProperties
<1> HIDE DEF v
<1>6. (m + n) - (m + 1) + 1 = n /\ \A i \in 1 .. n : (m + 1) + i - 1 = m + i
  BY <1>1
<1>7. Len(v) = n
  BY <1>1, <1>4
<1> QED
  BY <1>1, <1>4, <1>5, <1>6, <1>7

-----------------------------------------------------------------------------
(* Positions.                                                                *)

\* A group of tokens, and a position: time, height and width.
Group == Texts \cup Images
Pos == Int \X Int \X Int

\* pos is the position after all of ids, which begin at 0.
Reach(ids, pos) ==
  /\ ids \in Seq(Pos) /\ pos \in Nat
  /\ \A i \in 1 .. Len(ids) : ids[i][1] \in 0 .. pos - 1 /\ ids[i][2] \in 0 .. pos - 1 /\ ids[i][3] \in 0 .. pos - 1
  /\ ids = << >> => pos = 0
  /\ ids # << >> =>
       /\ ids[1][1] = 0
       /\ \E i \in 1 .. Len(ids) : \/ ids[i][1] = pos - 1 \/ ids[i][2] = pos - 1 \/ ids[i][3] = pos - 1

\* A group of text is one token.
LEMMA TextFacts ==
  ASSUME NEW g \in Texts
  PROVE  ~IsImage(g) /\ Size(g) = 1 /\ g.embed \in Input
  BY HybridCacheAssumption DEF IsImage, Size

\* An image has at least one row and one column after merging.
LEMMA ImageFacts ==
  ASSUME NEW g \in Images
  PROVE  /\ IsImage(g) /\ g.embed \in Input
         /\ g.grid \in Nat \X Nat /\ g.grid[1] >= MergeSize /\ g.grid[2] >= MergeSize
         /\ g.grid[1] \div MergeSize \in Nat \ {0} /\ g.grid[2] \div MergeSize \in Nat \ {0}
<1>1. g.embed \in Input /\ g.grid \in Nat \X Nat /\ g.grid[1] >= MergeSize /\ g.grid[2] >= MergeSize
  BY HybridCacheAssumption
<1>2. IsImage(g)
  <2>1. Len(g.grid) = 2
    BY <1>1
  <2> QED
    BY <2>1 DEF IsImage
<1>3. MergeSize \div MergeSize = 1 /\ MergeSize \in Nat \ {0}
  BY HybridCacheAssumption
<1>4. ASSUME NEW a \in Nat, a >= MergeSize PROVE a \div MergeSize \in Nat \ {0}
  <2>1. 1 <= a \div MergeSize
    BY <1>3, <1>4, DivisionMonotone
  <2>2. a \div MergeSize \in Nat
    BY <1>3, Division
  <2> QED
    BY <2>1, <2>2
<1> QED
  BY <1>1, <1>2, <1>4

\* The next position of the reference is the one that get_rope_index keeps.
LEMMA AfterIs ==
  ASSUME NEW ids, NEW pos, Reach(ids, pos)
  PROVE  /\ After(ids) = pos
         /\ ids # << >> => MaxPosition(ids) = pos - 1
<1>1. CASE ids = << >>
  BY <1>1 DEF After, Reach
<1>2. CASE ids # << >>
  <2> DEFINE S == UNION {{ids[i][1], ids[i][2], ids[i][3]} : i \in DOMAIN ids}
  <2>1. DOMAIN ids = 1 .. Len(ids) /\ pos \in Nat
    BY DEF Reach
  <2>2. \A x \in S : x \in 0 .. pos - 1
    BY <2>1 DEF Reach
  <2>3. pos - 1 \in S
    BY <1>2, <2>1 DEF Reach
  <2>4. Max(S) = CHOOSE x \in S : \A y \in S : x >= y
    BY DEF Max
  <2> HIDE DEF S
  <2>5. Max(S) = pos - 1
    BY <2>1, <2>2, <2>3, <2>4
  <2> QED
    BY <1>2, <2>1, <2>5 DEF After, MaxPosition, S
<1> QED
  BY <1>1, <1>2

\* A text token takes the next position.
LEMMA TextPlaced ==
  ASSUME NEW ids, NEW pos, Reach(ids, pos), NEW g \in Texts
  PROVE  /\ Placed(ids, g) = Append(ids, <<pos, pos, pos>>)
         /\ Reach(Append(ids, <<pos, pos, pos>>), pos + 1)
<1>1. Placed(ids, g) = Append(ids, <<pos, pos, pos>>)
  BY AfterIs, TextFacts DEF Placed
<1> DEFINE t == <<pos, pos, pos>>  new == Append(ids, t)
<1>2. ids \in Seq(Pos) /\ pos \in Nat /\ t \in Pos /\ t[1] = pos /\ t[2] = pos /\ t[3] = pos
  BY DEF Reach, Pos
<1> HIDE DEF t
<1>3. /\ new \in Seq(Pos) /\ Len(new) = Len(ids) + 1 /\ new # << >>
      /\ \A i \in 1 .. Len(ids) : new[i] = ids[i]
      /\ new[Len(ids) + 1] = t
  BY <1>2, AppendProperties
<1> HIDE DEF new
<1>4. Len(ids) \in Nat /\ (ids = << >> <=> Len(ids) = 0)
  BY <1>2
<1>5. \A i \in 1 .. Len(new) : new[i][1] \in 0 .. pos /\ new[i][2] \in 0 .. pos /\ new[i][3] \in 0 .. pos
  <2> SUFFICES ASSUME NEW i \in 1 .. Len(new)
               PROVE  new[i][1] \in 0 .. pos /\ new[i][2] \in 0 .. pos /\ new[i][3] \in 0 .. pos
    OBVIOUS
  <2>1. CASE i = Len(ids) + 1
    BY <2>1, <1>2, <1>3
  <2>2. CASE i \in 1 .. Len(ids)
    BY <2>2, <1>2, <1>3 DEF Reach
  <2> QED
    BY <2>1, <2>2, <1>3, <1>4
<1>6. new[1][1] = 0
  <2>1. CASE Len(ids) = 0
    BY <2>1, <1>2, <1>3, <1>4 DEF Reach
  <2>2. CASE Len(ids) # 0
    BY <2>2, <1>3, <1>4 DEF Reach
  <2> QED
    BY <2>1, <2>2
<1>7. Len(ids) + 1 \in 1 .. Len(new) /\ new[Len(ids) + 1][1] = (pos + 1) - 1
  BY <1>2, <1>3, <1>4
<1>8. Reach(new, pos + 1)
  BY <1>2, <1>3, <1>5, <1>6, <1>7 DEF Reach
<1> QED
  BY <1>1, <1>8 DEF new, t

\* The cell that the reference chooses for a token of an image is the one that the code
\* computes by division.
LEMMA CellIs ==
  ASSUME NEW h \in Nat \ {0}, NEW w \in Nat \ {0}, NEW i \in 1 .. h * w
  PROVE  /\ (i - 1) \div w \in 0 .. h - 1 /\ (i - 1) % w \in 0 .. w - 1
         /\ (CHOOSE c \in (0 .. h - 1) \X (0 .. w - 1) : i = c[1] * w + c[2] + 1) = <<(i - 1) \div w, (i - 1) % w>>
<1> DEFINE q == (i - 1) \div w  r == (i - 1) % w
<1>0. h * w \in Nat
  OBVIOUS
<1>1. i - 1 \in Nat /\ i - 1 < h * w
  BY <1>0
<1>2. q \in Nat /\ r \in 0 .. w - 1 /\ i - 1 = w * q + r
  BY <1>1, Division
<1> HIDE DEF q, r
<1>3. q \in 0 .. h - 1
  <2> SUFFICES ASSUME q - h \in Nat PROVE FALSE
    BY <1>2
  <2>1. w * (q - h) >= 0
    OBVIOUS
  <2> QED
    BY <2>1, <1>1, <1>2
<1>4. <<q, r>> \in (0 .. h - 1) \X (0 .. w - 1) /\ i = q * w + r + 1
  BY <1>2, <1>3
<1>5. ASSUME NEW c \in (0 .. h - 1) \X (0 .. w - 1), i = c[1] * w + c[2] + 1
      PROVE  c = <<q, r>>
  <2>1. c[1] \in Nat /\ c[2] \in 0 .. w - 1 /\ c = <<c[1], c[2]>>
    OBVIOUS
  <2>2. i - 1 = w * c[1] + c[2]
    BY <1>5, <2>1
  <2>3. (i - 1) \div w = c[1] /\ (i - 1) % w = c[2]
    <3> DEFINE a == i - 1  x == c[1]  y == c[2]
    <3>1. a = w * x + y /\ x \in Nat /\ y \in 0 .. w - 1
      BY <2>1, <2>2
    <3> HIDE DEF a, x, y
    <3>2. a \div w = x /\ a % w = y
      BY <3>1, DivisionIs
    <3> QED
      BY <3>2 DEF a, x, y
  <2> QED
    BY <2>1, <2>3 DEF q, r
<1>6. (CHOOSE c \in (0 .. h - 1) \X (0 .. w - 1) : i = c[1] * w + c[2] + 1) = <<q, r>>
  BY <1>4, <1>5
<1> QED
  BY <1>2, <1>3, <1>6 DEF q, r

\* An image takes a grid, as get_vision_position_ids numbers it, and what follows it comes
\* after its longer side.
LEMMA ImagePlaced ==
  ASSUME NEW ids, NEW pos, Reach(ids, pos), NEW g \in Images
  PROVE  LET new == ids \o VisionPositions(pos, g.grid)
         IN /\ Placed(ids, g) = new
            /\ Reach(new, pos + Max({g.grid[1], g.grid[2]}) \div MergeSize)
            /\ Len(new) = Len(ids) + Size(g)
<1> DEFINE h == g.grid[1] \div MergeSize
           w == g.grid[2] \div MergeSize
           cells == [i \in 1 .. h * w |-> <<pos, pos + (i - 1) \div w, pos + ((i - 1) % w)>>]
           new == ids \o cells
           m == Max({g.grid[1], g.grid[2]}) \div MergeSize
<1>1. h \in Nat \ {0} /\ w \in Nat \ {0} /\ IsImage(g)
  BY ImageFacts
<1>2. VisionPositions(pos, g.grid) = cells /\ Size(g) = h * w
  BY <1>1 DEF VisionPositions, Size
<1>3. m \in Nat /\ m >= h /\ m >= w /\ (m = h \/ m = w)
  <2> DEFINE a == g.grid[1]  b == g.grid[2]
  <2>1. a \in Nat /\ b \in Nat /\ MergeSize \in Nat \ {0}
    BY ImageFacts, HybridCacheAssumption
  <2>2. Max({a, b}) = CHOOSE x \in {a, b} : \A y \in {a, b} : x >= y
    BY DEF Max
  <2> HIDE DEF a, b
  <2>3. Max({a, b}) = IF a <= b THEN b ELSE a
    BY <2>1, <2>2
  <2>4. CASE a <= b
    <3>1. a \div MergeSize <= b \div MergeSize
      BY <2>1, <2>4, DivisionMonotone
    <3> QED
      BY <2>3, <2>4, <3>1, <1>1 DEF a, b
  <2>5. CASE ~(a <= b)
    <3>1. b \div MergeSize <= a \div MergeSize
      BY <2>1, <2>5, DivisionMonotone
    <3> QED
      BY <2>3, <2>5, <3>1, <1>1 DEF a, b
  <2> QED
    BY <2>4, <2>5
<1>4. Placed(ids, g) = ids \o cells
  <2>1. After(ids) = pos
    BY AfterIs
  <2> DEFINE Cell(i) == CHOOSE c \in (0 .. h - 1) \X (0 .. w - 1) : i = c[1] * w + c[2] + 1
  <2>2. Placed(ids, g) = ids \o [i \in 1 .. h * w |-> <<pos, pos + Cell(i)[1], pos + Cell(i)[2]>>]
    BY <1>1, <2>1 DEF Placed
  <2> HIDE DEF h, w
  <2>3. ASSUME NEW i \in 1 .. h * w PROVE Cell(i) = <<(i - 1) \div w, (i - 1) % w>>
    BY <1>1, CellIs
  <2> HIDE DEF Cell
  <2>4. [i \in 1 .. h * w |-> <<pos, pos + Cell(i)[1], pos + Cell(i)[2]>>] = cells
    BY <2>3
  <2> QED
    BY <2>2, <2>4
<1> HIDE DEF h, w, m
<1>5. pos \in Nat /\ ids \in Seq(Pos)
  BY DEF Reach
<1>6. ASSUME NEW i \in 1 .. h * w
      PROVE  /\ cells[i] \in Pos /\ cells[i][1] = pos
             /\ cells[i][2] = pos + (i - 1) \div w /\ (i - 1) \div w \in 0 .. h - 1
             /\ cells[i][3] = pos + ((i - 1) % w) /\ (i - 1) % w \in 0 .. w - 1
  <2>1. (i - 1) \div w \in 0 .. h - 1 /\ (i - 1) % w \in 0 .. w - 1
    BY <1>1, CellIs
  <2>2. cells[i] = <<pos, pos + (i - 1) \div w, pos + ((i - 1) % w)>>
    OBVIOUS
  <2> HIDE DEF cells
  <2> QED
    BY <2>1, <2>2, <1>1, <1>5 DEF Pos
<1>7. h * w \in Nat /\ h * w >= 1 /\ h * w = (h - 1) * w + (w - 1) + 1
  <2>1. h * w \in Nat /\ (h - 1) * w \in Nat
    BY <1>1
  <2>2. h * w = (h - 1) * w + w
    BY <1>1
  <2> QED
    BY <1>1, <2>1, <2>2
<1>8. cells \in Seq(Pos) /\ Len(cells) = h * w /\ DOMAIN cells = 1 .. h * w
  BY <1>6, <1>7
<1> DEFINE last == h * w
<1>9. (last - 1) \div w = h - 1 /\ (last - 1) % w = w - 1
  <2> DEFINE a == last - 1  x == h - 1  y == w - 1
  <2>1. a = w * x + y /\ x \in Nat /\ y \in 0 .. w - 1
    BY <1>1, <1>7
  <2> HIDE DEF a, x, y
  <2>2. a \div w = x /\ a % w = y
    BY <1>1, <2>1, DivisionIs
  <2> QED
    BY <2>2 DEF a, x, y
<1>10. /\ last \in 1 .. h * w
       /\ cells[last][2] = pos + h - 1 /\ cells[last][3] = pos + w - 1
  <2>1. last \in 1 .. h * w
    BY <1>7
  <2> HIDE DEF cells, last
  <2> QED
    BY <1>1, <1>5, <2>1, <1>6, <1>9
<1> HIDE DEF cells, last
<1>11. /\ new \in Seq(Pos) /\ Len(new) = Len(ids) + h * w
       /\ \A i \in 1 .. Len(ids) : new[i] = ids[i]
       /\ \A i \in 1 .. h * w : new[Len(ids) + i] = cells[i]
  <2>1. Len(ids) \in Nat
    BY <1>5
  <2>2. new \in Seq(Pos) /\ Len(new) = Len(ids) + Len(cells)
        /\ \A i \in 1 .. Len(ids) + Len(cells) : new[i] = IF i <= Len(ids) THEN ids[i] ELSE cells[i - Len(ids)]
    BY <1>5, <1>8, ConcatProperties
  <2>3. \A i \in 1 .. h * w : Len(ids) + i \in 1 .. Len(ids) + Len(cells) /\ ~(Len(ids) + i <= Len(ids)) /\ (Len(ids) + i) - Len(ids) = i
    BY <1>7, <1>8, <2>1
  <2> QED
    BY <2>1, <2>2, <2>3, <1>7, <1>8
<1> HIDE DEF new
<1>12. Len(ids) \in Nat /\ (ids = << >> <=> Len(ids) = 0) /\ new # << >>
  BY <1>5, <1>7, <1>11
<1>13. \A i \in 1 .. Len(new) : /\ new[i][1] \in 0 .. (pos + m) - 1 /\ new[i][2] \in 0 .. (pos + m) - 1
                               /\ new[i][3] \in 0 .. (pos + m) - 1
  <2> SUFFICES ASSUME NEW i \in 1 .. Len(new)
               PROVE  /\ new[i][1] \in 0 .. (pos + m) - 1 /\ new[i][2] \in 0 .. (pos + m) - 1
                      /\ new[i][3] \in 0 .. (pos + m) - 1
    OBVIOUS
  <2>1. CASE i \in 1 .. Len(ids)
    BY <2>1, <1>3, <1>5, <1>11 DEF Reach
  <2>2. CASE i \notin 1 .. Len(ids)
    <3>1. PICK j \in 1 .. h * w : i = Len(ids) + j
      <4>1. i - Len(ids) \in 1 .. h * w /\ i = Len(ids) + (i - Len(ids))
        BY <2>2, <1>7, <1>11, <1>12
      <4> QED
        BY <4>1
    <3>2. new[i] = cells[j]
      BY <3>1, <1>11
    <3>3. /\ cells[j][1] = pos /\ cells[j][2] \in pos .. pos + h - 1 /\ cells[j][3] \in pos .. pos + w - 1
      BY <1>1, <1>5, <1>6
    <3>4. new[i][1] = pos /\ new[i][2] \in pos .. pos + h - 1 /\ new[i][3] \in pos .. pos + w - 1
      BY <3>2, <3>3
    <3> DEFINE x == new[i][1]  y == new[i][2]  z == new[i][3]
    <3> HIDE DEF x, y, z
    <3> DEFINE top == (pos + m) - 1
    <3>5. x = pos /\ y \in pos .. pos + h - 1 /\ z \in pos .. pos + w - 1
      BY <3>4 DEF x, y, z
    <3>6. pos \in Nat /\ top \in Int /\ pos <= top /\ pos + h - 1 <= top /\ pos + w - 1 <= top
      BY <1>1, <1>3, <1>5
    <3> HIDE DEF top
    <3>7. x \in 0 .. top /\ y \in 0 .. top /\ z \in 0 .. top
      BY <1>1, <3>5, <3>6
    <3> QED
      BY <3>7 DEF x, y, z, top
  <2> QED
    BY <2>1, <2>2
<1>14. new[1][1] = 0
  <2>1. CASE Len(ids) = 0
    <3>1. 1 \in 1 .. h * w /\ Len(ids) + 1 = 1
      BY <2>1, <1>7
    <3>2. new[1] = cells[1] /\ cells[1][1] = pos
      BY <3>1, <1>6, <1>11
    <3> QED
      BY <3>2, <2>1, <1>12 DEF Reach
  <2>2. CASE Len(ids) # 0
    BY <2>2, <1>11, <1>12 DEF Reach
  <2> QED
    BY <2>1, <2>2
<1>15. \E i \in 1 .. Len(new) : new[i][1] = (pos + m) - 1 \/ new[i][2] = (pos + m) - 1 \/ new[i][3] = (pos + m) - 1
  <2>1. Len(ids) + last \in 1 .. Len(new) /\ new[Len(ids) + last] = cells[last]
    BY <1>7, <1>10, <1>11, <1>12
  <2>2. cells[last][2] = (pos + m) - 1 \/ cells[last][3] = (pos + m) - 1
    BY <1>1, <1>3, <1>5, <1>10
  <2> QED
    BY <2>1, <2>2
<1>16. Reach(new, pos + m)
  BY <1>3, <1>5, <1>11, <1>12, <1>13, <1>14, <1>15 DEF Reach
<1> QED
  BY <1>2, <1>4, <1>11, <1>16 DEF new, m

\* The positions of all beginnings of gs.
Placements(gs, ids) ==
  /\ ids \in [0 .. Len(gs) -> Seq(Pos)]
  /\ ids[0] = << >>
  /\ \A i \in 1 .. Len(gs) : ids[i] = Placed(ids[i-1], gs[i])
  /\ \A i \in 0 .. Len(gs) : \E pos \in Nat : Reach(ids[i], pos)

\* The tokens of all beginnings of gs.
Beginnings(gs, tokens) ==
  /\ tokens \in [0 .. Len(gs) -> Seq(Input)]
  /\ tokens[0] = << >>
  /\ \A i \in 1 .. Len(gs) : tokens[i] = tokens[i-1] \o [j \in 1 .. Size(gs[i]) |-> gs[i].embed]

\* Positions with the one that comes after them.
Reached == {a \in [ids : Seq(Pos), pos : Nat] : Reach(a.ids, a.pos)}

\* A sequence with its next position is one of Reached.
LEMMA ReachedIs ==
  ASSUME NEW ids, NEW pos, Reach(ids, pos)
  PROVE  [ids |-> ids, pos |-> pos] \in Reached
<1> DEFINE a == [ids |-> ids, pos |-> pos]
<1>1. ids \in Seq(Pos) /\ pos \in Nat
  BY DEF Reach
<1>2. a \in [ids : Seq(Pos), pos : Nat] /\ a.ids = ids /\ a.pos = pos
  BY <1>1
<1> HIDE DEF a
<1>3. a \in Reached
  BY <1>2 DEF Reached
<1> QED
  BY <1>3 DEF a

\* One group of get_rope_index places it as the reference does.
LEMMA PositionStepPlaces ==
  ASSUME NEW a \in Reached, NEW g \in Group
  PROVE  PositionStep(a, g) \in Reached /\ PositionStep(a, g).ids = Placed(a.ids, g)
<1>1. Reach(a.ids, a.pos) /\ a.pos \in Nat
  BY DEF Reached
<1>2. CASE g \in Texts
  <2>1. PositionStep(a, g) = [ids |-> Append(a.ids, <<a.pos, a.pos, a.pos>>), pos |-> a.pos + 1]
    BY <1>2, TextFacts DEF PositionStep
  <2>2. /\ Placed(a.ids, g) = Append(a.ids, <<a.pos, a.pos, a.pos>>)
        /\ Reach(Append(a.ids, <<a.pos, a.pos, a.pos>>), a.pos + 1)
    BY <1>1, <1>2, TextPlaced
  <2>3. PositionStep(a, g) \in Reached
    BY <2>1, <2>2, ReachedIs
  <2> QED
    BY <2>1, <2>2, <2>3
<1>3. CASE g \in Images
  <2> DEFINE new == a.ids \o VisionPositions(a.pos, g.grid)
             pos == a.pos + Max({g.grid[1], g.grid[2]}) \div MergeSize
  <2>1. PositionStep(a, g) = [ids |-> new, pos |-> pos]
    BY <1>3, ImageFacts DEF PositionStep
  <2>2. Placed(a.ids, g) = new /\ Reach(new, pos)
    BY <1>1, <1>3, ImagePlaced
  <2> HIDE DEF new, pos
  <2> QED
    BY <2>1, <2>2, ReachedIs
<1> QED
  BY <1>2, <1>3 DEF Group

\* So do all groups: the loop of get_rope_index gives the positions of one run.
LEMMA PositionsOf ==
  ASSUME NEW gs \in Seq(Group)
  PROVE  \E ids : Placements(gs, ids) /\ OneRunPositions(gs) = ids[Len(gs)] /\ Positions(gs) = ids[Len(gs)]
<1> DEFINE n == Len(gs)
           base == [ids |-> << >>, pos |-> 0]
           step == [i \in 1 .. n |-> [a \in Reached |-> PositionStep(a, gs[i])]]
           Acc(f) == f = [g \in 0 .. n |-> IF g = 0 THEN base ELSE PositionStep(f[g-1], gs[g])]
           Ids(f) == f = [g \in 0 .. n |-> IF g = 0 THEN << >> ELSE Placed(f[g-1], gs[g])]
<1>1. n \in Nat /\ \A i \in 1 .. n : gs[i] \in Group
  OBVIOUS
<1>2. base \in Reached
  <2>1. Reach(<< >>, 0)
    BY DEF Reach
  <2> QED
    BY <2>1, ReachedIs
<1>3. step \in [1 .. n -> [Reached -> Reached]]
  BY <1>1, PositionStepPlaces
<1>4. PICK acc \in [0 .. n -> Reached] : acc[0] = base /\ \A i \in 1 .. n : acc[i] = step[i][acc[i-1]]
  <2> HIDE DEF step, base, n
  <2>1. Steps(step, n, Reached)
    BY <1>3 DEF Steps
  <2>2. PICK g : Iterates(g, n, Reached, base, step)
    BY <1>1, <1>2, <2>1, Primitive
  <2> QED
    BY <2>2 DEF Iterates
<1>5. ASSUME NEW i \in 1 .. n
      PROVE  acc[i-1] \in Reached /\ acc[i] = PositionStep(acc[i-1], gs[i]) /\ acc[i].ids = Placed(acc[i-1].ids, gs[i])
  <2>0. i - 1 \in 0 .. n /\ step[i] = [a \in Reached |-> PositionStep(a, gs[i])]
    BY <1>1
  <2>1. acc[i-1] \in Reached /\ acc[i] = PositionStep(acc[i-1], gs[i])
    <3> HIDE DEF step, n
    <3> QED
      BY <2>0, <1>4
  <2> QED
    BY <2>1, <1>1, PositionStepPlaces
<1> DEFINE ids == [i \in 0 .. n |-> acc[i].ids]
<1>6. Acc(acc)
  BY <1>1, <1>4, <1>5
<1>7. Ids(ids)
  <2>1. ids[0] = << >>
    BY <1>4
  <2>2. \A i \in 1 .. n : i - 1 \in 0 .. n /\ ids[i] = Placed(ids[i-1], gs[i])
    BY <1>5
  <2> HIDE DEF n
  <2> QED
    BY <2>1, <2>2, <1>1
<1>8. Positions(gs) = acc[n].ids
  <2>1. PICK f : Acc(f) /\ Positions(gs) = f[n].ids
    BY <1>6 DEF Positions
  <2>2. DOMAIN acc = 0 .. n /\ DOMAIN f = 0 .. n /\ acc[0] = f[0]
    BY <1>6, <2>1, <1>1
  <2>3. \A i \in 1 .. n : f[i] = PositionStep(f[i-1], gs[i])
    BY <2>1
  <2>4. \A i \in 1 .. n : acc[i-1] = f[i-1] => acc[i] = f[i]
    BY <1>5, <2>3
  <2> HIDE DEF n
  <2>5. \A i \in 0 .. n : acc[i] = f[i]
    BY <1>1, <2>2, <2>4, Unique
  <2> QED
    BY <2>1, <2>5, <1>1
<1>9. OneRunPositions(gs) = ids[n]
  <2>1. PICK f : Ids(f) /\ OneRunPositions(gs) = f[n]
    BY <1>7 DEF OneRunPositions
  <2>2. DOMAIN ids = 0 .. n /\ DOMAIN f = 0 .. n /\ ids[0] = f[0]
    <3>1. DOMAIN f = 0 .. n /\ f[0] = << >>
      BY <2>1, <1>1
    <3>2. ids[0] = << >>
      BY <1>4
    <3> QED
      BY <3>1, <3>2
  <2>3. \A i \in 1 .. n : f[i] = Placed(f[i-1], gs[i])
    BY <2>1
  <2>4. \A i \in 1 .. n : ids[i] = Placed(ids[i-1], gs[i])
    BY <1>5
  <2>5. \A i \in 1 .. n : ids[i-1] = f[i-1] => ids[i] = f[i]
    BY <2>3, <2>4
  <2> HIDE DEF n, ids
  <2>6. \A i \in 0 .. n : ids[i] = f[i]
    BY <1>1, <2>2, <2>5, Unique
  <2> QED
    BY <2>1, <2>6, <1>1
<1>10. Placements(gs, ids)
  <2>1. \A i \in 0 .. n : acc[i] \in Reached
    BY <1>4
  <2>2. \A i \in 0 .. n : ids[i] \in Seq(Pos) /\ \E pos \in Nat : Reach(ids[i], pos)
    BY <2>1 DEF Reached
  <2>3. ids[0] = << >> /\ \A i \in 1 .. n : ids[i] = Placed(ids[i-1], gs[i])
    BY <1>4, <1>5
  <2>4. ids \in [0 .. n -> Seq(Pos)]
    BY <2>2
  <2> HIDE DEF ids
  <2> QED
    BY <2>2, <2>3, <2>4 DEF Placements
<1>11. Positions(gs) = ids[n]
  BY <1>1, <1>8
<1> QED
  BY <1>9, <1>10, <1>11

\* The tokens of a conversation, beginning after beginning.
LEMMA TokensOf ==
  ASSUME NEW gs \in Seq(Group)
  PROVE  \E tokens : Beginnings(gs, tokens) /\ Tokens(gs) = tokens[Len(gs)]
<1> DEFINE n == Len(gs)
           S == Seq(Input)
           Embeds(g) == [j \in 1 .. Size(g) |-> g.embed]
           More(s, i) == s \o Embeds(gs[i])
           step == [i \in 1 .. n |-> [s \in S |-> More(s, i)]]
           Eq(f) == f = [g \in 0 .. n |-> IF g = 0 THEN << >> ELSE More(f[g-1], g)]
<1>1. n \in Nat /\ \A i \in 1 .. n : gs[i] \in Group
  OBVIOUS
<1>2. ASSUME NEW g \in Group PROVE Embeds(g) \in Seq(Input)
  <2>1. g.embed \in Input
    BY TextFacts, ImageFacts DEF Group
  <2>2. Size(g) \in Nat
    <3>1. CASE g \in Texts
      BY <3>1, TextFacts
    <3>2. CASE g \in Images
      BY <3>2, ImageFacts DEF Size
    <3> QED
      BY <3>1, <3>2 DEF Group
  <2> QED
    BY <2>1, <2>2
<1> HIDE DEF Embeds
<1>0. \A i \in 1 .. n, s \in S : More(s, i) \in S
  BY <1>1, <1>2
<1> HIDE DEF More
<1>3. step \in [1 .. n -> [S -> S]] /\ << >> \in S
  BY <1>0
<1>4. PICK f \in [0 .. n -> S] : f[0] = << >> /\ \A i \in 1 .. n : f[i] = step[i][f[i-1]]
  <2> HIDE DEF step, S, n
  <2>1. Steps(step, n, S)
    BY <1>3 DEF Steps
  <2>2. PICK g : Iterates(g, n, S, << >>, step)
    BY <1>1, <1>3, <2>1, Primitive
  <2> QED
    BY <2>2 DEF Iterates
<1>5. \A i \in 1 .. n : f[i] = More(f[i-1], i)
  <2>1. ASSUME NEW i \in 1 .. n PROVE f[i-1] \in S /\ step[i] = [s \in S |-> More(s, i)]
    BY <1>1, <1>4
  <2> QED
    BY <1>4, <2>1
<1>6. Eq(f)
  <2> HIDE DEF n, step
  <2> QED
    BY <1>1, <1>4, <1>5
<1>7. PICK t : Eq(t) /\ Tokens(gs) = t[n]
  BY <1>6 DEF Tokens, Embeds, More
<1>8. \A i \in 0 .. n : f[i] = t[i]
  <2>1. DOMAIN f = 0 .. n /\ DOMAIN t = 0 .. n /\ f[0] = t[0]
    BY <1>6, <1>7, <1>1
  <2>2. \A i \in 1 .. n : t[i] = More(t[i-1], i)
    <3> HIDE DEF n
    <3> QED
      BY <1>1, <1>7
  <2>3. \A i \in 1 .. n : f[i-1] = t[i-1] => f[i] = t[i]
    BY <1>5, <2>2
  <2>4. n \in Nat
    OBVIOUS
  <2> HIDE DEF n, Eq, S
  <2> QED
    BY <2>1, <2>3, <2>4, Unique
<1>9. Beginnings(gs, f)
  BY <1>4, <1>5 DEF Beginnings, Embeds, More
<1> QED
  BY <1>1, <1>7, <1>8, <1>9

\* What torch.arange gives.
LEMMA ArangeIs ==
  ASSUME NEW p \in Int, NEW n \in Nat
  PROVE  /\ Arange(p, n) \in Seq(Pos) /\ Len(Arange(p, n)) = n
         /\ \A i \in 1 .. n : Arange(p, n)[i] = <<p + i - 1, p + i - 1, p + i - 1>>
<1> DEFINE T(i) == <<p + i - 1, p + i - 1, p + i - 1>>
<1>1. \A i \in 1 .. n : T(i) \in Pos
  BY DEF Pos
<1>2. Arange(p, n) = [i \in 1 .. n |-> T(i)]
  BY DEF Arange
<1> HIDE DEF T
<1>3. Arange(p, n) \in [1 .. n -> Pos]
  BY <1>1, <1>2
<1>4. Arange(p, n) \in Seq(Pos) /\ Len(Arange(p, n)) = n
  BY <1>3
<1>5. \A i \in 1 .. n : Arange(p, n)[i] = T(i)
  BY <1>2
<1> QED
  BY <1>4, <1>5 DEF T

\* One position more.
LEMMA ArangeMore ==
  ASSUME NEW ids \in Seq(Pos), NEW p \in Int, NEW k \in Nat
  PROVE  Append(ids \o Arange(p, k), <<p + k, p + k, p + k>>) = ids \o Arange(p, k + 1)
<1> DEFINE a == Arange(p, k)  b == Arange(p, k + 1)  t == <<p + k, p + k, p + k>>
<1>1. t \in Pos /\ k + 1 \in Nat /\ p + (k + 1) - 1 = p + k
  BY DEF Pos
<1>2. a \in Seq(Pos) /\ Len(a) = k /\ \A i \in 1 .. k : a[i] = <<p + i - 1, p + i - 1, p + i - 1>>
  BY ArangeIs
<1>3. b \in Seq(Pos) /\ Len(b) = k + 1 /\ \A i \in 1 .. k + 1 : b[i] = <<p + i - 1, p + i - 1, p + i - 1>>
  BY <1>1, ArangeIs
<1>4. b[k + 1] = t
  BY <1>1, <1>3
<1> HIDE DEF a, b, t
<1> DEFINE x == ids \o a  y == ids \o b  z == Append(x, t)  n == Len(ids)
<1>5. n \in Nat
  OBVIOUS
<1>6. x \in Seq(Pos) /\ Len(x) = n + k /\ \A i \in 1 .. n + k : x[i] = IF i <= n THEN ids[i] ELSE a[i - n]
  BY <1>2, ConcatProperties
<1>7. y \in Seq(Pos) /\ Len(y) = n + k + 1 /\ \A i \in 1 .. n + k + 1 : y[i] = IF i <= n THEN ids[i] ELSE b[i - n]
  <2>1. y \in Seq(Pos) /\ Len(y) = n + (k + 1) /\ \A i \in 1 .. n + (k + 1) : y[i] = IF i <= n THEN ids[i] ELSE b[i - n]
    <3>1. y \in Seq(Pos) /\ Len(y) = Len(ids) + Len(b)
          /\ \A i \in 1 .. Len(ids) + Len(b) : y[i] = IF i <= Len(ids) THEN ids[i] ELSE b[i - Len(ids)]
      BY <1>3, ConcatProperties
    <3>2. Len(b) = k + 1
      BY <1>3
    <3> HIDE DEF y
    <3> QED
      BY <3>1, <3>2
  <2> QED
    BY <2>1, <1>5
<1> HIDE DEF x, y, n
<1>8. z \in Seq(Pos) /\ Len(z) = n + k + 1 /\ (\A i \in 1 .. n + k : z[i] = x[i]) /\ z[n + k + 1] = t
  <2>1. z \in Seq(Pos) /\ Len(z) = Len(x) + 1 /\ (\A i \in 1 .. Len(x) : z[i] = x[i]) /\ z[Len(x) + 1] = t
    BY <1>1, <1>6, AppendProperties
  <2> QED
    BY <2>1, <1>6
<1> HIDE DEF z
<1>9. ASSUME NEW i \in 1 .. n + k + 1 PROVE z[i] = y[i]
  <2>1. CASE i <= n
    BY <2>1, <1>5, <1>6, <1>7, <1>8
  <2>2. CASE i > n /\ i <= n + k
    <3>1. i - n \in 1 .. k /\ i - n \in 1 .. k + 1 /\ i \in 1 .. n + k /\ ~(i <= n)
      BY <2>2, <1>5
    <3>2. z[i] = a[i - n]
      BY <3>1, <1>6, <1>8
    <3>3. y[i] = b[i - n]
      BY <3>1, <1>7
    <3>4. b[i - n] = a[i - n]
      BY <3>1, <1>2, <1>3
    <3> QED
      BY <3>2, <3>3, <3>4
  <2>3. CASE i = n + k + 1
    <3>1. i - n = k + 1 /\ ~(i <= n)
      BY <2>3, <1>5
    <3> QED
      BY <3>1, <2>3, <1>4, <1>7, <1>8
  <2>4. i <= n \/ (i > n /\ i <= n + k) \/ i = n + k + 1
    BY <1>5
  <2> QED
    BY <2>1, <2>2, <2>3, <2>4
<1>10. z = y
  BY <1>7, <1>8, <1>9, SeqEqual
<1> QED
  BY <1>10 DEF z, x, y, a, b, t

\* No position.
LEMMA ArangeNone ==
  ASSUME NEW ids \in Seq(Pos), NEW p \in Int
  PROVE  ids \o Arange(p, 0) = ids
<1>1. Arange(p, 0) = << >>
  <2>1. Arange(p, 0) \in Seq(Pos) /\ Len(Arange(p, 0)) = 0
    BY ArangeIs
  <2> QED
    BY <2>1
<1> QED
  BY <1>1

\* A conversation that goes on with text takes the next positions, and as many as it has
\* tokens.
LEMMA PositionsGoOn ==
  ASSUME NEW gs \in Seq(Group), NEW es \in Seq(Texts), NEW pos \in Nat, Reach(OneRunPositions(gs), pos)
  PROVE  /\ OneRunPositions(gs \o es) = OneRunPositions(gs) \o Arange(pos, Len(es))
         /\ Reach(OneRunPositions(gs \o es), pos + Len(es))
<1> DEFINE all == gs \o es  n == Len(gs)  m == Len(es)  one == OneRunPositions(gs)
<1>0. pos \in Int
  OBVIOUS
<1>1. n \in Nat /\ m \in Nat
  OBVIOUS
<1>2. /\ all \in Seq(Group) /\ Len(all) = n + m
      /\ \A i \in 1 .. n : all[i] = gs[i]
      /\ \A i \in 1 .. m : all[n + i] = es[i] /\ es[i] \in Texts
  BY DEF Group
<1>3. PICK b : Placements(gs, b) /\ one = b[n]
  BY PositionsOf
<1> HIDE DEF all, one
<1>4. PICK a : Placements(all, a) /\ OneRunPositions(all) = a[n + m]
  BY <1>2, PositionsOf
<1> HIDE DEF n, m
<1>5. \A i \in 0 .. n : \E q \in Nat : a[i] = b[i]
  <2> DEFINE P == {i \in Nat : i <= n => a[i] = b[i]}
  <2>1. 0 \in P
    BY <1>3, <1>4 DEF Placements
  <2>2. ASSUME NEW i \in Nat, i \in P PROVE i + 1 \in P
    <3>1. SUFFICES ASSUME i + 1 <= n PROVE a[i + 1] = b[i + 1]
      OBVIOUS
    <3>2. i + 1 \in 1 .. n /\ i + 1 \in 1 .. n + m /\ (i + 1) - 1 = i
      BY <3>1, <1>1
    <3>3. b[i + 1] = Placed(b[i], gs[i + 1])
      BY <3>2, <1>3 DEF Placements, n
    <3>4. a[i + 1] = Placed(a[i], all[i + 1])
      BY <3>2, <1>2, <1>4 DEF Placements
    <3>5. a[i] = b[i] /\ all[i + 1] = gs[i + 1]
      <4>1. i <= n
        BY <3>1, <1>1
      <4>2. a[i] = b[i]
        BY <2>2, <4>1
      <4>3. all[i + 1] = gs[i + 1]
        BY <3>2, <1>2 DEF n
      <4> QED
        BY <4>2, <4>3
    <3> HIDE DEF P
    <3> QED
      BY <3>3, <3>4, <3>5
  <2> HIDE DEF P
  <2>3. \A i \in Nat : i \in P
    BY <2>1, <2>2, Induction
  <2> QED
    BY <2>3, <1>1 DEF P
<1>6. one \in Seq(Pos) /\ Reach(one, pos) /\ a[n] = one
  BY <1>1, <1>3, <1>5 DEF Reach, one
<1> DEFINE Now(k) == a[n + k] = one \o Arange(pos, k) /\ Reach(a[n + k], pos + k)
           P == {k \in Nat : k <= m => Now(k)}
<1>7. 0 \in P
  <2>1. one \o Arange(pos, 0) = one
    BY <1>6, <1>0, ArangeNone
  <2>2. n + 0 = n /\ pos + 0 = pos
    BY <1>1
  <2> QED
    BY <2>1, <2>2, <1>6
<1>8. ASSUME NEW k \in Nat, k \in P PROVE k + 1 \in P
  <2>1. SUFFICES ASSUME k + 1 <= m PROVE Now(k + 1)
    OBVIOUS
  <2>2. k \in 0 .. m /\ k + 1 \in 1 .. m /\ n + (k + 1) \in 1 .. Len(all) /\ (n + (k + 1)) - 1 = n + k
    BY <2>1, <1>1, <1>2
  <2>3. a[n + (k + 1)] = Placed(a[n + k], es[k + 1]) /\ es[k + 1] \in Texts
    BY <2>2, <1>2, <1>4 DEF Placements
  <2>4. a[n + k] = one \o Arange(pos, k) /\ Reach(a[n + k], pos + k)
    BY <1>8, <2>2
  <2> DEFINE t == <<pos + k, pos + k, pos + k>>
  <2>5. a[n + (k + 1)] = Append(a[n + k], t) /\ Reach(Append(a[n + k], t), (pos + k) + 1)
    BY <2>3, <2>4, TextPlaced
  <2>6. Append(one \o Arange(pos, k), t) = one \o Arange(pos, k + 1)
    BY <1>0, <1>6, ArangeMore
  <2>7. (pos + k) + 1 = pos + (k + 1)
    OBVIOUS
  <2> HIDE DEF t
  <2> QED
    BY <2>4, <2>5, <2>6, <2>7
<1> HIDE DEF P
<1>9. m \in P
  BY <1>1, <1>7, <1>8, Induction
<1>10. Now(m)
  BY <1>1, <1>9 DEF P
<1> QED
  BY <1>4, <1>10 DEF all, one, n, m

\* Every conversation has a next position, and get_rope_index gives its positions.
LEMMA PositionsReach ==
  ASSUME NEW gs \in Seq(Group)
  PROVE  /\ \E pos \in Nat : Reach(OneRunPositions(gs), pos)
         /\ Positions(gs) = OneRunPositions(gs)
         /\ gs = << >> => OneRunPositions(gs) = << >>
<1>1. PICK ids : Placements(gs, ids) /\ OneRunPositions(gs) = ids[Len(gs)] /\ Positions(gs) = ids[Len(gs)]
  BY PositionsOf
<1> QED
  BY <1>1 DEF Placements

\* A position for every token, and at least one.
LEMMA PositionsAndTokens ==
  ASSUME NEW gs \in Seq(Group)
  PROVE  /\ Tokens(gs) \in Seq(Input)
         /\ Len(OneRunPositions(gs)) = Len(Tokens(gs))
         /\ Len(Tokens(gs)) >= Len(gs)
<1>1. PICK ids : Placements(gs, ids) /\ OneRunPositions(gs) = ids[Len(gs)]
  BY PositionsOf
<1>2. PICK tokens : Beginnings(gs, tokens) /\ Tokens(gs) = tokens[Len(gs)]
  BY TokensOf
<1> DEFINE P == {i \in Nat : i <= Len(gs) => Len(ids[i]) = Len(tokens[i]) /\ Len(tokens[i]) >= i}
<1>3. 0 \in P
  BY <1>1, <1>2 DEF Placements, Beginnings
<1>4. ASSUME NEW i \in Nat, i \in P PROVE i + 1 \in P
  <2>1. SUFFICES ASSUME i + 1 <= Len(gs)
                 PROVE  Len(ids[i + 1]) = Len(tokens[i + 1]) /\ Len(tokens[i + 1]) >= i + 1
    OBVIOUS
  <2>2. i \in 0 .. Len(gs) /\ i + 1 \in 1 .. Len(gs) /\ (i + 1) - 1 = i /\ gs[i + 1] \in Group
    BY <2>1
  <2> DEFINE g == gs[i + 1]  es == [j \in 1 .. Size(g) |-> g.embed]
  <2>3. ids[i + 1] = Placed(ids[i], g) /\ tokens[i + 1] = tokens[i] \o es
    BY <2>2, <1>1, <1>2 DEF Placements, Beginnings
  <2>4. PICK pos \in Nat : Reach(ids[i], pos)
    BY <2>2, <1>1 DEF Placements
  <2>5. ids[i] \in Seq(Pos) /\ tokens[i] \in Seq(Input)
    BY <2>2, <1>1, <1>2 DEF Placements, Beginnings
  <2>0. g \in Texts \/ g \in Images
    BY <2>2 DEF Group
  <2>6. g.embed \in Input /\ Size(g) \in Nat \ {0} /\ Len(Placed(ids[i], g)) = Len(ids[i]) + Size(g)
    <3>1. CASE g \in Texts
      <4>1. Size(g) = 1 /\ g.embed \in Input
        BY <3>1, TextFacts
      <4>2. Placed(ids[i], g) = Append(ids[i], <<pos, pos, pos>>) /\ <<pos, pos, pos>> \in Pos
        BY <3>1, <2>4, TextPlaced DEF Pos
      <4>3. Len(Placed(ids[i], g)) = Len(ids[i]) + 1
        BY <2>5, <4>2, AppendProperties
      <4> QED
        BY <4>1, <4>3
    <3>2. CASE g \in Images
      <4>1. Len(Placed(ids[i], g)) = Len(ids[i]) + Size(g)
        BY <3>2, <2>4, ImagePlaced
      <4>2. Size(g) = (g.grid[1] \div MergeSize) * (g.grid[2] \div MergeSize)
        BY <3>2, ImageFacts DEF Size
      <4> DEFINE h == g.grid[1] \div MergeSize  w == g.grid[2] \div MergeSize
      <4>3. h \in Nat \ {0} /\ w \in Nat \ {0} /\ g.embed \in Input
        BY <3>2, ImageFacts
      <4> HIDE DEF h, w
      <4>4. h * w \in Nat \ {0}
        BY <4>3
      <4>5. Size(g) \in Nat \ {0}
        BY <4>2, <4>4 DEF h, w
      <4> QED
        BY <4>1, <4>3, <4>5
    <3> QED
      BY <3>1, <3>2, <2>0
  <2> HIDE DEF g
  <2>7. es \in Seq(Input) /\ Len(es) = Size(g)
    BY <2>6
  <2>8. Len(tokens[i] \o es) = Len(tokens[i]) + Size(g)
    <3> HIDE DEF es
    <3> QED
      BY <2>5, <2>7, ConcatProperties
  <2>9. Len(ids[i]) = Len(tokens[i]) /\ Len(tokens[i]) >= i /\ Len(tokens[i]) \in Nat
    BY <1>4, <2>2, <2>5
  <2> QED
    BY <2>3, <2>6, <2>8, <2>9
<1> HIDE DEF P
<1>5. Len(gs) \in P
  BY <1>3, <1>4, Induction
<1>6. Tokens(gs) \in Seq(Input)
  BY <1>2 DEF Beginnings
<1> QED
  BY <1>1, <1>2, <1>5, <1>6 DEF P

\* What a shift of all positions gives.
LEMMA ShiftedIs ==
  ASSUME NEW ids \in Seq(Pos), NEW d \in Int
  PROVE  /\ Shifted(ids, d) \in Seq(Pos) /\ Len(Shifted(ids, d)) = Len(ids)
         /\ \A i \in 1 .. Len(ids) : Shifted(ids, d)[i] = <<ids[i][1] + d, ids[i][2] + d, ids[i][3] + d>>
<1> DEFINE T(i) == <<ids[i][1] + d, ids[i][2] + d, ids[i][3] + d>>
           n == Len(ids)
<1>1. n \in Nat /\ DOMAIN ids = 1 .. n
  OBVIOUS
<1>2. \A i \in 1 .. n : T(i) \in Pos
  <2>1. \A i \in 1 .. n : ids[i] \in Pos
    OBVIOUS
  <2> QED
    BY <2>1 DEF Pos
<1>3. Shifted(ids, d) = [i \in 1 .. n |-> T(i)]
  BY <1>1 DEF Shifted
<1> HIDE DEF T
<1>4. Shifted(ids, d) \in [1 .. n -> Pos]
  BY <1>2, <1>3
<1>5. Shifted(ids, d) \in Seq(Pos) /\ Len(Shifted(ids, d)) = n
  BY <1>1, <1>4
<1>6. \A i \in 1 .. n : Shifted(ids, d)[i] = T(i)
  BY <1>3
<1> QED
  BY <1>5, <1>6 DEF T

\* A shift by 0 changes nothing.
LEMMA ShiftedNot ==
  ASSUME NEW ids \in Seq(Pos)
  PROVE  Shifted(ids, 0) = ids
<1> DEFINE s == Shifted(ids, 0)
<1>1. s \in Seq(Pos) /\ Len(s) = Len(ids)
      /\ \A i \in 1 .. Len(ids) : s[i] = <<ids[i][1] + 0, ids[i][2] + 0, ids[i][3] + 0>>
  BY ShiftedIs
<1>2. ASSUME NEW i \in 1 .. Len(ids) PROVE s[i] = ids[i]
  <2>1. ids[i] \in Int \X Int \X Int
    BY DEF Pos
  <2>2. ids[i] = <<ids[i][1] + 0, ids[i][2] + 0, ids[i][3] + 0>>
    BY <2>1
  <2> QED
    BY <1>1, <2>2
<1> HIDE DEF s
<1>3. s = ids
  BY <1>1, <1>2, SeqEqual
<1> QED
  BY <1>3 DEF s

\* A shift of consecutive positions.
LEMMA ShiftedArange ==
  ASSUME NEW p \in Int, NEW k \in Nat, NEW d \in Int
  PROVE  Shifted(Arange(p, k), d) = Arange(p + d, k)
<1> DEFINE a == Arange(p, k)  s == Shifted(a, d)  b == Arange(p + d, k)
<1>1. a \in Seq(Pos) /\ Len(a) = k /\ \A i \in 1 .. k : a[i] = <<p + i - 1, p + i - 1, p + i - 1>>
  BY ArangeIs
<1>2. p + d \in Int
  OBVIOUS
<1>3. b \in Seq(Pos) /\ Len(b) = k /\ \A i \in 1 .. k : b[i] = <<(p + d) + i - 1, (p + d) + i - 1, (p + d) + i - 1>>
  BY <1>2, ArangeIs
<1> HIDE DEF a, b
<1>4. s \in Seq(Pos) /\ Len(s) = k /\ \A i \in 1 .. k : s[i] = <<a[i][1] + d, a[i][2] + d, a[i][3] + d>>
  BY <1>1, ShiftedIs
<1> HIDE DEF s
<1>5. ASSUME NEW i \in 1 .. k PROVE s[i] = b[i]
  <2>1. s[i] = <<(p + i - 1) + d, (p + i - 1) + d, (p + i - 1) + d>>
    BY <1>1, <1>4
  <2>2. (p + i - 1) + d = (p + d) + i - 1
    OBVIOUS
  <2> QED
    BY <1>3, <2>1, <2>2
<1>6. s = b
  BY <1>3, <1>4, <1>5, SeqEqual
<1> QED
  BY <1>6 DEF s, a, b

\* A shift of positions that follow others.
LEMMA ShiftedConcat ==
  ASSUME NEW ids \in Seq(Pos), NEW a \in Seq(Pos), NEW d \in Int
  PROVE  Shifted(ids \o a, d) = Shifted(ids, d) \o Shifted(a, d)
<1> DEFINE n == Len(ids)  k == Len(a)  x == ids \o a  s == Shifted(x, d)
           u == Shifted(ids, d)  v == Shifted(a, d)  y == u \o v
<1>1. n \in Nat /\ k \in Nat
  OBVIOUS
<1>2. x \in Seq(Pos) /\ Len(x) = n + k /\ \A i \in 1 .. n + k : x[i] = IF i <= n THEN ids[i] ELSE a[i - n]
  BY ConcatProperties
<1>3. u \in Seq(Pos) /\ Len(u) = n /\ \A i \in 1 .. n : u[i] = <<ids[i][1] + d, ids[i][2] + d, ids[i][3] + d>>
  BY ShiftedIs
<1>4. v \in Seq(Pos) /\ Len(v) = k /\ \A i \in 1 .. k : v[i] = <<a[i][1] + d, a[i][2] + d, a[i][3] + d>>
  BY ShiftedIs
<1> HIDE DEF x, u, v
<1>5. s \in Seq(Pos) /\ Len(s) = n + k /\ \A i \in 1 .. n + k : s[i] = <<x[i][1] + d, x[i][2] + d, x[i][3] + d>>
  <2>1. s \in Seq(Pos) /\ Len(s) = Len(x) /\ \A i \in 1 .. Len(x) : s[i] = <<x[i][1] + d, x[i][2] + d, x[i][3] + d>>
    BY <1>2, ShiftedIs
  <2> HIDE DEF s
  <2> QED
    BY <2>1, <1>2
<1>6. y \in Seq(Pos) /\ Len(y) = n + k /\ \A i \in 1 .. n + k : y[i] = IF i <= n THEN u[i] ELSE v[i - n]
  <2>1. y \in Seq(Pos) /\ Len(y) = Len(u) + Len(v)
        /\ \A i \in 1 .. Len(u) + Len(v) : y[i] = IF i <= Len(u) THEN u[i] ELSE v[i - Len(u)]
    <3>1. u \in Seq(Pos) /\ v \in Seq(Pos)
      BY <1>3, <1>4
    <3> QED
      BY <3>1, ConcatProperties
  <2> HIDE DEF y, n, k
  <2> QED
    BY <2>1, <1>3, <1>4
<1> HIDE DEF s, y, n, k
<1>7. ASSUME NEW i \in 1 .. n + k PROVE s[i] = y[i]
  <2>1. CASE i <= n
    <3>1. i \in 1 .. n
      BY <2>1, <1>1
    <3>2. x[i] = ids[i] /\ y[i] = u[i]
      BY <2>1, <1>2, <1>6
    <3>3. u[i] = <<ids[i][1] + d, ids[i][2] + d, ids[i][3] + d>>
      BY <3>1, <1>3
    <3> QED
      BY <3>2, <3>3, <1>5
  <2>2. CASE ~(i <= n)
    <3>1. i - n \in 1 .. k
      BY <2>2, <1>1
    <3>2. x[i] = a[i - n] /\ y[i] = v[i - n]
      BY <2>2, <1>2, <1>6
    <3>3. v[i - n] = <<a[i - n][1] + d, a[i - n][2] + d, a[i - n][3] + d>>
      BY <3>1, <1>4
    <3> QED
      BY <3>2, <3>3, <1>5
  <2> QED
    BY <2>1, <2>2
<1>8. s = y
  BY <1>5, <1>6, <1>7, SeqEqual
<1> QED
  BY <1>8 DEF s, y, x, u, v

-----------------------------------------------------------------------------
(* The positions of a conversation.                                          *)

\* The keys in the cache have the positions of one run but for a shift, and the next text
\* token comes after all of them: rope_deltas is the difference, less the shift, between
\* that position and the number of tokens.
PosInv ==
  LET one == OneRunPositions(groups)
      shift == keyCache[1][1]
  IN /\ groups \in Seq(Group) /\ ropeDeltas \in Int \cup {None}
     /\ groups # << >> =>
          /\ shift \in Int /\ keyCache = Shifted(one, shift)
          /\ ropeDeltas = None => shift = 0 /\ Reach(one, Len(one))
          /\ ropeDeltas # None => Reach(one, Len(one) + ropeDeltas - shift)

\* A conversation of text alone has the positions 0, 1, 2, and so on.
LEMMA TextOnly ==
  ASSUME NEW es \in Seq(Texts)
  PROVE  /\ es \in Seq(Group)
         /\ OneRunPositions(es) = Arange(0, Len(es)) /\ Reach(OneRunPositions(es), Len(es))
         /\ Len(Tokens(es)) = Len(es)
<1> DEFINE none == << >>  one == OneRunPositions(none)  n == Len(es)
<1>1. es \in Seq(Group) /\ none \in Seq(Group) /\ none \o es = es /\ n \in Nat
  BY DEF Group
<1>2. one = << >>
  BY <1>1, PositionsReach
<1> HIDE DEF none, one
<1>3. Reach(one, 0)
  BY <1>2 DEF Reach
<1>4. OneRunPositions(none \o es) = OneRunPositions(none) \o Arange(0, Len(es)) /\ Reach(OneRunPositions(none \o es), 0 + Len(es))
  BY <1>1, <1>3, PositionsGoOn DEF one
<1>5. Arange(0, n) \in Seq(Pos) /\ Len(Arange(0, n)) = n
  BY <1>1, ArangeIs
<1>6. << >> \o Arange(0, n) = Arange(0, n)
  BY <1>5, ConcatEmptySeq
<1>7. OneRunPositions(es) = Arange(0, n)
  BY <1>1, <1>2, <1>4, <1>6 DEF one
<1>8. Reach(OneRunPositions(es), n)
  <2>1. 0 + n = n
    BY <1>1
  <2> QED
    BY <2>1, <1>1, <1>4
<1>9. Len(Tokens(es)) = n
  BY <1>1, <1>5, <1>7, PositionsAndTokens
<1> QED
  BY <1>1, <1>7, <1>8, <1>9

\* PosInv holds throughout: whatever conversations, answers and later turns follow each
\* other, rope_deltas is what the next text token needs to come after all positions.
THEOREM PositionsInv == Spec => []PosInv
<1>1. Init => PosInv
  BY DEF Init, PosInv
<1>2. PosInv /\ [Next]_vars => PosInv'
  <2> SUFFICES ASSUME PosInv, [Next]_vars PROVE PosInv'
    OBVIOUS
  <2>1. ASSUME Begin PROVE PosInv'
    <3>1. PICK p \in Prompts : groups' = p /\ keyCache' = FirstPositions(p).ids /\ ropeDeltas' = FirstPositions(p).delta
      BY <2>1 DEF Begin
    <3> DEFINE one == OneRunPositions(p)  first == FirstPositions(p)  n == Len(Tokens(p))
    <3>2. p \in Seq(Group) /\ p # << >> /\ Len(p) \in Nat \ {0} /\ ropeDeltas \in Int \cup {None}
      BY HybridCacheAssumption DEF Group, PosInv
    <3>3. one \in Seq(Pos) /\ Len(one) = n /\ n \in Nat \ {0} /\ Positions(p) = one
      <4>1. PICK pos \in Nat : Reach(one, pos)
        BY <3>2, PositionsReach
      <4>2. Len(one) = n /\ n >= Len(p) /\ Positions(p) = one
        BY <3>2, PositionsAndTokens, PositionsReach
      <4>3. one \in Seq(Pos)
        BY <4>1 DEF Reach
      <4>4. Len(one) \in Nat
        BY <4>3
      <4> HIDE DEF one, n
      <4> QED
        BY <3>2, <4>2, <4>3, <4>4
    <3>4. CASE HasImage(p)
      <4>1. PICK pos \in Nat : Reach(one, pos)
        BY <3>2, PositionsReach
      <4> HIDE DEF one, n
      <4>2. one # << >>
        BY <3>3
      <4>3. MaxPosition(one) = pos - 1
        BY <4>1, <4>2, AfterIs
      <4>4. first = [ids |-> one, delta |-> pos - n]
        <5>1. first = get_rope_index(p)
          BY <3>4 DEF FirstPositions
        <5>2. get_rope_index(p) = [ids |-> one, delta |-> MaxPosition(one) + 1 - Len(one)]
          BY <3>3 DEF get_rope_index
        <5>3. MaxPosition(one) + 1 - Len(one) = pos - n
          BY <3>3, <4>3
        <5> QED
          BY <5>1, <5>2, <5>3
      <4>5. keyCache' = one /\ ropeDeltas' = pos - n
        BY <3>1, <4>4
      <4>6. one[1][1] = 0 /\ Shifted(one, 0) = one
        BY <3>3, <4>1, <4>2, ShiftedNot DEF Reach
      <4>7. pos - n \in Int /\ pos - n # None /\ Len(one) + (pos - n) - 0 = pos
        BY <3>3, HybridCacheAssumption
      <4> QED
        BY <3>1, <3>2, <4>1, <4>5, <4>6, <4>7 DEF PosInv, one
    <3>5. CASE ~HasImage(p)
      <4>1. p \in Seq(Texts)
        <5>1. ASSUME NEW i \in 1 .. Len(p) PROVE p[i] \in Texts
          <6>1. p[i] \in Group /\ ~IsImage(p[i])
            BY <3>2, <3>5 DEF HasImage
          <6> QED
            BY <6>1, ImageFacts DEF Group
        <5> QED
          BY <3>2, <5>1
      <4>2. one = Arange(0, n) /\ Reach(one, n)
        <5>1. one = Arange(0, Len(p)) /\ Reach(one, Len(p)) /\ n = Len(p)
          BY <4>1, TextOnly
        <5> QED
          BY <5>1
      <4> HIDE DEF one, n
      <4>3. one[1][1] = 0 /\ one # << >>
        BY <3>3, <4>2 DEF Reach
      <4>4. CASE first.ids = one /\ first.delta = 0
        <5>1. Shifted(one, 0) = one
          BY <3>3, ShiftedNot
        <5>2. 0 # None /\ Len(one) + 0 - 0 = n
          BY <3>3, HybridCacheAssumption
        <5> QED
          BY <3>1, <3>2, <4>2, <4>3, <4>4, <5>1, <5>2 DEF PosInv, one
      <4>5. CASE first.ids = one /\ first.delta = None
        <5>1. Shifted(one, 0) = one
          BY <3>3, ShiftedNot
        <5> QED
          BY <3>1, <3>2, <3>3, <4>2, <4>3, <4>5, <5>1 DEF PosInv, one
      <4>6. CASE ropeDeltas # None /\ first.ids = Shifted(one, ropeDeltas) /\ first.delta = ropeDeltas
        <5>1. ropeDeltas \in Int
          BY <3>2, <4>6
        <5>2. Shifted(one, ropeDeltas)[1][1] = ropeDeltas
          <6>1. Shifted(one, ropeDeltas)[1] = <<one[1][1] + ropeDeltas, one[1][2] + ropeDeltas, one[1][3] + ropeDeltas>>
            BY <3>3, <5>1, ShiftedIs
          <6> QED
            BY <4>3, <5>1, <6>1
        <5>3. Len(one) + ropeDeltas - ropeDeltas = n
          BY <3>3, <5>1
        <5> QED
          BY <3>1, <3>2, <4>2, <4>6, <5>1, <5>2, <5>3 DEF PosInv, one
      <4> QED
        BY <3>5, <4>2, <4>4, <4>5, <4>6 DEF FirstPositions, n
    <3> QED
      BY <3>4, <3>5
  <2>2. ASSUME NEW es \in Seq(Texts), es # << >>, Continue(es) PROVE PosInv'
    <3> DEFINE one == OneRunPositions(groups)  n == Len(one)  k == Len(es)  all == groups \o es
               shift == keyCache[1][1]  rest == NextPositions(k)
    <3>1. /\ groups # << >> /\ groups' = all /\ ropeDeltas' = ropeDeltas
          /\ keyCache' = keyCache \o rest
      BY <2>2, TextOnly DEF Continue
    <3>2. groups \in Seq(Group) /\ ropeDeltas \in Int \cup {None} /\ shift \in Int /\ keyCache = Shifted(one, shift)
      BY <3>1 DEF PosInv
    <3>3. PICK pos \in Nat : /\ Reach(one, pos)
                             /\ ropeDeltas = None => shift = 0 /\ pos = n
                             /\ ropeDeltas # None => pos = n + ropeDeltas - shift
      BY <3>1 DEF PosInv, Reach
    <3>4. all \in Seq(Group) /\ all # << >> /\ k \in Nat
      BY <3>1, <3>2 DEF Group
    <3>5. OneRunPositions(all) = one \o Arange(pos, k) /\ Reach(OneRunPositions(all), pos + k)
      BY <3>2, <3>3, PositionsGoOn
    <3>6. one \in Seq(Pos) /\ n \in Nat \ {0} /\ Len(keyCache) = n /\ keyCache \in Seq(Pos)
      <4>1. one \in Seq(Pos)
        BY <3>3 DEF Reach
      <4>2. Len(one) = Len(Tokens(groups)) /\ Len(Tokens(groups)) >= Len(groups)
        BY <3>2, PositionsAndTokens
      <4>3. Len(groups) \in Nat \ {0} /\ Len(one) \in Nat
        BY <3>1, <3>2, <4>1
      <4> HIDE DEF one, shift
      <4>4. Len(keyCache) = n /\ keyCache \in Seq(Pos)
        BY <4>1, <3>2, ShiftedIs
      <4> QED
        BY <4>1, <4>2, <4>3, <4>4
    <3> HIDE DEF one, all, k, n, shift
    <3>7. rest = Arange(pos + shift, k)
      <4>1. CASE ropeDeltas = None
        <5>1. rest = Arange(n, k)
          BY <4>1, <3>6 DEF NextPositions
        <5>2. pos + shift = n
          BY <4>1, <3>3, <3>6
        <5> QED
          BY <5>1, <5>2
      <4>2. CASE ropeDeltas # None
        <5>1. rest = Shifted(Arange(n, k), ropeDeltas)
          BY <4>2, <3>6 DEF NextPositions
        <5>2. ropeDeltas \in Int /\ n \in Int
          BY <4>2, <3>2, <3>6
        <5>3. Shifted(Arange(n, k), ropeDeltas) = Arange(n + ropeDeltas, k)
          BY <5>2, <3>4, ShiftedArange
        <5>4. n + ropeDeltas = pos + shift
          BY <4>2, <5>2, <3>2, <3>3
        <5> QED
          BY <5>1, <5>3, <5>4
      <4> QED
        BY <4>1, <4>2
    <3> HIDE DEF rest
    <3>8. Shifted(OneRunPositions(all), shift) = keyCache'
      <4>1. pos \in Int /\ Arange(pos, k) \in Seq(Pos)
        BY <3>4, ArangeIs
      <4>2. Shifted(one \o Arange(pos, k), shift) = Shifted(one, shift) \o Shifted(Arange(pos, k), shift)
        BY <4>1, <3>2, <3>6, ShiftedConcat
      <4>3. Shifted(Arange(pos, k), shift) = rest
        BY <4>1, <3>2, <3>4, <3>7, ShiftedArange
      <4> QED
        BY <4>2, <4>3, <3>1, <3>2, <3>5
    <3>9. keyCache'[1][1] = shift
      <4>1. rest \in Seq(Pos)
        <5>1. pos + shift \in Int
          BY <3>2
        <5> QED
          BY <5>1, <3>4, <3>7, ArangeIs
      <4>2. (keyCache \o rest)[1] = keyCache[1]
        BY <4>1, <3>6
      <4> QED
        BY <4>2, <3>1 DEF shift
    <3>10. Len(OneRunPositions(all)) = n + k
      <4>0. pos \in Int
        OBVIOUS
      <4>1. Len(Arange(pos, k)) = k /\ Arange(pos, k) \in Seq(Pos)
        BY <4>0, <3>4, ArangeIs
      <4>2. Len(one \o Arange(pos, k)) = Len(one) + Len(Arange(pos, k))
        BY <3>6, <4>1, ConcatProperties
      <4> QED
        BY <4>1, <4>2, <3>5 DEF n
    <3>11. /\ ropeDeltas = None => pos + k = n + k
           /\ ropeDeltas # None => pos + k = (n + k) + ropeDeltas - shift
      BY <3>2, <3>3, <3>4, <3>6
    <3> QED
      BY <3>1, <3>2, <3>3, <3>4, <3>5, <3>8, <3>9, <3>10, <3>11 DEF PosInv
  <2>3. ASSUME Decode PROVE PosInv'
    <3>1. PICK g \in Texts : Continue(<<g>>)
      BY <2>3 DEF Decode
    <3>2. <<g>> \in Seq(Texts) /\ <<g>> # << >>
      OBVIOUS
    <3> QED
      BY <3>1, <3>2, <2>2
  <2>4. ASSUME Extend PROVE PosInv'
    <3>1. PICK e \in Extensions : Continue(e)
      BY <2>4 DEF Extend
    <3>2. e \in Seq(Texts) /\ e # << >>
      BY HybridCacheAssumption
    <3> QED
      BY <3>1, <3>2, <2>2
  <2>5. ASSUME UNCHANGED vars PROVE PosInv'
    BY <2>5 DEF vars, PosInv
  <2> QED
    BY <2>1, <2>3, <2>4, <2>5 DEF Next
<1> QED
  BY <1>1, <1>2, PTL DEF Spec

\* The positions in the cache are those of one run, but for a shift of all: what
\* get_rope_index, rope_deltas and cache_position give, call after call.
THEOREM PositionsCorrect == Spec => []PositionsAsInOneRun
<1>1. PosInv => PositionsAsInOneRun
  BY DEF PosInv, PositionsAsInOneRun
<1> QED
  BY <1>1, PositionsInv, PTL

-----------------------------------------------------------------------------
(* Sums.                                                                     *)

\* n integers.
Ints(f, n) == \A i \in 1 .. n : f[i] \in Int

\* s holds the sums of all beginnings.
LEMMA SumIs ==
  ASSUME NEW n \in Nat, NEW f, Ints(f, n)
  PROVE  \E s : /\ s \in [0 .. n -> Int] /\ s[0] = 0 /\ \A i \in 1 .. n : s[i] = s[i-1] + f[i]
                /\ Sum(f, n) = s[n]
<1> DEFINE Eq(s) == s = [i \in 0 .. n |-> IF i = 0 THEN 0 ELSE s[i-1] + f[i]]
           S == Int
           step == [i \in 1 .. n |-> [x \in S |-> x + f[i]]]
<1>1. PICK s \in [0 .. n -> Int] : s[0] = 0 /\ \A i \in 1 .. n : s[i] = step[i][s[i-1]]
  <2>1. Steps(step, n, S) /\ 0 \in S
    BY DEF Steps, Ints
  <2> HIDE DEF step, S
  <2>2. PICK g : Iterates(g, n, S, 0, step)
    BY <2>1, Primitive
  <2> QED
    BY <2>2 DEF Iterates, S
<1>2. \A i \in 1 .. n : s[i] = s[i-1] + f[i]
  <2>1. ASSUME NEW i \in 1 .. n PROVE s[i-1] \in Int /\ step[i] = [x \in Int |-> x + f[i]]
    OBVIOUS
  <2> QED
    BY <1>1, <2>1
<1>3. Eq(s)
  BY <1>1, <1>2
<1>4. PICK t : Eq(t) /\ Sum(f, n) = t[n]
  BY <1>3 DEF Sum
<1>5. \A i \in 0 .. n : s[i] = t[i]
  <2>1. DOMAIN s = 0 .. n /\ DOMAIN t = 0 .. n /\ s[0] = t[0]
    BY <1>3, <1>4
  <2>2. \A i \in 1 .. n : s[i-1] = t[i-1] => s[i] = t[i]
    BY <1>2, <1>4
  <2> HIDE DEF Eq
  <2> QED
    BY <2>1, <2>2, Unique
<1>6. Sum(f, n) = s[n]
  BY <1>4, <1>5
<1> QED
  BY <1>1, <1>2, <1>6

\* A sum of integers is one.
LEMMA SumType ==
  ASSUME NEW n \in Nat, NEW f, Ints(f, n)
  PROVE  Sum(f, n) \in Int
<1>1. PICK s : s \in [0 .. n -> Int] /\ Sum(f, n) = s[n]
  BY SumIs
<1> QED
  BY <1>1

\* The empty sum.
LEMMA SumOfNone ==
  ASSUME NEW f
  PROVE  Sum(f, 0) = 0
<1>1. Ints(f, 0)
  BY DEF Ints
<1>2. PICK s : s[0] = 0 /\ Sum(f, 0) = s[0]
  BY <1>1, SumIs
<1> QED
  BY <1>2

\* Terms that are equal.
LEMMA SumEqual ==
  ASSUME NEW n \in Nat, NEW f, NEW g, Ints(f, n), \A i \in 1 .. n : f[i] = g[i]
  PROVE  Sum(f, n) = Sum(g, n)
<1>1. Ints(g, n)
  BY DEF Ints
<1>2. PICK s : /\ s \in [0 .. n -> Int] /\ s[0] = 0 /\ \A i \in 1 .. n : s[i] = s[i-1] + f[i]
               /\ Sum(f, n) = s[n]
  BY SumIs
<1>3. PICK t : /\ t \in [0 .. n -> Int] /\ t[0] = 0 /\ \A i \in 1 .. n : t[i] = t[i-1] + g[i]
               /\ Sum(g, n) = t[n]
  BY <1>1, SumIs
<1>4. \A i \in 1 .. n : s[i-1] = t[i-1] => s[i] = t[i]
  BY <1>2, <1>3
<1>5. \A i \in 0 .. n : s[i] = t[i]
  <2>1. DOMAIN s = 0 .. n /\ DOMAIN t = 0 .. n /\ s[0] = t[0]
    BY <1>2, <1>3
  <2> QED
    BY <1>4, <2>1, Unique
<1> QED
  BY <1>2, <1>3, <1>5

\* One more term.
LEMMA SumNext ==
  ASSUME NEW n \in Nat, NEW f, Ints(f, n + 1)
  PROVE  Sum(f, n + 1) = Sum(f, n) + f[n + 1]
<1>1. Ints(f, n)
  BY DEF Ints
<1>2. PICK s : /\ s \in [0 .. n -> Int] /\ s[0] = 0 /\ \A i \in 1 .. n : s[i] = s[i-1] + f[i]
               /\ Sum(f, n) = s[n]
  BY <1>1, SumIs
<1>3. PICK t : /\ t \in [0 .. n + 1 -> Int] /\ t[0] = 0 /\ \A i \in 1 .. n + 1 : t[i] = t[i-1] + f[i]
               /\ Sum(f, n + 1) = t[n + 1]
  <2>1. n + 1 \in Nat
    OBVIOUS
  <2> QED
    BY <2>1, SumIs
<1> DEFINE r == [i \in 0 .. n |-> t[i]]
<1>4. \A i \in 1 .. n : s[i-1] = r[i-1] => s[i] = r[i]
  <2>1. ASSUME NEW i \in 1 .. n, s[i-1] = r[i-1] PROVE s[i] = r[i]
    <3>1. i \in 1 .. n + 1 /\ i \in 0 .. n /\ i - 1 \in 0 .. n
      OBVIOUS
    <3>2. r[i] = t[i] /\ r[i-1] = t[i-1]
      BY <3>1
    <3>3. s[i] = s[i-1] + f[i] /\ t[i] = t[i-1] + f[i]
      BY <3>1, <1>2, <1>3
    <3> HIDE DEF r
    <3> QED
      BY <2>1, <3>2, <3>3
  <2> QED
    BY <2>1
<1>5. s[0] = r[0] /\ DOMAIN s = 0 .. n /\ DOMAIN r = 0 .. n
  BY <1>2, <1>3
<1>6. \A i \in 0 .. n : s[i] = r[i]
  <2> HIDE DEF r
  <2> QED
    BY <1>4, <1>5, Unique
<1>7. t[n + 1] = t[n] + f[n + 1]
  <2>1. n + 1 \in 1 .. n + 1 /\ (n + 1) - 1 = n
    OBVIOUS
  <2> QED
    BY <1>3, <2>1
<1>8. s[n] = t[n]
  BY <1>6
<1> QED
  BY <1>2, <1>3, <1>7, <1>8

\* Terms that are a combination.
LEMMA SumLinear ==
  ASSUME NEW n \in Nat, NEW f, NEW g, NEW h, NEW a \in Int, NEW b \in Int,
         Ints(f, n), Ints(g, n), \A i \in 1 .. n : h[i] = a * f[i] + b * g[i]
  PROVE  Sum(h, n) = a * Sum(f, n) + b * Sum(g, n)
<1> DEFINE P == {m \in Nat : m <= n => Sum(h, m) = a * Sum(f, m) + b * Sum(g, m)}
<1>1. 0 \in P
  BY SumOfNone
<1>2. ASSUME NEW m \in Nat, m \in P PROVE m + 1 \in P
  <2>1. SUFFICES ASSUME m + 1 <= n PROVE Sum(h, m + 1) = a * Sum(f, m + 1) + b * Sum(g, m + 1)
    OBVIOUS
  <2>2. /\ Ints(f, m) /\ Ints(g, m) /\ Ints(f, m + 1) /\ Ints(g, m + 1)
    BY <2>1 DEF Ints
  <2>3. Ints(h, m + 1)
    <3>1. ASSUME NEW i \in 1 .. m + 1 PROVE h[i] \in Int
      <4>1. i \in 1 .. n /\ f[i] \in Int /\ g[i] \in Int
        BY <2>1, <2>2 DEF Ints
      <4>2. h[i] = a * f[i] + b * g[i]
        BY <4>1
      <4> QED
        BY <4>1, <4>2
    <3> QED
      BY <3>1 DEF Ints
  <2>4. /\ Sum(f, m + 1) = Sum(f, m) + f[m + 1]
        /\ Sum(g, m + 1) = Sum(g, m) + g[m + 1]
        /\ Sum(h, m + 1) = Sum(h, m) + h[m + 1]
    BY <2>2, <2>3, SumNext
  <2>5. Sum(f, m) \in Int /\ Sum(g, m) \in Int
    BY <2>2, SumType
  <2>6. h[m + 1] = a * f[m + 1] + b * g[m + 1] /\ f[m + 1] \in Int /\ g[m + 1] \in Int
    BY <2>1, <2>2 DEF Ints
  <2>7. Sum(h, m) = a * Sum(f, m) + b * Sum(g, m)
    BY <1>2, <2>1
  <2> DEFINE x == Sum(f, m)  y == Sum(g, m)  u == f[m + 1]  v == g[m + 1]
  <2> HIDE DEF x, y, u, v
  <2>8. (a * x + b * y) + (a * u + b * v) = a * (x + u) + b * (y + v)
    BY <2>5, <2>6 DEF x, y, u, v
  <2> QED
    BY <2>4, <2>6, <2>7, <2>8 DEF x, y, u, v
<1> HIDE DEF P
<1>3. n \in P
  BY <1>1, <1>2, Induction
<1> QED
  BY <1>3 DEF P

\* Nothing after m.
LEMMA SumTail ==
  ASSUME NEW n \in Nat, NEW m \in 0 .. n, NEW f, Ints(f, n), \A i \in m + 1 .. n : f[i] = 0
  PROVE  Sum(f, n) = Sum(f, m)
<1> DEFINE P == {k \in Nat : m + k <= n => Sum(f, m + k) = Sum(f, m)}
<1>1. 0 \in P
  OBVIOUS
<1>2. ASSUME NEW k \in Nat, k \in P PROVE k + 1 \in P
  <2>1. SUFFICES ASSUME m + (k + 1) <= n PROVE Sum(f, m + (k + 1)) = Sum(f, m)
    OBVIOUS
  <2> DEFINE j == m + k
  <2>2. j \in Nat /\ m + (k + 1) = j + 1 /\ j + 1 \in m + 1 .. n /\ m + k <= n
    BY <2>1
  <2>3. Sum(f, m + k) = Sum(f, m)
    BY <1>2, <2>2
  <2> HIDE DEF j
  <2>4. Ints(f, j + 1) /\ Ints(f, m)
    BY <2>2 DEF Ints
  <2>5. Sum(f, j + 1) = Sum(f, j) + f[j + 1] /\ f[j + 1] = 0
    BY <2>2, <2>4, SumNext
  <2>6. Sum(f, m) \in Int
    BY <2>4, SumType
  <2> QED
    BY <2>2, <2>3, <2>5, <2>6 DEF j
<1> HIDE DEF P
<1>3. n - m \in P
  BY <1>1, <1>2, Induction
<1> QED
  BY <1>3 DEF P

\* One term that is not zero.
LEMMA SumOfOne ==
  ASSUME NEW n \in Nat, NEW m \in 1 .. n, NEW f, f[m] \in Int, \A i \in 1 .. n : i # m => f[i] = 0
  PROVE  Sum(f, n) = f[m]
<1>1. Ints(f, n)
  BY DEF Ints
<1>2. m - 1 \in Nat /\ (m - 1) + 1 = m /\ Ints(f, m) /\ Ints(f, m - 1)
  BY <1>1 DEF Ints
<1>3. Sum(f, n) = Sum(f, m)
  BY <1>1, SumTail
<1>4. Sum(f, m) = Sum(f, m - 1) + f[m]
  <2> DEFINE k == m - 1
  <2>1. k \in Nat /\ k + 1 = m
    BY <1>2
  <2> HIDE DEF k
  <2>2. Sum(f, k + 1) = Sum(f, k) + f[k + 1]
    BY <2>1, <1>2, SumNext
  <2> QED
    BY <2>1, <2>2 DEF k
<1>5. Sum(f, m - 1) = 0
  <2> DEFINE k == m - 1
  <2>1. k \in Nat /\ 0 \in 0 .. k /\ Ints(f, k) /\ \A i \in 0 + 1 .. k : f[i] = 0
    BY <1>2
  <2> HIDE DEF k
  <2>2. Sum(f, k) = Sum(f, 0)
    BY <2>1, SumTail
  <2> QED
    BY <2>2, SumOfNone DEF k
<1> QED
  BY <1>3, <1>4, <1>5

\* A sum of sums in the other order.
LEMMA SumSwap ==
  ASSUME NEW n \in Nat, NEW m \in Nat, NEW f, \A i \in 1 .. n : Ints(f[i], m)
  PROVE  Sum([i \in 1 .. n |-> Sum(f[i], m)], n) = Sum([j \in 1 .. m |-> Sum([i \in 1 .. n |-> f[i][j]], n)], m)
<1> DEFINE Row(i) == Sum(f[i], m)
           rows == [i \in 1 .. n |-> Row(i)]
           col(j) == [i \in 1 .. n |-> f[i][j]]
           Cols(k) == [j \in 1 .. m |-> Sum(col(j), k)]
           P == {k \in Nat : k <= n => Sum(rows, k) = Sum(Cols(k), m)}
<1>0. \A i \in 1 .. n : Row(i) \in Int
  BY SumType
<1> HIDE DEF Row
<1>1. Ints(rows, n)
  BY <1>0 DEF Ints
<1>2. \A j \in 1 .. m : Ints(col(j), n)
  BY DEF Ints
<1>3. 0 \in P
  <2> HIDE DEF col
  <2>1. \A j \in 1 .. m : Cols(0)[j] = 0
    BY SumOfNone
  <2>2. Ints(Cols(0), m) /\ 0 \in 0 .. m /\ \A j \in 0 + 1 .. m : Cols(0)[j] = 0
    BY <2>1 DEF Ints
  <2> HIDE DEF Cols
  <2>3. Sum(Cols(0), m) = Sum(Cols(0), 0)
    BY <2>2, SumTail
  <2> QED
    BY <2>3, SumOfNone
<1>4. ASSUME NEW k \in Nat, k \in P PROVE k + 1 \in P
  <2>1. SUFFICES ASSUME k + 1 <= n PROVE Sum(rows, k + 1) = Sum(Cols(k + 1), m)
    OBVIOUS
  <2>2. Sum(rows, k) = Sum(Cols(k), m)
    BY <1>4, <2>1
  <2>3. Sum(rows, k + 1) = Sum(rows, k) + Row(k + 1)
    <3>1. Ints(rows, k + 1) /\ rows[k + 1] = Row(k + 1)
      BY <2>1, <1>1 DEF Ints
    <3> HIDE DEF rows
    <3> QED
      BY <3>1, SumNext
  <2> DEFINE new == f[k + 1]
  <2>4. Ints(new, m) /\ Row(k + 1) = Sum(new, m)
    BY <2>1 DEF Row
  <2>5. \A j \in 1 .. m : Sum(col(j), k) \in Int /\ Sum(col(j), k + 1) = Sum(col(j), k) + new[j]
    <3>1. ASSUME NEW j \in 1 .. m PROVE Ints(col(j), k) /\ Ints(col(j), k + 1) /\ col(j)[k + 1] = new[j]
      BY <2>1, <1>2 DEF Ints
    <3> HIDE DEF col, new
    <3> QED
      BY <3>1, SumNext, SumType
  <2> HIDE DEF col, new
  <2>6. Ints(Cols(k), m)
    BY <2>5 DEF Ints
  <2>7. \A j \in 1 .. m : Cols(k + 1)[j] = 1 * Cols(k)[j] + 1 * new[j]
    BY <2>4, <2>5 DEF Ints
  <2> HIDE DEF Cols
  <2>8. Sum(Cols(k + 1), m) = 1 * Sum(Cols(k), m) + 1 * Sum(new, m)
    BY <2>4, <2>6, <2>7, SumLinear
  <2>9. Sum(Cols(k), m) \in Int /\ Sum(new, m) \in Int
    BY <2>4, <2>6, SumType
  <2> QED
    BY <2>2, <2>3, <2>4, <2>8, <2>9
<1> HIDE DEF P
<1>5. n \in P
  BY <1>3, <1>4, Induction
<1> QED
  BY <1>5 DEF P, Row

-----------------------------------------------------------------------------
(* Vectors.                                                                  *)

\* The operations on vectors.
LEMMA VectorTypes ==
  ASSUME NEW a \in Vector, NEW b \in Vector, NEW n \in Int
  PROVE  a ++ b \in Vector /\ n ** a \in Vector /\ Dot(a, b) \in Int
  BY DEF Vector, ++, **, Dot

\* The inner product is linear,
LEMMA DotLinear ==
  ASSUME NEW a \in Vector, NEW b \in Vector, NEW c \in Vector, NEW n \in Int, NEW m \in Int
  PROVE  Dot((n ** a) ++ (m ** b), c) = n * Dot(a, c) + m * Dot(b, c)
  BY DEF Vector, ++, **, Dot

\* and for one vector,
LEMMA DotScaled ==
  ASSUME NEW a \in Vector, NEW c \in Vector, NEW n \in Int
  PROVE  Dot(n ** a, c) = n * Dot(a, c)
  BY DEF Vector, **, Dot

\* and symmetric.
LEMMA DotCommutes ==
  ASSUME NEW a \in Vector, NEW b \in Vector
  PROVE  Dot(a, b) = Dot(b, a)
  BY DEF Vector, Dot

\* What an input consists of.
LEMMA InputFields ==
  ASSUME NEW x \in Input
  PROVE  x.q \in Vector /\ x.k \in Vector /\ x.v \in Int /\ x.beta \in Int /\ x.decay \in Int
  BY DEF Input

-----------------------------------------------------------------------------
(* The rule for one token.                                                   *)

\* What a token adds, in the direction of its key.
Gain(s, x) == (x.v - x.decay * Dot(s, x.k)) * x.beta

\* A step of torch_recurrent_gated_delta_rule decays the state and adds a multiple of the key.
LEMMA StepIs ==
  ASSUME NEW s \in Vector, NEW x \in Input
  PROVE  /\ Gain(s, x) \in Int
         /\ RecurrentStep(s, x) = (x.decay ** s) ++ (Gain(s, x) ** x.k)
         /\ RecurrentStep(s, x) \in Vector
<1>1. x.q \in Vector /\ x.k \in Vector /\ x.v \in Int /\ x.beta \in Int /\ x.decay \in Int
  BY InputFields
<1> DEFINE d == Dot(s, x.k)  g == (x.v - x.decay * d) * x.beta
<1>2. d \in Int
  BY <1>1, VectorTypes
<1>3. Dot(x.decay ** s, x.k) = x.decay * d
  BY <1>1, DotScaled
<1> HIDE DEF d
<1>4. g \in Int
  BY <1>1, <1>2
<1> HIDE DEF g
<1>5. x.decay ** s \in Vector /\ g ** x.k \in Vector /\ (x.decay ** s) ++ (g ** x.k) \in Vector
  BY <1>1, <1>4, VectorTypes
<1>6. RecurrentStep(s, x) = (x.decay ** s) ++ (g ** x.k)
  BY <1>3 DEF RecurrentStep, g
<1> QED
  BY <1>4, <1>5, <1>6 DEF Gain, g, d

\* What it gives for a vector.
LEMMA StepDot ==
  ASSUME NEW s \in Vector, NEW x \in Input, NEW y \in Vector
  PROVE  Dot(RecurrentStep(s, x), y) = x.decay * Dot(s, y) + Gain(s, x) * Dot(x.k, y)
<1>1. x.k \in Vector /\ x.decay \in Int
  BY InputFields
<1>2. Gain(s, x) \in Int /\ RecurrentStep(s, x) = (x.decay ** s) ++ (Gain(s, x) ** x.k)
  BY StepIs
<1> QED
  BY <1>1, <1>2, DotLinear

\* The states that xs go through from s0.
States(xs, s0, S) ==
  /\ S \in [0 .. Len(xs) -> Vector] /\ S[0] = s0
  /\ \A i \in 1 .. Len(xs) : S[i] = RecurrentStep(S[i-1], xs[i])

\* The rule goes through states, one for every beginning of the inputs.
LEMMA RecurrentIs ==
  ASSUME NEW xs \in Seq(Input), NEW s0 \in Vector
  PROVE  \E S : /\ States(xs, s0, S)
                /\ RecurrentRule(xs, s0).state = S[Len(xs)]
                /\ RecurrentRule(xs, s0).out = [t \in 1 .. Len(xs) |-> Dot(S[t], xs[t].q)]
<1> DEFINE n == Len(xs)
           step == [i \in 1 .. n |-> [s \in Vector |-> RecurrentStep(s, xs[i])]]
           Eq(f) == f = [t \in 0 .. n |-> IF t = 0 THEN s0 ELSE RecurrentStep(f[t-1], xs[t])]
<1>1. n \in Nat /\ \A i \in 1 .. n : xs[i] \in Input
  OBVIOUS
<1>2. Steps(step, n, Vector)
  <2>1. \A i \in 1 .. n : \A s \in Vector : RecurrentStep(s, xs[i]) \in Vector
    BY <1>1, StepIs
  <2> QED
    BY <2>1 DEF Steps
<1>3. PICK S : Iterates(S, n, Vector, s0, step)
  <2> HIDE DEF step, n
  <2> QED
    BY <1>1, <1>2, Primitive
<1>4. S \in [0 .. n -> Vector] /\ S[0] = s0
  BY <1>3 DEF Iterates
<1>5. \A i \in 1 .. n : S[i] = RecurrentStep(S[i-1], xs[i])
  <2>1. ASSUME NEW i \in 1 .. n PROVE S[i-1] \in Vector /\ step[i] = [s \in Vector |-> RecurrentStep(s, xs[i])]
    BY <1>1, <1>4
  <2>2. \A i \in 1 .. n : S[i] = step[i][S[i-1]]
    BY <1>3 DEF Iterates
  <2> HIDE DEF step, n
  <2> QED
    BY <2>1, <2>2
<1>6. Eq(S)
  <2> HIDE DEF n
  <2> QED
    BY <1>1, <1>4, <1>5
<1>7. PICK f : /\ Eq(f) /\ RecurrentRule(xs, s0).state = f[n]
               /\ RecurrentRule(xs, s0).out = [t \in 1 .. n |-> Dot(f[t], xs[t].q)]
  BY <1>6 DEF RecurrentRule
<1>8. \A i \in 0 .. n : S[i] = f[i]
  <2>1. f[0] = s0 /\ \A i \in 1 .. n : f[i] = RecurrentStep(f[i-1], xs[i])
    <3> HIDE DEF n
    <3> QED
      BY <1>1, <1>7
  <2>2. SameSteps(S, f, n)
    BY <1>4, <1>5, <2>1 DEF SameSteps
  <2> HIDE DEF n, Eq
  <2> QED
    BY <1>1, <2>2, SameBeginning
<1>9. States(xs, s0, S)
  BY <1>4, <1>5 DEF States
<1>10. RecurrentRule(xs, s0).state = S[n]
  BY <1>1, <1>7, <1>8
<1>11. RecurrentRule(xs, s0).out = [t \in 1 .. n |-> Dot(S[t], xs[t].q)]
  <2>1. \A t \in 1 .. n : Dot(S[t], xs[t].q) = Dot(f[t], xs[t].q)
    BY <1>8
  <2> HIDE DEF n
  <2> QED
    BY <1>7, <2>1
<1> QED
  BY <1>9, <1>10, <1>11

-----------------------------------------------------------------------------
(* Decays.                                                                   *)

\* The product of decays, factor after factor.
LEMMA DecayIs ==
  ASSUME NEW xs \in Seq(Input), NEW i \in 0 .. Len(xs), NEW j \in 0 .. i
  PROVE  \E d : /\ d \in [0 .. i - j -> Int] /\ d[0] = 1
                /\ \A m \in 1 .. i - j : d[m] = d[m-1] * xs[j+m].decay
                /\ DecayMask(xs, i, j) = d[i - j]
<1> DEFINE n == i - j
           S == Int
           Mul(s, m) == s * xs[j+m].decay
           step == [m \in 1 .. n |-> [s \in S |-> Mul(s, m)]]
           Eq(f) == f = [m \in 0 .. n |-> IF m = 0 THEN 1 ELSE Mul(f[m-1], m)]
<1>1. n \in Nat
  OBVIOUS
<1>2. \A m \in 1 .. n : \A s \in S : Mul(s, m) \in S
  <2>1. ASSUME NEW m \in 1 .. n PROVE xs[j+m].decay \in Int
    <3>1. j + m \in 1 .. Len(xs)
      OBVIOUS
    <3> QED
      BY <3>1, InputFields
  <2> QED
    BY <2>1
<1>3. Steps(step, n, S) /\ 1 \in S
  <2> HIDE DEF Mul, n
  <2> QED
    BY <1>2 DEF Steps
<1>4. PICK d : Iterates(d, n, S, 1, step)
  <2> HIDE DEF step, n, S
  <2> QED
    BY <1>1, <1>3, Primitive
<1>5. d \in [0 .. n -> Int] /\ d[0] = 1
  BY <1>4 DEF Iterates
<1> HIDE DEF Mul, n
<1>6. \A m \in 1 .. n : d[m] = Mul(d[m-1], m)
  <2>1. ASSUME NEW m \in 1 .. n PROVE d[m-1] \in S /\ step[m] = [s \in S |-> Mul(s, m)]
    BY <1>1, <1>5
  <2>2. \A m \in 1 .. n : d[m] = step[m][d[m-1]]
    BY <1>4 DEF Iterates
  <2> HIDE DEF step
  <2> QED
    BY <2>1, <2>2
<1>7. Eq(d)
  BY <1>1, <1>5, <1>6
<1>8. PICK f : Eq(f) /\ DecayMask(xs, i, j) = f[n]
  BY <1>7 DEF DecayMask, Mul, n
<1>9. \A m \in 0 .. n : d[m] = f[m]
  <2>1. f[0] = 1 /\ \A m \in 1 .. n : f[m] = Mul(f[m-1], m)
    BY <1>1, <1>8
  <2>2. SameSteps(d, f, n)
    BY <1>5, <1>6, <2>1 DEF SameSteps
  <2> HIDE DEF Eq
  <2> QED
    BY <1>1, <2>2, SameBeginning
<1>10. DecayMask(xs, i, j) = d[n]
  BY <1>1, <1>8, <1>9
<1> QED
  BY <1>5, <1>6, <1>10 DEF n, Mul

\* It begins with 1, and one input more multiplies it by its decay.
LEMMA DecayFacts ==
  ASSUME NEW xs \in Seq(Input), NEW i \in 0 .. Len(xs), NEW j \in 0 .. i
  PROVE  /\ DecayMask(xs, i, j) \in Int
         /\ DecayMask(xs, i, i) = 1
         /\ i < Len(xs) => DecayMask(xs, i + 1, j) = DecayMask(xs, i, j) * xs[i + 1].decay
<1>1. PICK d : /\ d \in [0 .. i - j -> Int] /\ d[0] = 1
               /\ \A m \in 1 .. i - j : d[m] = d[m-1] * xs[j+m].decay
               /\ DecayMask(xs, i, j) = d[i - j]
  BY DecayIs
<1>2. DecayMask(xs, i, j) \in Int
  BY <1>1
<1>3. DecayMask(xs, i, i) = 1
  <2>1. i \in 0 .. i /\ i - i = 0
    OBVIOUS
  <2>2. PICK e : /\ e \in [0 .. i - i -> Int] /\ e[0] = 1
                 /\ \A m \in 1 .. i - i : e[m] = e[m-1] * xs[i+m].decay
                 /\ DecayMask(xs, i, i) = e[i - i]
    BY <2>1, DecayIs
  <2> QED
    BY <2>1, <2>2
<1>4. ASSUME i < Len(xs) PROVE DecayMask(xs, i + 1, j) = DecayMask(xs, i, j) * xs[i + 1].decay
  <2> DEFINE n == i - j
  <2>1. i + 1 \in 0 .. Len(xs) /\ j \in 0 .. i + 1 /\ (i + 1) - j = n + 1 /\ n \in Nat /\ j + (n + 1) = i + 1
    BY <1>4
  <2> DEFINE i1 == i + 1
  <2> HIDE DEF i1
  <2>0. PICK e : /\ e \in [0 .. i1 - j -> Int] /\ e[0] = 1
                 /\ \A m \in 1 .. i1 - j : e[m] = e[m-1] * xs[j+m].decay
                 /\ DecayMask(xs, i1, j) = e[i1 - j]
    <3>1. i1 \in 0 .. Len(xs) /\ j \in 0 .. i1
      BY <2>1 DEF i1
    <3> QED
      BY <3>1, DecayIs
  <2>2. /\ e[0] = 1 /\ \A m \in 1 .. n + 1 : e[m] = e[m-1] * xs[j+m].decay
        /\ DecayMask(xs, i + 1, j) = e[n + 1]
    BY <2>0, <2>1 DEF i1
  <2>3. SameSteps(d, e, n)
    BY <1>1, <2>1, <2>2 DEF SameSteps
  <2>4. \A m \in 0 .. n : d[m] = e[m]
    <3> HIDE DEF n
    <3> QED
      BY <2>1, <2>3, SameBeginning
  <2>5. e[n + 1] = e[n] * xs[i + 1].decay
    <3>1. n + 1 \in 1 .. n + 1 /\ (n + 1) - 1 = n
      BY <2>1
    <3> HIDE DEF n
    <3> QED
      BY <3>1, <2>1, <2>2
  <2> QED
    BY <1>1, <2>1, <2>2, <2>4, <2>5
<1> QED
  BY <1>2, <1>3, <1>4

-----------------------------------------------------------------------------
(* Rows, columns and their products.                                         *)

\* A row times a column, and a column of a matrix.
Inner(r, f, n) == Sum([j \in 1 .. n |-> r[j] * f[j]], n)
Column(A, j, n) == [i \in 1 .. n |-> A[i][j]]

\* A row times a column is a number,
LEMMA InnerType ==
  ASSUME NEW n \in Nat, NEW r, NEW f, Ints(r, n), Ints(f, n)
  PROVE  Inner(r, f, n) \in Int
<1> DEFINE h == [j \in 1 .. n |-> r[j] * f[j]]
<1>1. Ints(h, n)
  BY DEF Ints
<1> HIDE DEF h
<1>2. Sum(h, n) \in Int
  BY <1>1, SumType
<1> QED
  BY <1>2 DEF Inner, h

\* only the entries of the column count that the row does not cancel,
LEMMA InnerEqual ==
  ASSUME NEW n \in Nat, NEW r, NEW f, NEW g, Ints(r, n), Ints(f, n),
         \A j \in 1 .. n : r[j] * f[j] = r[j] * g[j]
  PROVE  Inner(r, f, n) = Inner(r, g, n)
<1> DEFINE x == [j \in 1 .. n |-> r[j] * f[j]]  y == [j \in 1 .. n |-> r[j] * g[j]]
<1>1. Ints(x, n) /\ \A j \in 1 .. n : x[j] = y[j]
  BY DEF Ints
<1> HIDE DEF x, y
<1>2. Sum(x, n) = Sum(y, n)
  BY <1>1, SumEqual
<1> QED
  BY <1>2 DEF Inner, x, y

\* the product is linear,
LEMMA InnerLinear ==
  ASSUME NEW n \in Nat, NEW r, NEW f, NEW g, NEW h, NEW a \in Int, NEW b \in Int,
         Ints(r, n), Ints(f, n), Ints(g, n), \A j \in 1 .. n : h[j] = a * f[j] + b * g[j]
  PROVE  Inner(r, h, n) = a * Inner(r, f, n) + b * Inner(r, g, n)
<1> DEFINE x == [j \in 1 .. n |-> r[j] * f[j]]  y == [j \in 1 .. n |-> r[j] * g[j]]
           z == [j \in 1 .. n |-> r[j] * h[j]]
<1>1. Ints(x, n) /\ Ints(y, n)
  BY DEF Ints
<1>2. ASSUME NEW j \in 1 .. n PROVE z[j] = a * x[j] + b * y[j]
  <2> DEFINE p == r[j]  u == f[j]  v == g[j]
  <2>1. p \in Int /\ u \in Int /\ v \in Int
    BY DEF Ints
  <2>2. x[j] = p * u /\ y[j] = p * v /\ z[j] = p * (a * u + b * v)
    OBVIOUS
  <2> HIDE DEF p, u, v, x, y, z
  <2>3. p * (a * u + b * v) = a * (p * u) + b * (p * v)
    BY <2>1
  <2> QED
    BY <2>2, <2>3
<1> HIDE DEF x, y, z
<1>3. Sum(z, n) = a * Sum(x, n) + b * Sum(y, n)
  BY <1>1, <1>2, SumLinear
<1> QED
  BY <1>3 DEF Inner, x, y, z

\* and symmetric.
LEMMA InnerCommutes ==
  ASSUME NEW n \in Nat, NEW r, NEW f, Ints(r, n), Ints(f, n)
  PROVE  Inner(r, f, n) = Inner(f, r, n)
<1> DEFINE x == [j \in 1 .. n |-> r[j] * f[j]]  y == [j \in 1 .. n |-> f[j] * r[j]]
<1>1. Ints(x, n) /\ \A j \in 1 .. n : x[j] = y[j]
  BY DEF Ints
<1> HIDE DEF x, y
<1>2. Sum(x, n) = Sum(y, n)
  BY <1>1, SumEqual
<1> QED
  BY <1>2 DEF Inner, x, y

\* r (A f) = (r A) f
LEMMA InnerAssociative ==
  ASSUME NEW n \in Nat, NEW r, NEW A, NEW f, Ints(r, n), Ints(f, n), \A i \in 1 .. n : Ints(A[i], n)
  PROVE  Inner(r, [i \in 1 .. n |-> Inner(A[i], f, n)], n) = Inner([j \in 1 .. n |-> Inner(r, Column(A, j, n), n)], f, n)
<1> DEFINE t == [i \in 1 .. n |-> [j \in 1 .. n |-> r[i] * A[i][j] * f[j]]]
           x == [i \in 1 .. n |-> Sum(t[i], n)]
           y == [j \in 1 .. n |-> Sum([i \in 1 .. n |-> t[i][j]], n)]
           af == [i \in 1 .. n |-> Inner(A[i], f, n)]
           ra == [j \in 1 .. n |-> Inner(r, Column(A, j, n), n)]
<1>1. \A i \in 1 .. n : Ints(t[i], n)
  BY DEF Ints
<1>2. Sum(x, n) = Sum(y, n)
  <2> HIDE DEF t
  <2> QED
    BY <1>1, SumSwap
<1>3. ASSUME NEW i \in 1 .. n PROVE x[i] \in Int /\ x[i] = r[i] * af[i]
  <2> DEFINE p == r[i]  row == A[i]  term == [j \in 1 .. n |-> row[j] * f[j]]  ti == t[i]
  <2>1. p \in Int /\ Ints(term, n) /\ Ints(ti, n)
    BY <1>1 DEF Ints
  <2>2. \A j \in 1 .. n : ti[j] = p * term[j] + 0 * term[j]
    BY DEF Ints
  <2>3. x[i] = Sum(ti, n) /\ af[i] = Sum(term, n)
    BY DEF Inner
  <2> HIDE DEF p, row, term, ti, x, af
  <2>4. Sum(ti, n) = p * Sum(term, n) + 0 * Sum(term, n) /\ Sum(term, n) \in Int
    BY <2>1, <2>2, SumLinear, SumType
  <2>5. Sum(ti, n) = p * Sum(term, n) /\ Sum(ti, n) \in Int
    BY <2>1, <2>4
  <2> QED
    BY <2>3, <2>5 DEF p
<1>4. ASSUME NEW j \in 1 .. n PROVE y[j] \in Int /\ y[j] = ra[j] * f[j]
  <2> DEFINE p == f[j]  col == Column(A, j, n)  term == [i \in 1 .. n |-> r[i] * col[i]]
             tj == [i \in 1 .. n |-> t[i][j]]
  <2>1. p \in Int /\ Ints(term, n) /\ Ints(tj, n)
    BY <1>1 DEF Ints, Column
  <2>2. \A i \in 1 .. n : tj[i] = p * term[i] + 0 * term[i]
    BY DEF Ints, Column
  <2>3. y[j] = Sum(tj, n) /\ ra[j] = Sum(term, n)
    BY DEF Inner
  <2> HIDE DEF p, col, term, tj, y, ra
  <2>4. Sum(tj, n) = p * Sum(term, n) + 0 * Sum(term, n) /\ Sum(term, n) \in Int
    BY <2>1, <2>2, SumLinear, SumType
  <2>5. Sum(tj, n) = Sum(term, n) * p /\ Sum(tj, n) \in Int
    BY <2>1, <2>4
  <2> QED
    BY <2>3, <2>5 DEF p
<1> DEFINE X == [i \in 1 .. n |-> r[i] * af[i]]  Y == [j \in 1 .. n |-> ra[j] * f[j]]
<1>5. Ints(x, n) /\ \A i \in 1 .. n : x[i] = X[i]
  <2> HIDE DEF x, af
  <2> QED
    BY <1>3 DEF Ints
<1>6. Ints(y, n) /\ \A j \in 1 .. n : y[j] = Y[j]
  <2> HIDE DEF y, ra
  <2> QED
    BY <1>4 DEF Ints
<1> HIDE DEF x, y, X, Y, af, ra
<1>7. Sum(x, n) = Sum(X, n) /\ Sum(y, n) = Sum(Y, n)
  BY <1>5, <1>6, SumEqual
<1>8. Inner(r, af, n) = Sum(X, n) /\ Inner(ra, f, n) = Sum(Y, n)
  BY DEF Inner, X, Y
<1> QED
  BY <1>2, <1>7, <1>8 DEF af, ra

\* A is what forward substitution makes of a strictly lower L, and u = r + L u.
Solves(n, L, A, U, R) ==
  /\ \A i \in 1 .. n : Ints(L[i], n) /\ Ints(A[i], n)
  /\ Ints(U, n) /\ Ints(R, n)
  /\ \A i, j \in 1 .. n : j >= i => L[i][j] = 0
  /\ \A i, j \in 1 .. n : A[i][j] = L[i][j] + Inner(L[i], Column(A, j, n), n)
  /\ \A i \in 1 .. n : U[i] = R[i] + Inner(L[i], U, n)

\* Forward substitution solves u = r + L u for a strictly lower L.
LEMMA Solved ==
  ASSUME NEW n \in Nat, NEW L, NEW A, NEW U, NEW R, Solves(n, L, A, U, R)
  PROVE  \A i \in 1 .. n : U[i] = R[i] + Inner(A[i], R, n)
<1> DEFINE AR == [i \in 1 .. n |-> Inner(A[i], R, n)]
           V == [i \in 1 .. n |-> R[i] + AR[i]]
           P == {i \in Nat : i \in 1 .. n => U[i] = V[i]}
<1>0. /\ \A i \in 1 .. n : Ints(L[i], n) /\ Ints(A[i], n)
      /\ Ints(U, n) /\ Ints(R, n)
      /\ \A i, j \in 1 .. n : j >= i => L[i][j] = 0
      /\ \A i, j \in 1 .. n : A[i][j] = L[i][j] + Inner(L[i], Column(A, j, n), n)
      /\ \A i \in 1 .. n : U[i] = R[i] + Inner(L[i], U, n)
  BY DEF Solves
<1>1. Ints(AR, n)
  BY <1>0, InnerType DEF Ints
<1>2. Ints(V, n)
  BY <1>0, <1>1 DEF Ints
<1>3. \A j \in 1 .. n : Ints(Column(A, j, n), n)
  BY <1>0 DEF Ints, Column
<1>4. ASSUME NEW i \in Nat, \A m \in 0 .. i - 1 : m \in P PROVE i \in P
  <2>1. SUFFICES ASSUME i \in 1 .. n PROVE U[i] = V[i]
    OBVIOUS
  <2> DEFINE row == L[i]
  <2>2. Ints(row, n) /\ U[i] = R[i] + Inner(row, U, n)
    BY <1>0, <2>1
  <2>3. \A m \in 1 .. n : row[m] * U[m] = row[m] * V[m]
    <3>1. ASSUME NEW m \in 1 .. n PROVE row[m] * U[m] = row[m] * V[m]
      <4>1. CASE m < i
        <5>0. m \in 0 .. i - 1
          BY <4>1
        <5>1. m \in P
          <6> HIDE DEF P
          <6> QED
            BY <5>0, <1>4
        <5>2. U[m] = V[m]
          BY <5>1
        <5> QED
          BY <5>2
      <4>2. CASE m >= i
        <5>1. row[m] = 0 /\ U[m] \in Int /\ V[m] \in Int
          BY <1>0, <4>2, <2>1, <1>2 DEF Ints
        <5> HIDE DEF row, V
        <5> QED
          BY <5>1
      <4> QED
        BY <4>1, <4>2
    <3> QED
      BY <3>1
  <2> HIDE DEF row, V, AR
  <2>4. Inner(row, U, n) = Inner(row, V, n)
    BY <1>0, <1>2, <2>2, <2>3, InnerEqual
  <2>5. \A j \in 1 .. n : V[j] = 1 * R[j] + 1 * AR[j]
    BY <1>0, <1>1 DEF V, Ints
  <2>6. Inner(row, V, n) = 1 * Inner(row, R, n) + 1 * Inner(row, AR, n)
    BY <1>0, <1>1, <2>2, <2>5, InnerLinear
  <2> DEFINE LA == [j \in 1 .. n |-> Inner(row, Column(A, j, n), n)]
  <2>7. Inner(row, AR, n) = Inner(LA, R, n)
    BY <1>0, <2>2, InnerAssociative DEF AR
  <2>8. Ints(LA, n)
    BY <1>3, <2>2, InnerType DEF Ints
  <2>9. \A j \in 1 .. n : A[i][j] = 1 * row[j] + 1 * LA[j]
    <3>1. ASSUME NEW j \in 1 .. n PROVE A[i][j] = row[j] + LA[j] /\ row[j] \in Int /\ LA[j] \in Int
      BY <1>0, <2>1, <2>2, <2>8 DEF Ints, row
    <3> HIDE DEF LA
    <3> QED
      BY <3>1
  <2> HIDE DEF LA
  <2> DEFINE Ai == A[i]
  <2>10. Ints(Ai, n) /\ \A j \in 1 .. n : Ai[j] = 1 * row[j] + 1 * LA[j]
    BY <1>0, <2>1, <2>9
  <2>11. AR[i] = Inner(Ai, R, n)
    BY <2>1 DEF AR
  <2> HIDE DEF Ai
  <2>12. Inner(Ai, R, n) = Inner(R, Ai, n) /\ Inner(row, R, n) = Inner(R, row, n) /\ Inner(LA, R, n) = Inner(R, LA, n)
    BY <1>0, <2>2, <2>8, <2>10, InnerCommutes
  <2>13. Inner(R, Ai, n) = 1 * Inner(R, row, n) + 1 * Inner(R, LA, n)
    BY <1>0, <2>2, <2>8, <2>10, InnerLinear
  <2>14. Inner(R, row, n) \in Int /\ Inner(R, LA, n) \in Int /\ R[i] \in Int
    BY <1>0, <2>1, <2>2, <2>8, InnerType DEF Ints
  <2>15. V[i] = R[i] + AR[i]
    BY <2>1 DEF V
  <2> QED
    BY <2>2, <2>4, <2>6, <2>7, <2>11, <2>12, <2>13, <2>14, <2>15
<1> HIDE DEF P
<1>5. \A i \in Nat : i \in P
  BY <1>4, StrongInduction
<1>6. ASSUME NEW i \in 1 .. n PROVE U[i] = R[i] + Inner(A[i], R, n)
  <2>1. i \in P
    BY <1>5
  <2>2. U[i] = V[i] /\ V[i] = R[i] + AR[i] /\ AR[i] = Inner(A[i], R, n)
    BY <2>1 DEF P
  <2> HIDE DEF V, AR
  <2> QED
    BY <2>2
<1> QED
  BY <1>6

-----------------------------------------------------------------------------
(* One chunk.                                                                *)

\* S are the states that the rule for one token goes through in a chunk.
InChunk(x, S) ==
  /\ x \in Seq(Input) /\ Len(x) = ChunkSize
  /\ S \in [0 .. ChunkSize -> Vector]
  /\ \A i \in 1 .. ChunkSize : S[i] = RecurrentStep(S[i-1], x[i])

\* What every token of a chunk adds.
Gains(x, S) == [i \in 1 .. ChunkSize |-> Gain(S[i-1], x[i])]

\* What is left of the gains after i tokens, in the direction of y.
Left(x, S, y, i) == [j \in 1 .. i |-> DecayMask(x, i, j) * Gains(x, S)[j] * Dot(x[j].k, y)]

\* The types within a chunk.
LEMMA ChunkFacts ==
  ASSUME NEW x, NEW S, InChunk(x, S)
  PROVE  /\ ChunkSize \in Nat \ {0} /\ S[0] \in Vector
         /\ Ints(Gains(x, S), ChunkSize)
         /\ \A i \in 1 .. ChunkSize : /\ x[i] \in Input /\ S[i-1] \in Vector /\ S[i] \in Vector
                                      /\ x[i].q \in Vector /\ x[i].k \in Vector
                                      /\ x[i].v \in Int /\ x[i].beta \in Int /\ x[i].decay \in Int
                                      /\ Gains(x, S)[i] = Gain(S[i-1], x[i]) /\ Gains(x, S)[i] \in Int
<1>1. ChunkSize \in Nat \ {0}
  BY GatedDeltaAssumption
<1>2. S[0] \in Vector
  BY <1>1 DEF InChunk
<1>3. ASSUME NEW i \in 1 .. ChunkSize
      PROVE  /\ x[i] \in Input /\ S[i-1] \in Vector /\ S[i] \in Vector
             /\ x[i].q \in Vector /\ x[i].k \in Vector
             /\ x[i].v \in Int /\ x[i].beta \in Int /\ x[i].decay \in Int
             /\ Gains(x, S)[i] = Gain(S[i-1], x[i]) /\ Gains(x, S)[i] \in Int
  <2>1. x[i] \in Input /\ S[i-1] \in Vector /\ S[i] \in Vector
    BY <1>1 DEF InChunk
  <2>2. Gains(x, S)[i] = Gain(S[i-1], x[i])
    BY DEF Gains
  <2>3. Gain(S[i-1], x[i]) \in Int
    BY <2>1, StepIs
  <2> QED
    BY <2>1, <2>2, <2>3, InputFields
<1> QED
  BY <1>1, <1>2, <1>3 DEF Ints

\* The types of what the keys up to i leave in the state.
LEMMA LeftIs ==
  ASSUME NEW x, NEW S, InChunk(x, S), NEW y \in Vector, NEW i \in 0 .. ChunkSize
  PROVE  /\ Ints(Left(x, S, y, i), i) /\ DecayMask(x, i, 0) \in Int
         /\ \A j \in 1 .. i : /\ DecayMask(x, i, j) \in Int /\ Dot(x[j].k, y) \in Int
                              /\ Left(x, S, y, i)[j] = DecayMask(x, i, j) * Gains(x, S)[j] * Dot(x[j].k, y)
<1>1. x \in Seq(Input) /\ i \in 0 .. Len(x) /\ 0 \in 0 .. i
  BY ChunkFacts DEF InChunk
<1>2. ASSUME NEW j \in 1 .. i
      PROVE  /\ DecayMask(x, i, j) \in Int /\ Dot(x[j].k, y) \in Int /\ Gains(x, S)[j] \in Int
             /\ Left(x, S, y, i)[j] = DecayMask(x, i, j) * Gains(x, S)[j] * Dot(x[j].k, y)
  <2>1. j \in 0 .. i /\ j \in 1 .. ChunkSize
    BY ChunkFacts
  <2>2. DecayMask(x, i, j) \in Int
    BY <1>1, <2>1, DecayFacts
  <2>3. Gains(x, S)[j] \in Int /\ x[j].k \in Vector
    BY <2>1, ChunkFacts
  <2> QED
    BY <2>2, <2>3, VectorTypes DEF Left
<1>3. DecayMask(x, i, 0) \in Int
  BY <1>1, DecayFacts
<1>4. \A j \in 1 .. i : Left(x, S, y, i)[j] \in Int
  BY <1>2
<1> QED
  BY <1>2, <1>3, <1>4 DEF Ints

\* The state after i tokens, in the direction of y.
LEMMA StateAlong ==
  ASSUME NEW x, NEW S, InChunk(x, S), NEW y \in Vector, NEW i \in 0 .. ChunkSize
  PROVE  Dot(S[i], y) = DecayMask(x, i, 0) * Dot(S[0], y) + Sum(Left(x, S, y, i), i)
<1> DEFINE Is(n) == Dot(S[n], y) = DecayMask(x, n, 0) * Dot(S[0], y) + Sum(Left(x, S, y, n), n)
           P == {n \in Nat : n <= ChunkSize => Is(n)}
<1>1. ChunkSize \in Nat \ {0} /\ x \in Seq(Input) /\ Len(x) = ChunkSize
  BY ChunkFacts DEF InChunk
<1>2. Dot(S[0], y) \in Int
  BY ChunkFacts, VectorTypes
<1>3. 0 \in P
  <2>1. DecayMask(x, 0, 0) = 1
    BY <1>1, DecayFacts
  <2>2. Sum(Left(x, S, y, 0), 0) = 0
    BY SumOfNone
  <2> QED
    BY <1>2, <2>1, <2>2
<1>4. ASSUME NEW n \in Nat, n \in P PROVE n + 1 \in P
  <2>1. SUFFICES ASSUME n + 1 <= ChunkSize PROVE Is(n + 1)
    OBVIOUS
  <2> DEFINE m == n + 1  f == Left(x, S, y, n)  g == Left(x, S, y, m)  a == x[m].decay
             u == Gains(x, S)[m]  k == Dot(x[m].k, y)  s == Dot(S[0], y)  d == DecayMask(x, n, 0)
  <2>2. m \in 1 .. ChunkSize /\ n \in 0 .. ChunkSize /\ m - 1 = n /\ m = n + 1 /\ n < ChunkSize /\ m \in 0 .. ChunkSize
    BY <1>1, <2>1
  <2>3. Dot(S[n], y) = d * s + Sum(f, n)
    BY <1>4, <2>2
  <2> HIDE DEF m
  <2>4. x[m] \in Input /\ S[n] \in Vector /\ x[m].k \in Vector /\ a \in Int /\ u \in Int /\ k \in Int
    BY <2>2, ChunkFacts, VectorTypes
  <2>5. S[m] = RecurrentStep(S[n], x[m]) /\ u = Gain(S[n], x[m])
    BY <2>2, ChunkFacts DEF InChunk
  <2>6. Dot(S[m], y) = a * Dot(S[n], y) + u * k
    BY <2>4, <2>5, StepDot
  <2>7. ASSUME NEW j \in 0 .. n PROVE DecayMask(x, m, j) = DecayMask(x, n, j) * a /\ DecayMask(x, n, j) \in Int
    BY <1>1, <2>2, DecayFacts
  <2>8. DecayMask(x, m, 0) = d * a /\ d \in Int
    BY <2>2, <2>7
  <2>9. Ints(f, n) /\ Ints(g, n + 1) /\ Sum(f, n) \in Int
    BY <2>2, LeftIs, SumType
  <2>10. \A j \in 1 .. n : g[j] = a * f[j] + 0 * f[j]
    <3>1. ASSUME NEW j \in 1 .. n PROVE g[j] = a * f[j] + 0 * f[j]
      <4> DEFINE p == DecayMask(x, n, j)  q == Gains(x, S)[j]  r == Dot(x[j].k, y)
      <4>1. f[j] = p * q * r /\ r \in Int
        BY <2>2, LeftIs
      <4>2. j \in 1 .. m /\ j \in 1 .. ChunkSize /\ j \in 0 .. n
        BY <1>1, <2>2
      <4>3. g[j] = DecayMask(x, m, j) * q * r
        BY <2>2, <4>2, LeftIs
      <4>4. DecayMask(x, m, j) = p * a /\ p \in Int
        BY <4>2, <2>7
      <4>5. q \in Int
        BY <4>2, ChunkFacts
      <4> HIDE DEF f, g, a, p, q, r
      <4> QED
        BY <4>1, <4>3, <4>4, <4>5, <2>4
    <3> QED
      BY <3>1
  <2>11. g[m] = u * k
    <3>1. m \in 1 .. m
      BY <2>2
    <3>2. g[m] = DecayMask(x, m, m) * u * k
      BY <3>1, <2>2, LeftIs
    <3>3. DecayMask(x, m, m) = 1
      BY <1>1, <2>2, DecayFacts
    <3> QED
      BY <2>4, <3>2, <3>3
  <2> HIDE DEF f, g, a, u, k, s, d
  <2>12. Sum(g, n + 1) = Sum(g, n) + g[n + 1]
    BY <2>9, SumNext
  <2>13. Sum(g, n) = a * Sum(f, n) + 0 * Sum(f, n)
    BY <2>4, <2>9, <2>10, SumLinear
  <2>14. Sum(g, m) = a * Sum(f, n) + u * k
    BY <2>2, <2>4, <2>9, <2>11, <2>12, <2>13
  <2> DEFINE F == Sum(f, n)
  <2>15. a * (d * s + F) + u * k = (d * a) * s + (a * F + u * k)
    <3>1. F \in Int /\ a \in Int /\ d \in Int /\ s \in Int /\ u \in Int /\ k \in Int
      BY <1>2, <2>4, <2>8, <2>9 DEF s
    <3> HIDE DEF F
    <3> QED
      BY <3>1
  <2>16. Dot(S[m], y) = DecayMask(x, m, 0) * s + Sum(g, m)
    BY <2>3, <2>6, <2>8, <2>14, <2>15
  <2> QED
    BY <2>16 DEF m, s, g
<1> HIDE DEF P
<1>5. \A n \in Nat : n \in P
  BY <1>3, <1>4, Induction
<1> QED
  BY <1>1, <1>5 DEF P

\* attn before the substitution: the rows are zero from the diagonal on.
LEMMA LowerIs ==
  ASSUME NEW x, NEW S, InChunk(x, S), NEW i \in 1 .. ChunkSize
  PROVE  /\ Ints(Lower(x)[i], ChunkSize) /\ Lower(x)[i] \in [1 .. ChunkSize -> Int]
         /\ \A j \in 1 .. ChunkSize :
              Lower(x)[i][j] = IF j < i THEN -(x[i].beta * Dot(x[i].k, x[j].k) * DecayMask(x, i, j)) ELSE 0
<1>1. \A j \in 1 .. ChunkSize :
        Lower(x)[i][j] = IF j < i THEN -(x[i].beta * Dot(x[i].k, x[j].k) * DecayMask(x, i, j)) ELSE 0
  BY DEF Lower
<1>2. ASSUME NEW j \in 1 .. ChunkSize PROVE Lower(x)[i][j] \in Int
  <2>1. CASE j < i
    <3>1. x \in Seq(Input) /\ i \in 0 .. Len(x) /\ j \in 0 .. i
      BY <2>1, ChunkFacts DEF InChunk
    <3>2. DecayMask(x, i, j) \in Int
      BY <3>1, DecayFacts
    <3>3. x[i].beta \in Int /\ Dot(x[i].k, x[j].k) \in Int
      BY ChunkFacts, VectorTypes
    <3> QED
      BY <1>1, <2>1, <3>2, <3>3
  <2>2. CASE ~(j < i)
    BY <1>1, <2>2
  <2> QED
    BY <2>1, <2>2
<1>3. Lower(x)[i] \in [1 .. ChunkSize -> Int]
  BY <1>2 DEF Lower
<1> QED
  BY <1>1, <1>2, <1>3 DEF Ints

\* What a token adds if the state before the chunk is all there was.
Direct(x, S) ==
  [i \in 1 .. ChunkSize |-> x[i].beta * x[i].v - x[i].beta * DecayMask(x, i, 0) * Dot(S[0], x[i].k)]

\* What a token adds depends on what those before it in the chunk add.
LEMMA GainIs ==
  ASSUME NEW x, NEW S, InChunk(x, S), NEW i \in 1 .. ChunkSize
  PROVE  /\ Direct(x, S)[i] \in Int
         /\ Gains(x, S)[i] = Direct(x, S)[i] + Inner(Lower(x)[i], Gains(x, S), ChunkSize)
<1> DEFINE C == ChunkSize  y == x[i].k  n == i - 1  a == x[i].decay  b == x[i].beta  v == x[i].v
           U == Gains(x, S)  f == Left(x, S, y, n)  d == DecayMask(x, n, 0)  s == Dot(S[0], y)
           h == [j \in 1 .. C |-> Lower(x)[i][j] * U[j]]
           F == Sum(f, n)
<1>1. /\ C \in Nat \ {0} /\ n \in 0 .. C /\ n \in Nat /\ n + 1 = i /\ n < C /\ i \in 0 .. C
      /\ x \in Seq(Input) /\ Len(x) = C
  BY ChunkFacts DEF InChunk
<1>2. /\ y \in Vector /\ a \in Int /\ b \in Int /\ v \in Int /\ s \in Int /\ Ints(U, C)
      /\ x[i] \in Input /\ S[n] \in Vector
  BY ChunkFacts, VectorTypes
<1>3. U[i] = (v - a * Dot(S[n], y)) * b
  <2>1. U[i] = Gain(S[n], x[i])
    BY ChunkFacts
  <2> QED
    BY <2>1 DEF Gain
<1> HIDE DEF C, n
<1>4. Dot(S[n], y) = d * s + F
  BY <1>1, <1>2, StateAlong DEF C
<1>5. /\ Ints(f, n) /\ F \in Int /\ d \in Int
      /\ \A j \in 1 .. n : /\ Dot(x[j].k, y) \in Int
                          /\ f[j] = DecayMask(x, n, j) * U[j] * Dot(x[j].k, y)
  <2>1. n \in 0 .. ChunkSize
    BY <1>1 DEF C
  <2> HIDE DEF y
  <2>2. /\ Ints(f, n) /\ d \in Int
        /\ \A j \in 1 .. n : /\ Dot(x[j].k, y) \in Int
                            /\ f[j] = DecayMask(x, n, j) * U[j] * Dot(x[j].k, y)
    BY <1>2, <2>1, LeftIs
  <2> HIDE DEF f, d, U
  <2>3. F \in Int
    BY <1>1, <2>2, SumType
  <2> QED
    BY <2>2, <2>3
<1>6. ASSUME NEW j \in 0 .. n PROVE DecayMask(x, i, j) = DecayMask(x, n, j) * a /\ DecayMask(x, n, j) \in Int
  BY <1>1, DecayFacts DEF C
<1>7. DecayMask(x, i, 0) = d * a
  BY <1>1, <1>6
<1>8. \A j \in 1 .. n : h[j] = (-(b * a)) * f[j] + 0 * f[j]
  <2>1. ASSUME NEW j \in 1 .. n PROVE h[j] = (-(b * a)) * f[j] + 0 * f[j]
    <3> DEFINE p == DecayMask(x, n, j)  q == U[j]  r == Dot(x[j].k, y)
    <3>1. f[j] = p * q * r /\ r \in Int
      BY <1>5
    <3>2. j \in 1 .. C /\ j \in 0 .. n /\ j < i
      BY <1>1
    <3>3. DecayMask(x, i, j) = p * a /\ p \in Int /\ q \in Int
      BY <1>2, <1>6, <3>2 DEF Ints
    <3>4. Dot(x[i].k, x[j].k) = r
      <4>1. x[j].k \in Vector
        BY <3>2, ChunkFacts DEF C
      <4> QED
        BY <1>2, <4>1, DotCommutes
    <3>5. Lower(x)[i][j] = -(b * r * (p * a))
      BY <3>2, <3>3, <3>4, LowerIs DEF C
    <3>6. h[j] = (-(b * r * (p * a))) * q
      <4> DEFINE l == Lower(x)[i][j]
      <4>1. h[j] = l * q
        BY <3>2
      <4> HIDE DEF l, h, q
      <4>2. l = -(b * r * (p * a))
        BY <3>5 DEF l
      <4> QED
        BY <4>1, <4>2
    <3> HIDE DEF f, h, p, q, r, a, b
    <3>7. (-(b * r * (p * a))) * q = (-(b * a)) * (p * q * r) + 0 * (p * q * r)
      BY <1>2, <3>1, <3>3
    <3> QED
      BY <3>1, <3>6, <3>7
  <2> QED
    BY <2>1
<1>9. Ints(h, C) /\ \A j \in n + 1 .. C : h[j] = 0
  <2>1. ASSUME NEW j \in 1 .. C PROVE h[j] \in Int /\ (j > n => h[j] = 0)
    <3>1. Lower(x)[i][j] \in Int /\ U[j] \in Int
      BY <1>2, LowerIs DEF Ints, C
    <3>2. j > n => Lower(x)[i][j] = 0
      BY <1>1, LowerIs DEF C
    <3> DEFINE l == Lower(x)[i][j]  u == U[j]
    <3>3. h[j] = l * u
      OBVIOUS
    <3> HIDE DEF h, l, u
    <3> QED
      BY <3>1, <3>2, <3>3 DEF l, u
  <2>2. \A j \in n + 1 .. C : j \in 1 .. C /\ j > n
    BY <1>1
  <2> HIDE DEF h
  <2> QED
    BY <2>1, <2>2 DEF Ints
<1>10. Inner(Lower(x)[i], U, C) = Sum(h, C)
  BY DEF Inner
<1>11. Sum(h, n) = (-(b * a)) * F + 0 * F
  <2> DEFINE c == -(b * a)
  <2>1. c \in Int /\ n \in Nat /\ Ints(f, n)
    BY <1>1, <1>2, <1>5
  <2>2. \A j \in 1 .. n : h[j] = c * f[j] + 0 * f[j]
    BY <1>8
  <2> HIDE DEF h, f, c
  <2>3. Sum(h, n) = c * Sum(f, n) + 0 * Sum(f, n)
    BY <2>1, <2>2, SumLinear
  <2> QED
    BY <2>3 DEF c
<1> HIDE DEF h, f, F, d, s, a, b, v, U, y
<1>12. Sum(h, C) = Sum(h, n)
  BY <1>1, <1>9, SumTail
<1>13. Direct(x, S)[i] = b * v - b * (d * a) * s
  BY <1>1, <1>7 DEF Direct, b, v, s, y, C
<1>14. (v - a * (d * s + F)) * b = (b * v - b * (d * a) * s) + ((-(b * a)) * F)
  BY <1>2, <1>5
<1>15. b * v - b * (d * a) * s \in Int /\ 0 * F = 0
  BY <1>2, <1>5
<1>16. (-(b * a)) * F \in Int
  BY <1>2, <1>5
<1>17. U[i] = Direct(x, S)[i] + Inner(Lower(x)[i], U, C)
  BY <1>3, <1>4, <1>10, <1>11, <1>12, <1>13, <1>14, <1>15, <1>16
<1> QED
  BY <1>13, <1>15, <1>17 DEF U, C

-----------------------------------------------------------------------------
(* Forward substitution.                                                     *)

\* The matrix attn.
Rows == [1 .. ChunkSize -> [1 .. ChunkSize -> Int]]

\* One row is replaced.
LEMMA NextRowIs ==
  ASSUME NEW M \in Rows, NEW i \in 1 .. ChunkSize - 1
  PROVE  /\ NextRow(M, i) \in Rows
         /\ \A r \in 1 .. ChunkSize : r # i + 1 => NextRow(M, i)[r] = M[r]
         /\ \A j \in 1 .. ChunkSize :
              NextRow(M, i)[i+1][j] =
                M[i+1][j] + IF j <= i THEN Sum([m \in 1 .. i |-> M[i+1][m] * M[m][j]], i) ELSE 0
<1> DEFINE f(j) == [m \in 1 .. i |-> M[i+1][m] * M[m][j]]
           T(j) == Sum(f(j), i)
           row == [j \in 1 .. ChunkSize |-> M[i+1][j] + IF j <= i THEN T(j) ELSE 0]
<1>0. ChunkSize \in Nat \ {0}
  BY GatedDeltaAssumption
<1>00. i + 1 \in 1 .. ChunkSize /\ \A r, j \in 1 .. ChunkSize : M[r][j] \in Int
  BY <1>0 DEF Rows
<1>1. \A j \in 1 .. ChunkSize : T(j) \in Int
  <2>1. ASSUME NEW j \in 1 .. ChunkSize PROVE Ints(f(j), i)
    <3>1. ASSUME NEW m \in 1 .. i PROVE f(j)[m] \in Int
      <4>1. M[i+1][m] \in Int /\ M[m][j] \in Int
        <5>1. m \in 1 .. ChunkSize
          BY <1>0
        <5> QED
          BY <1>00, <5>1
      <4>2. f(j)[m] = M[i+1][m] * M[m][j]
        OBVIOUS
      <4> HIDE DEF f
      <4> QED
        BY <4>1, <4>2
    <3> QED
      BY <3>1 DEF Ints
  <2> HIDE DEF f
  <2> QED
    BY <1>0, <2>1, SumType
<1>2. NextRow(M, i) = [M EXCEPT ![i+1] = row]
  BY DEF NextRow
<1> HIDE DEF T
<1>3. row \in [1 .. ChunkSize -> Int]
  BY <1>00, <1>1
<1>4. row = [j \in 1 .. ChunkSize |-> M[i+1][j] + IF j <= i THEN T(j) ELSE 0]
  OBVIOUS
<1> HIDE DEF row
<1>5. /\ NextRow(M, i) \in Rows
      /\ \A r \in 1 .. ChunkSize : r # i + 1 => NextRow(M, i)[r] = M[r]
      /\ NextRow(M, i)[i+1] = row
  <2> DEFINE S == [1 .. ChunkSize -> Int]  k == i + 1  new == [M EXCEPT ![k] = row]
  <2>1. M \in [1 .. ChunkSize -> S] /\ row \in S /\ k \in 1 .. ChunkSize
    BY <1>00, <1>3 DEF Rows
  <2> HIDE DEF S, k
  <2>2. /\ new \in [1 .. ChunkSize -> S]
        /\ \A r \in 1 .. ChunkSize : r # k => new[r] = M[r]
        /\ new[k] = row
    BY <2>1
  <2> QED
    BY <1>2, <2>2 DEF Rows, S, k
<1>6. \A j \in 1 .. ChunkSize : row[j] = M[i+1][j] + IF j <= i THEN T(j) ELSE 0
  BY <1>4
<1> QED
  BY <1>5, <1>6 DEF T

\* Every row follows from those before it.
LEMMA SubstitutedIs ==
  ASSUME NEW x, NEW S, InChunk(x, S)
  PROVE  \E A \in Rows :
           /\ \A i, j \in 1 .. ChunkSize :
                A[i][j] = Lower(x)[i][j] + Inner(Lower(x)[i], Column(A, j, ChunkSize), ChunkSize)
           /\ \A i, j \in 1 .. ChunkSize : Substituted(x)[i][j] = A[i][j] + IF j = i THEN 1 ELSE 0
<1> DEFINE C == ChunkSize  N == C - 1  L == Lower(x)
           step == [i \in 1 .. N |-> [M \in Rows |-> NextRow(M, i)]]
           Eq(f) == f = [i \in 0 .. N |-> IF i = 0 THEN L ELSE NextRow(f[i-1], i)]
<1>1. C \in Nat \ {0} /\ N \in Nat
  BY ChunkFacts
<1>2. L \in Rows /\ \A i, j \in 1 .. C : j >= i => L[i][j] = 0
  <2>1. \A i \in 1 .. C : L[i] \in [1 .. C -> Int]
    BY LowerIs
  <2>2. \A i, j \in 1 .. C : j >= i => L[i][j] = 0
    BY LowerIs
  <2> QED
    BY <2>1, <2>2 DEF Lower, Rows
<1>3. \A i \in 1 .. N : \A M \in Rows : NextRow(M, i) \in Rows
  BY NextRowIs
<1>4. PICK T : Iterates(T, N, Rows, L, step)
  <2>1. Steps(step, N, Rows)
    BY <1>3 DEF Steps
  <2> HIDE DEF step, L, N
  <2> QED
    BY <1>1, <1>2, <2>1, Primitive
<1>5. T \in [0 .. N -> Rows] /\ T[0] = L
  BY <1>4 DEF Iterates
<1> HIDE DEF L, N
<1>6. \A i \in 1 .. N : T[i-1] \in Rows /\ T[i] = NextRow(T[i-1], i)
  <2>1. \A i \in 1 .. N : T[i-1] \in Rows /\ step[i] = [M \in Rows |-> NextRow(M, i)]
    BY <1>1, <1>5
  <2>2. \A i \in 1 .. N : T[i] = step[i][T[i-1]]
    BY <1>4 DEF Iterates
  <2> HIDE DEF step
  <2> QED
    BY <2>1, <2>2
<1>7. Eq(T)
  BY <1>1, <1>5, <1>6
<1>8. PICK f : /\ Eq(f)
               /\ Substituted(x) = [i \in 1 .. C |-> [j \in 1 .. C |-> f[N][i][j] + IF j = i THEN 1 ELSE 0]]
  BY <1>7 DEF Substituted, L, N
<1>9. \A i \in 0 .. N : T[i] = f[i]
  <2>1. f[0] = L /\ \A i \in 1 .. N : f[i] = NextRow(f[i-1], i)
    <3>1. Eq(f)
      BY <1>8
    <3> QED
      BY <1>1, <3>1
  <2>2. SameSteps(T, f, N)
    BY <1>5, <1>6, <2>1 DEF SameSteps
  <2> HIDE DEF Eq
  <2> QED
    BY <1>1, <2>2, SameBeginning
<1> DEFINE A == T[N]
<1>10. A \in Rows
  BY <1>1, <1>5
<1>11. \A i, j \in 1 .. C : Substituted(x)[i][j] = A[i][j] + IF j = i THEN 1 ELSE 0
  <2>1. f[N] = T[N]
    BY <1>1, <1>9
  <2> QED
    BY <1>8, <2>1
<1>12. ASSUME NEW i \in 1 .. N
       PROVE  /\ \A r \in 1 .. C : r # i + 1 => T[i][r] = T[i-1][r]
              /\ \A j \in 1 .. C : T[i][i+1][j] = T[i-1][i+1][j] + IF j <= i THEN Sum([m \in 1 .. i |-> T[i-1][i+1][m] * T[i-1][m][j]], i) ELSE 0
  <2> DEFINE M == T[i-1]
  <2>1. M \in Rows /\ T[i] = NextRow(M, i) /\ i \in 1 .. ChunkSize - 1
    BY <1>6 DEF N
  <2> HIDE DEF M
  <2>2. /\ \A r \in 1 .. C : r # i + 1 => NextRow(M, i)[r] = M[r]
        /\ \A j \in 1 .. C :
              NextRow(M, i)[i+1][j] = M[i+1][j] + IF j <= i THEN Sum([m \in 1 .. i |-> M[i+1][m] * M[m][j]], i) ELSE 0
    BY <2>1, NextRowIs
  <2> QED
    BY <2>1, <2>2 DEF M
\* A row is as it was until its turn.
<1>13. \A i \in 0 .. N : \A r \in i + 2 .. C : T[i][r] = L[r]
  <2> DEFINE P == {i \in Nat : i <= N => \A r \in i + 2 .. C : T[i][r] = L[r]}
  <2>1. 0 \in P
    BY <1>5
  <2>2. ASSUME NEW n \in Nat, n \in P PROVE n + 1 \in P
    <3>1. SUFFICES ASSUME n + 1 <= N, NEW r \in (n + 1) + 2 .. C PROVE T[n + 1][r] = L[r]
      OBVIOUS
    <3>2. n + 1 \in 1 .. N /\ r \in 1 .. C /\ r # (n + 1) + 1 /\ (n + 1) - 1 = n /\ n <= N /\ r \in n + 2 .. C
      BY <1>1, <3>1
    <3>3. T[n + 1][r] = T[(n + 1) - 1][r]
      BY <1>12, <3>2
    <3>4. T[n][r] = L[r]
      BY <2>2, <3>2
    <3> QED
      BY <3>2, <3>3, <3>4
  <2> HIDE DEF P
  <2>3. \A n \in Nat : n \in P
    BY <2>1, <2>2, Induction
  <2> QED
    BY <1>1, <2>3 DEF P
\* And keeps what it got.
<1>14. \A r \in 1 .. C : \A i \in r - 1 .. N : T[i][r] = T[r-1][r]
  <2>1. SUFFICES ASSUME NEW r \in 1 .. C PROVE \A i \in r - 1 .. N : T[i][r] = T[r-1][r]
    OBVIOUS
  <2> DEFINE P == {i \in Nat : (r - 1 <= i /\ i <= N) => T[i][r] = T[r-1][r]}
  <2>2. 0 \in P
    <3>1. r - 1 <= 0 => r - 1 = 0
      OBVIOUS
    <3> QED
      BY <3>1
  <2>3. ASSUME NEW n \in Nat, n \in P PROVE n + 1 \in P
    <3>1. SUFFICES ASSUME r - 1 <= n + 1, n + 1 <= N PROVE T[n + 1][r] = T[r-1][r]
      OBVIOUS
    <3>2. CASE r - 1 = n + 1
      BY <3>2
    <3>3. CASE r - 1 <= n
      <4>1. n + 1 \in 1 .. N /\ r # (n + 1) + 1 /\ (n + 1) - 1 = n /\ n <= N
        BY <1>1, <3>1, <3>3
      <4>2. T[n + 1][r] = T[(n + 1) - 1][r]
        BY <1>12, <4>1
      <4>3. T[n][r] = T[r-1][r]
        BY <2>3, <3>3, <4>1
      <4> QED
        BY <4>1, <4>2, <4>3
    <3> QED
      BY <3>1, <3>2, <3>3
  <2> HIDE DEF P
  <2>4. \A n \in Nat : n \in P
    BY <2>2, <2>3, Induction
  <2>5. \A i \in r - 1 .. N : i \in Nat
    OBVIOUS
  <2> QED
    BY <2>4, <2>5 DEF P
<1>15. \A r \in 1 .. C : r - 1 \in 0 .. N /\ A[r] = T[r-1][r]
  BY <1>1, <1>14 DEF N
<1> DEFINE Before(r, j) == Sum([m \in 1 .. r - 1 |-> L[r][m] * A[m][j]], r - 1)
<1>16. ASSUME NEW r \in 1 .. C, NEW j \in 1 .. C
       PROVE  A[r][j] = L[r][j] + IF j <= r - 1 THEN Before(r, j) ELSE 0
  <2>1. CASE r = 1
    <3>1. A[r] = L[r]
      BY <1>5, <1>15, <2>1
    <3>2. L[r][j] \in Int /\ ~(j <= r - 1)
      BY <1>2, <2>1 DEF Rows
    <3> HIDE DEF Before
    <3> QED
      BY <3>1, <3>2
  <2>2. CASE r > 1
    <3> DEFINE i == r - 1
    <3>1. i \in 1 .. N /\ i + 1 = r /\ r \in (i - 1) + 2 .. C /\ i - 1 \in 0 .. N
      BY <1>1, <2>2 DEF N
    <3> HIDE DEF i
    <3>2. A[r] = T[i][i+1] /\ T[i-1][i+1] = L[r]
      BY <1>13, <1>15, <3>1 DEF i
    <3>3. \A m \in 1 .. i : T[i-1][m] = A[m]
      <4>1. ASSUME NEW m \in 1 .. i PROVE T[i-1][m] = A[m]
        <5>1. m \in 1 .. C /\ i - 1 \in m - 1 .. N
          BY <1>1, <3>1
        <5> HIDE DEF A
        <5> QED
          BY <1>14, <1>15, <5>1
      <4> QED
        BY <4>1
    <3>4. T[i][i+1][j] = L[r][j] + IF j <= i THEN Sum([m \in 1 .. i |-> L[r][m] * T[i-1][m][j]], i) ELSE 0
      BY <1>12, <3>1, <3>2
    <3>5. [m \in 1 .. i |-> L[r][m] * T[i-1][m][j]] = [m \in 1 .. i |-> L[r][m] * A[m][j]]
      BY <3>3
    <3> HIDE DEF A
    <3> QED
      BY <3>2, <3>4, <3>5 DEF i
  <2> QED
    BY <2>1, <2>2
<1>17. \A m, j \in 1 .. C : j >= m => A[m][j] = 0
  <2>1. ASSUME NEW m \in 1 .. C, NEW j \in 1 .. C, j >= m PROVE A[m][j] = 0
    <3>1. L[m][j] = 0 /\ ~(j <= m - 1)
      BY <1>2, <2>1
    <3> HIDE DEF Before, A
    <3> QED
      BY <1>16, <3>1
  <2> QED
    BY <2>1
<1>18. ASSUME NEW i \in 1 .. C, NEW j \in 1 .. C
       PROVE  A[i][j] = L[i][j] + Inner(L[i], Column(A, j, C), C)
  <2> DEFINE g == [m \in 1 .. C |-> L[i][m] * A[m][j]]
             h == [m \in 1 .. i - 1 |-> L[i][m] * A[m][j]]
             k == i - 1
  <2>0. k \in 0 .. C /\ k \in Nat /\ C \in Nat
    BY <1>1
  <2>1. Inner(L[i], Column(A, j, C), C) = Sum(g, C)
    <3> DEFINE e == [m \in 1 .. C |-> L[i][m] * Column(A, j, C)[m]]
    <3>1. e = g
      BY DEF Column
    <3>2. Inner(L[i], Column(A, j, C), C) = Sum(e, C)
      BY DEF Inner
    <3> QED
      BY <3>1, <3>2
  <2>2. \A a \in 1 .. C : L[i][a] \in Int /\ A[a][j] \in Int
    BY <1>2, <1>10 DEF Rows
  <2> HIDE DEF A
  <2>3. Ints(g, C) /\ Ints(h, k)
    BY <2>0, <2>2 DEF Ints
  <2>4. \A m \in k + 1 .. C : g[m] = 0
    <3>1. ASSUME NEW m \in k + 1 .. C PROVE g[m] = 0
      <4>1. m \in 1 .. C /\ m >= i
        BY <1>1
      <4>2. L[i][m] = 0 /\ A[m][j] \in Int
        BY <1>2, <2>2, <4>1
      <4>3. 0 * A[m][j] = 0
        BY <4>2
      <4> QED
        BY <4>1, <4>2, <4>3
    <3> QED
      BY <3>1
  <2>5. \A m \in 1 .. k : h[m] = g[m]
    BY <1>1
  <2>6. Before(i, j) = Sum(h, k)
    OBVIOUS
  <2> HIDE DEF g, h, k, Before
  <2>7. Sum(g, C) = Sum(g, k)
    BY <2>0, <2>3, <2>4, SumTail
  <2>8. Sum(h, k) = Sum(g, k)
    BY <2>0, <2>3, <2>5, SumEqual
  <2>9. CASE j <= i - 1
    BY <1>16, <2>1, <2>6, <2>7, <2>8, <2>9
  <2>10. CASE ~(j <= i - 1)
    <3>1. \A m \in 1 .. k : h[m] = 0
      <4>1. ASSUME NEW m \in 1 .. k PROVE h[m] = 0
        <5>1. m \in 1 .. C /\ j >= m
          BY <1>1, <2>10 DEF k
        <5>2. A[m][j] = 0 /\ L[i][m] \in Int
          BY <1>17, <2>2, <5>1
        <5>3. h[m] = L[i][m] * A[m][j]
          BY DEF h, k
        <5>4. L[i][m] * 0 = 0
          BY <5>2
        <5> QED
          BY <5>2, <5>3, <5>4
      <4> QED
        BY <4>1
    <3>2. Sum(h, k) = Sum(h, 0)
      <4>1. 0 \in 0 .. k /\ \A m \in 0 + 1 .. k : h[m] = 0
        BY <2>0, <3>1
      <4> QED
        BY <2>0, <2>3, <4>1, SumTail
    <3>3. Sum(h, k) = 0
      BY <3>2, SumOfNone
    <3> QED
      BY <1>16, <2>1, <2>7, <2>8, <2>10, <3>3
  <2> QED
    BY <2>9, <2>10
<1> HIDE DEF A
<1> QED
  BY <1>10, <1>11, <1>18 DEF L

-----------------------------------------------------------------------------
(* What a chunk computes is what the rule for one token does.                *)

\* A row of A plus the identity.
LEMMA PlusIdentity ==
  ASSUME NEW n \in Nat, NEW r, NEW a, NEW f, NEW i \in 1 .. n, Ints(a, n), Ints(f, n),
         \A j \in 1 .. n : r[j] = a[j] + IF j = i THEN 1 ELSE 0
  PROVE  Inner(r, f, n) = Inner(a, f, n) + f[i] /\ Ints(r, n)
<1> DEFINE e == [j \in 1 .. n |-> IF j = i THEN 1 ELSE 0]
           g == [j \in 1 .. n |-> f[j] * e[j]]
<1>1. Ints(e, n) /\ Ints(r, n)
  BY DEF Ints
<1>2. \A j \in 1 .. n : r[j] = 1 * a[j] + 1 * e[j]
  BY DEF Ints
<1>3. f[i] \in Int /\ \A j \in 1 .. n : f[j] \in Int
  BY DEF Ints
<1>4. g[i] = f[i] /\ \A j \in 1 .. n : j # i => g[j] = 0
  BY <1>3
<1>5. Inner(f, e, n) = Sum(g, n)
  BY DEF Inner
<1> HIDE DEF e, g
<1>6. Sum(g, n) = g[i]
  BY <1>3, <1>4, SumOfOne
<1>7. Inner(f, r, n) = 1 * Inner(f, a, n) + 1 * Inner(f, e, n)
  BY <1>1, <1>2, InnerLinear
<1>8. Inner(r, f, n) = Inner(f, r, n) /\ Inner(a, f, n) = Inner(f, a, n)
  BY <1>1, InnerCommutes
<1>9. Inner(f, a, n) \in Int
  BY InnerType
<1> QED
  BY <1>1, <1>3, <1>4, <1>5, <1>6, <1>7, <1>8, <1>9

\* v_new are the amounts that the rule for one token adds to its states.
LEMMA NewValuesAre ==
  ASSUME NEW x, NEW S, InChunk(x, S)
  PROVE  NewValues(S[0], x, Substituted(x)) = Gains(x, S)
<1> DEFINE C == ChunkSize  L == Lower(x)  U == Gains(x, S)  R == Direct(x, S)  T == Substituted(x)
           s == S[0]
           vBeta == [j \in 1 .. C |-> x[j].v * x[j].beta]
           k1 == [j \in 1 .. C |-> x[j].k[1] * x[j].beta * DecayMask(x, j, 0)]
           k2 == [j \in 1 .. C |-> x[j].k[2] * x[j].beta * DecayMask(x, j, 0)]
           V(i) == Inner(T[i], vBeta, C) - Dot(<<Inner(T[i], k1, C), Inner(T[i], k2, C)>>, s)
<1>1. C \in Nat \ {0} /\ C \in Nat /\ s[1] \in Int /\ s[2] \in Int /\ Ints(U, C)
  BY ChunkFacts DEF Vector
<1>2. NewValues(s, x, T) = [i \in 1 .. C |-> V(i)]
  BY DEF NewValues, Inner
<1>3. PICK A \in Rows : /\ \A i, j \in 1 .. C : A[i][j] = L[i][j] + Inner(L[i], Column(A, j, C), C)
                        /\ \A i, j \in 1 .. C : T[i][j] = A[i][j] + IF j = i THEN 1 ELSE 0
  BY SubstitutedIs
<1>4. \A i \in 1 .. C : Ints(L[i], C) /\ \A j \in 1 .. C : j >= i => L[i][j] = 0
  BY LowerIs
<1>5. \A i \in 1 .. C : R[i] \in Int /\ U[i] = R[i] + Inner(L[i], U, C)
  BY GainIs
<1>6. \A i \in 1 .. C : Ints(A[i], C)
  BY DEF Ints, Rows
<1>7. \A j \in 1 .. C : DecayMask(x, j, 0) \in Int /\ x[j].k \in Vector /\ x[j].v \in Int /\ x[j].beta \in Int
  <2>1. ASSUME NEW j \in 1 .. C PROVE DecayMask(x, j, 0) \in Int
    <3>1. x \in Seq(Input) /\ j \in 0 .. Len(x) /\ 0 \in 0 .. j
      BY <1>1 DEF InChunk
    <3> QED
      BY <3>1, DecayFacts
  <2> QED
    BY <2>1, ChunkFacts
<1>8. Ints(vBeta, C) /\ Ints(k1, C) /\ Ints(k2, C)
  <2>1. ASSUME NEW j \in 1 .. C PROVE vBeta[j] \in Int /\ k1[j] \in Int /\ k2[j] \in Int
    <3>1. x[j].k[1] \in Int /\ x[j].k[2] \in Int /\ DecayMask(x, j, 0) \in Int /\ x[j].v \in Int /\ x[j].beta \in Int
      BY <1>7 DEF Vector
    <3> QED
      BY <3>1
  <2> QED
    BY <2>1 DEF Ints
<1> DEFINE W == [j \in 1 .. C |-> vBeta[j] + (-(s[1])) * k1[j]]
<1>9. Ints(W, C)
  <2> HIDE DEF vBeta, k1, s
  <2> QED
    BY <1>1, <1>8 DEF Ints
<1>10. \A j \in 1 .. C : W[j] = 1 * vBeta[j] + (-(s[1])) * k1[j]
  <2> HIDE DEF vBeta, k1, s
  <2> QED
    BY <1>1, <1>8 DEF Ints
<1>11. \A j \in 1 .. C : R[j] = 1 * W[j] + (-(s[2])) * k2[j]
  <2>1. ASSUME NEW j \in 1 .. C PROVE R[j] = 1 * W[j] + (-(s[2])) * k2[j]
    <3> DEFINE b == x[j].beta  v == x[j].v  d == DecayMask(x, j, 0)  p == x[j].k[1]  q == x[j].k[2]  s1 == s[1]  s2 == s[2]
    <3>1. b \in Int /\ v \in Int /\ d \in Int /\ p \in Int /\ q \in Int /\ s1 \in Int /\ s2 \in Int
      BY <1>1, <1>7 DEF Vector
    <3>2. R[j] = b * v - b * d * (s1 * p + s2 * q)
      BY DEF Direct, Dot
    <3>3. W[j] = v * b + (-s1) * (p * b * d) /\ k2[j] = q * b * d
      OBVIOUS
    <3> HIDE DEF b, v, d, p, q, s1, W, k2, R, s2
    <3>4. b * v - b * d * (s1 * p + s2 * q) = 1 * (v * b + (-s1) * (p * b * d)) + (-s2) * (q * b * d)
      BY <3>1
    <3> QED
      BY <3>2, <3>3, <3>4 DEF s2
  <2> QED
    BY <2>1
<1>12. Ints(R, C)
  BY <1>5 DEF Ints
<1>13. \A i, j \in 1 .. C : j >= i => L[i][j] = 0
  BY <1>4
<1> HIDE DEF L, U, R, T, C, vBeta, k1, k2, W
<1>14. \A i \in 1 .. C : U[i] = R[i] + Inner(A[i], R, C)
  <2>1. \A i \in 1 .. C : Ints(L[i], C) /\ Ints(A[i], C)
    BY <1>4, <1>6
  <2>2. \A i \in 1 .. C : U[i] = R[i] + Inner(L[i], U, C)
    BY <1>5
  <2> QED
    <3>1. Solves(C, L, A, U, R)
      BY <1>1, <1>3, <1>12, <1>13, <2>1, <2>2 DEF Solves
    <3> QED
      BY <1>1, <3>1, Solved
<1>15. ASSUME NEW i \in 1 .. C PROVE V(i) = U[i]
  <2> DEFINE t == T[i]  a == A[i]
  <2>1. Ints(a, C) /\ \A j \in 1 .. C : t[j] = a[j] + IF j = i THEN 1 ELSE 0
    BY <1>3, <1>6
  <2> HIDE DEF t, a
  <2>2. Inner(t, R, C) = Inner(a, R, C) + R[i] /\ Ints(t, C)
    BY <1>1, <1>12, <2>1, PlusIdentity
  <2>3. Inner(t, W, C) = 1 * Inner(t, vBeta, C) + (-(s[1])) * Inner(t, k1, C)
    <3> DEFINE c == -(s[1])  one == 1
    <3>1. c \in Int /\ one \in Int /\ \A j \in 1 .. C : W[j] = one * vBeta[j] + c * k1[j]
      BY <1>1, <1>10
    <3> HIDE DEF c, one
    <3>2. Inner(t, W, C) = one * Inner(t, vBeta, C) + c * Inner(t, k1, C)
      BY <1>1, <1>8, <2>2, <3>1, InnerLinear
    <3> QED
      BY <3>2 DEF c, one
  <2>4. Inner(t, R, C) = 1 * Inner(t, W, C) + (-(s[2])) * Inner(t, k2, C)
    <3> DEFINE c == -(s[2])
    <3>1. c \in Int /\ \A j \in 1 .. C : R[j] = 1 * W[j] + c * k2[j]
      BY <1>1, <1>11
    <3> HIDE DEF c
    <3>2. Inner(t, R, C) = 1 * Inner(t, W, C) + c * Inner(t, k2, C)
      BY <1>1, <1>8, <1>9, <2>2, <3>1, InnerLinear
    <3> QED
      BY <3>2 DEF c
  <2> DEFINE p == Inner(t, vBeta, C)  q == Inner(t, k1, C)  r == Inner(t, k2, C)  s1 == s[1]  s2 == s[2]
             w == Inner(t, W, C)  z == Inner(t, R, C)
  <2>5. p \in Int /\ q \in Int /\ r \in Int /\ s1 \in Int /\ s2 \in Int
    BY <1>1, <1>8, <2>2, InnerType
  <2>6. V(i) = p - (q * s1 + r * s2)
    BY DEF Dot, t
  <2>7. w = 1 * p + (-s1) * q /\ z = 1 * w + (-s2) * r
    BY <2>3, <2>4
  <2>8. z = Inner(a, R, C) + R[i]
    BY <2>2
  <2>9. Inner(a, R, C) \in Int /\ R[i] \in Int
    BY <1>1, <1>5, <1>12, <2>1, InnerType
  <2>10. U[i] = R[i] + Inner(a, R, C)
    BY <1>14 DEF a
  <2> HIDE DEF p, q, r, s1, s2, w, z, V
  <2>11. z = p - (q * s1 + r * s2)
    BY <2>5, <2>7
  <2> QED
    BY <2>6, <2>8, <2>9, <2>10, <2>11
<1>16. U = [i \in 1 .. C |-> U[i]]
  BY DEF U, Gains, C
<1> HIDE DEF V
<1>17. [i \in 1 .. C |-> V(i)] = U
  BY <1>15, <1>16
<1> QED
  BY <1>2, <1>17 DEF U, T

\* What the rule for one token gives in a chunk.
Outs(x, S) == [i \in 1 .. ChunkSize |-> Dot(S[i], x[i].q)]

\* A chunk goes from the state before it to the state after it.
LEMMA ChunkStepIs ==
  ASSUME NEW x, NEW S, InChunk(x, S), NEW acc, acc.state = S[0]
  PROVE  /\ ChunkStep(acc, x).state = S[ChunkSize]
         /\ acc.out \in Seq(Int) => IsConcat(ChunkStep(acc, x).out, acc.out, Outs(x, S), Int)
<1> DEFINE C == ChunkSize  s == S[0]  U == Gains(x, S)
           Within(i) == [j \in 1 .. i |-> Dot(x[i].q, x[j].k) * DecayMask(x, i, j) * U[j]]
           Out(i) == Dot(DecayMask(x, i, 0) ** x[i].q, s) + Sum(Within(i), i)
           Into(c) == Sum([j \in 1 .. C |-> x[j].k[c] * DecayMask(x, C, j) * U[j]], C)
<1>1. /\ ChunkStep(acc, x).out = acc.out \o [i \in 1 .. C |-> Out(i)]
      /\ ChunkStep(acc, x).state = (DecayMask(x, C, 0) ** s) ++ <<Into(1), Into(2)>>
  BY NewValuesAre DEF ChunkStep, AfterChunk
<1>2. C \in Nat \ {0} /\ s \in Vector
  BY ChunkFacts
<1>3. \A j \in 1 .. C : x[j].k \in Vector /\ x[j].q \in Vector /\ U[j] \in Int
  BY ChunkFacts
<1> HIDE DEF U
<1>4. ASSUME NEW i \in 1 .. C PROVE Out(i) = Dot(S[i], x[i].q)
  <2> DEFINE y == x[i].q  f == Left(x, S, y, i)  g == Within(i)  d == DecayMask(x, i, 0)
  <2>1. i \in 0 .. C /\ i \in Nat /\ y \in Vector
    BY <1>2, <1>3
  <2>2. /\ Ints(f, i) /\ d \in Int
        /\ \A j \in 1 .. i : /\ DecayMask(x, i, j) \in Int /\ Dot(x[j].k, y) \in Int
                             /\ f[j] = DecayMask(x, i, j) * U[j] * Dot(x[j].k, y)
    <3> HIDE DEF y
    <3> QED
      BY <2>1, LeftIs DEF U
  <2>3. \A j \in 1 .. i : f[j] = g[j]
    <3>1. ASSUME NEW j \in 1 .. i PROVE f[j] = g[j]
      <4> DEFINE p == DecayMask(x, i, j)  r == Dot(x[j].k, y)  u == U[j]
      <4>1. j \in 1 .. C
        BY <1>2
      <4>2. p \in Int /\ r \in Int /\ u \in Int /\ f[j] = p * u * r
        BY <1>3, <2>2, <4>1
      <4>3. Dot(y, x[j].k) = r
        BY <1>3, <2>1, <4>1, DotCommutes
      <4>4. g[j] = r * p * u
        BY <4>3
      <4> HIDE DEF p, r, u, f, g
      <4> QED
        BY <4>2, <4>4
    <3> QED
      BY <3>1
  <2>4. Out(i) = Dot(d ** y, s) + Sum(g, i)
    OBVIOUS
  <2> HIDE DEF f, g, Out, Within
  <2>5. Sum(f, i) = Sum(g, i)
    BY <2>1, <2>2, <2>3, SumEqual
  <2>6. Dot(d ** y, s) = d * Dot(s, y)
    <3> HIDE DEF d, y, s
    <3>1. Dot(d ** y, s) = d * Dot(y, s)
      BY <1>2, <2>1, <2>2, DotScaled
    <3> QED
      BY <1>2, <2>1, <3>1, DotCommutes
  <2>7. Dot(S[i], y) = d * Dot(s, y) + Sum(f, i)
    <3> HIDE DEF y
    <3> QED
      BY <2>1, StateAlong DEF f
  <2> QED
    BY <2>4, <2>5, <2>6, <2>7
<1>5. ASSUME NEW c \in {1, 2} PROVE S[C][c] = DecayMask(x, C, 0) * s[c] + Into(c)
  <2> DEFINE y == IF c = 1 THEN <<1, 0>> ELSE <<0, 1>>
             f == Left(x, S, y, C)  g == [j \in 1 .. C |-> x[j].k[c] * DecayMask(x, C, j) * U[j]]
  <2>1. y \in Vector /\ C \in 0 .. C /\ C \in Nat
    BY <1>2 DEF Vector
  <2>2. \A v \in Vector : Dot(v, y) = v[c]
    BY DEF Dot, Vector
  <2> HIDE DEF y
  <2>3. /\ Ints(f, C)
        /\ \A j \in 1 .. C : /\ DecayMask(x, C, j) \in Int /\ Dot(x[j].k, y) \in Int
                             /\ f[j] = DecayMask(x, C, j) * U[j] * Dot(x[j].k, y)
    BY <2>1, LeftIs DEF U
  <2>4. \A j \in 1 .. C : f[j] = g[j]
    <3>1. ASSUME NEW j \in 1 .. C PROVE f[j] = g[j]
      <4> DEFINE p == DecayMask(x, C, j)  r == x[j].k[c]  u == U[j]
      <4>1. Dot(x[j].k, y) = r
        BY <1>3, <2>2
      <4>2. p \in Int /\ r \in Int /\ u \in Int /\ f[j] = p * u * r
        BY <1>3, <2>3, <4>1
      <4>3. g[j] = r * p * u
        OBVIOUS
      <4> HIDE DEF p, r, u, f, g
      <4> QED
        BY <4>2, <4>3
    <3> QED
      BY <3>1
  <2>5. Into(c) = Sum(g, C)
    OBVIOUS
  <2> HIDE DEF f, g, Into
  <2>6. Sum(f, C) = Sum(g, C)
    BY <2>1, <2>3, <2>4, SumEqual
  <2>7. Dot(S[C], y) = DecayMask(x, C, 0) * Dot(s, y) + Sum(f, C)
    BY <2>1, StateAlong DEF f
  <2>8. S[C] \in Vector
    BY <1>2, ChunkFacts
  <2> QED
    BY <1>2, <2>2, <2>5, <2>6, <2>7, <2>8
<1>6. ChunkStep(acc, x).state = S[C]
  <2>1. S[C] \in Vector
    BY <1>2, ChunkFacts
  <2>2. S[C] = <<S[C][1], S[C][2]>>
    BY <2>1 DEF Vector
  <2> HIDE DEF Into, s
  <2>3. (DecayMask(x, C, 0) ** s) ++ <<Into(1), Into(2)>> = <<DecayMask(x, C, 0) * s[1] + Into(1), DecayMask(x, C, 0) * s[2] + Into(2)>>
    BY DEF ++, **
  <2> QED
    BY <1>1, <1>5, <2>2, <2>3
<1> HIDE DEF Out, C
<1>7. [i \in 1 .. C |-> Out(i)] = [i \in 1 .. C |-> Dot(S[i], x[i].q)]
  BY <1>4
<1>8. Outs(x, S) \in Seq(Int)
  <2>1. \A i \in 1 .. C : Dot(S[i], x[i].q) \in Int
    <3>1. \A i \in 1 .. C : S[i] \in Vector /\ x[i].q \in Vector
      BY ChunkFacts DEF C
    <3> QED
      BY <3>1, VectorTypes
  <2> QED
    BY <1>2, <2>1 DEF Outs, C
<1> QED
  BY <1>1, <1>6, <1>7, <1>8 DEF C, IsConcat, Outs

-----------------------------------------------------------------------------
(* Chunk after chunk.                                                        *)

\* The padding fills the last chunk.
LEMMA PadSizeIs ==
  ASSUME NEW n \in Nat
  PROVE  PadSize(n) \in Nat /\ \E c \in Nat : n + PadSize(n) = c * ChunkSize
<1> DEFINE C == ChunkSize  q == n \div C  r == n % C
<1>1. C \in Nat \ {0}
  BY GatedDeltaAssumption
<1>2. q \in Nat /\ r \in 0 .. C - 1 /\ n = C * q + r
  BY <1>1, Division
<1>3. PadSize(n) = (C - r) % C
  BY DEF PadSize
<1> HIDE DEF C, q, r
<1>4. CASE r = 0
  <2>1. (C - r) % C = 0
    <3>1. C - r \in Nat /\ C - r = C * 1 + 0 /\ 0 \in 0 .. C - 1 /\ 1 \in Nat
      BY <1>1, <1>4
    <3> DEFINE a == C - r
    <3> HIDE DEF a
    <3>2. a % C = 0
      BY <1>1, <3>1, DivisionIs DEF a
    <3> QED
      BY <3>2 DEF a
  <2>2. n + 0 = q * C
    BY <1>1, <1>2, <1>4
  <2> QED
    BY <1>2, <1>3, <2>1, <2>2 DEF C
<1>5. CASE r # 0
  <2>1. (C - r) % C = C - r
    <3> DEFINE a == C - r
    <3>1. a \in 0 .. C - 1 /\ a = C * 0 + a /\ 0 \in Nat
      BY <1>1, <1>2, <1>5
    <3> HIDE DEF a
    <3>2. a % C = a
      BY <1>1, <3>1, DivisionIs
    <3> QED
      BY <3>2 DEF a
  <2>2. n + (C - r) = (q + 1) * C /\ q + 1 \in Nat /\ C - r \in Nat
    BY <1>1, <1>2
  <2> QED
    BY <1>3, <2>1, <2>2 DEF C
<1> QED
  BY <1>4, <1>5

\* Padding leaves the state as it is.
LEMMA PaddingStep ==
  /\ Padding \in Input
  /\ \A s \in Vector : RecurrentStep(s, Padding) = s
<1>1. Zero \in Vector
  BY DEF Zero, Vector
<1>2. Padding \in Input
  BY <1>1 DEF Padding, Input
<1>3. ASSUME NEW s \in Vector PROVE RecurrentStep(s, Padding) = s
  <2> DEFINE d == 1 ** s  e == Dot(d, Zero)
  <2>1. d = s
    BY DEF Vector, **
  <2>2. e \in Int
    BY <1>1, <2>1, VectorTypes
  <2>3. RecurrentStep(s, Padding) = d ++ (((0 - e) * 0) ** Zero)
    BY DEF RecurrentStep, Padding
  <2>4. (0 - e) * 0 = 0
    <3> HIDE DEF e
    <3> QED
      BY <2>2
  <2>5. s ++ (0 ** Zero) = s
    BY DEF Vector, ++, **, Zero
  <2> QED
    BY <2>1, <2>3, <2>4, <2>5
<1> QED
  BY <1>2, <1>3

\* n inputs, and padding that fills the last of c chunks.
Chunks(xs, P, c) ==
  /\ P \in Seq(Input) /\ c \in Nat /\ Len(P) = c * ChunkSize /\ Len(xs) <= Len(P)
  /\ \A i \in 1 .. Len(P) : P[i] = IF i <= Len(xs) THEN xs[i] ELSE Padding

\* Chunk c of a padded prompt.
Chunk(P, c) == SubSeq(P, (c - 1) * ChunkSize + 1, c * ChunkSize)

\* The states of a chunk are those of its part of the sequence.
LEMMA ChunkIs ==
  ASSUME NEW P \in Seq(Input), NEW c \in Nat, Len(P) = c * ChunkSize, NEW S, States(P, Zero, S),
         NEW a \in 1 .. c
  PROVE  /\ InChunk(Chunk(P, a), [i \in 0 .. ChunkSize |-> S[(a - 1) * ChunkSize + i]])
         /\ \A i \in 1 .. ChunkSize : /\ (a - 1) * ChunkSize + i \in 1 .. Len(P)
                                      /\ Chunk(P, a)[i] = P[(a - 1) * ChunkSize + i]
<1> DEFINE C == ChunkSize  b == (a - 1) * C  x == Chunk(P, a)  R == [i \in 0 .. C |-> S[b + i]]
<1>1. C \in Nat \ {0}
  BY GatedDeltaAssumption
<1>2. b \in Nat /\ a * C = b + C /\ b + C <= c * C
  <2>1. b \in Nat /\ a * C = b + C
    BY <1>1
  <2>2. a * C <= c * C
    <3>1. c - a \in Nat
      OBVIOUS
    <3>2. (c - a) * C >= 0
      BY <1>1, <3>1
    <3>3. (c - a) * C = c * C - a * C /\ a * C \in Int /\ c * C \in Int
      BY <1>1
    <3> QED
      BY <3>2, <3>3
  <2> QED
    BY <2>1, <2>2
<1>3. x = SubSeq(P, b + 1, b + C)
  BY <1>2 DEF Chunk
<1> HIDE DEF C, b, x
<1>4. b + C <= Len(P)
  BY <1>2 DEF C
<1>5. \A i \in 1 .. C : b + i \in 1 .. Len(P)
  BY <1>1, <1>2, <1>4
<1>6. x \in Seq(Input) /\ Len(x) = C /\ \A i \in 1 .. C : x[i] = P[b + i]
  <2> DEFINE y == SubSeq(P, b + 1, b + C)
  <2>1. y \in Seq(Input) /\ Len(y) = IF b + 1 <= b + C THEN (b + C) - (b + 1) + 1 ELSE 0
    BY <1>1, <1>2, <1>4
  <2>2. b + 1 <= b + C /\ (b + C) - (b + 1) + 1 = C
    BY <1>1, <1>2
  <2>3. \A i \in 1 .. (b + C) - (b + 1) + 1 : y[i] = P[(b + 1) + i - 1]
    BY <1>1, <1>2, <1>4
  <2>4. \A i \in 1 .. C : (b + 1) + i - 1 = b + i
    BY <1>1, <1>2
  <2> HIDE DEF y
  <2> QED
    BY <1>3, <2>1, <2>2, <2>3, <2>4 DEF y
<1>8. \A i \in 0 .. C : b + i \in 0 .. Len(P)
  BY <1>1, <1>2, <1>4
<1>9. R \in [0 .. C -> Vector]
  BY <1>8 DEF States
<1>10. ASSUME NEW i \in 1 .. C PROVE R[i] = RecurrentStep(R[i-1], x[i])
  <2>1. i \in 0 .. C /\ i - 1 \in 0 .. C /\ b + i \in 1 .. Len(P) /\ b + (i - 1) = (b + i) - 1
    BY <1>1, <1>2, <1>5
  <2>2. S[b + i] = RecurrentStep(S[(b + i) - 1], P[b + i])
    BY <2>1 DEF States
  <2>3. R[i] = S[b + i] /\ R[i-1] = S[(b + i) - 1] /\ x[i] = P[b + i]
    BY <1>6, <2>1
  <2> HIDE DEF R
  <2> QED
    BY <2>2, <2>3
<1>11. InChunk(x, R)
  <2> HIDE DEF R
  <2> QED
    BY <1>6, <1>9, <1>10 DEF InChunk, C
<1> QED
  BY <1>5, <1>6, <1>11 DEF x, C, b

\* The sequence that the rule divides into chunks.
IsPadded(P, xs) == P = xs \o [i \in 1 .. PadSize(Len(xs)) |-> Padding]

\* So do all chunks of a padded prompt.
LEMMA PaddedChunks ==
  ASSUME NEW xs \in Seq(Input), NEW P, IsPadded(P, xs)
  PROVE  Chunks(xs, P, Len(P) \div ChunkSize)
<1> DEFINE n == Len(xs)  p == PadSize(n)  pad == [i \in 1 .. p |-> Padding]
<1>1. n \in Nat /\ \A i \in 1 .. n : xs[i] \in Input
  OBVIOUS
<1>2. p \in Nat /\ \E c \in Nat : n + p = c * ChunkSize
  <2> HIDE DEF n
  <2> QED
    BY <1>1, PadSizeIs
<1>3. P = xs \o pad
  BY DEF IsPadded
<1> HIDE DEF p
<1>4. Padding \in Input
  BY PaddingStep
<1>5. pad \in Seq(Input) /\ Len(pad) = p /\ \A i \in 1 .. p : pad[i] = Padding
  BY <1>2, <1>4
<1> HIDE DEF pad
<1>6. /\ P \in Seq(Input) /\ Len(P) = n + p
      /\ \A i \in 1 .. n + p : P[i] = IF i <= n THEN xs[i] ELSE pad[i - n]
  <2>1. IsConcat(P, xs, pad, Input)
    BY <1>3, <1>5 DEF IsConcat
  <2> HIDE DEF n
  <2>2. /\ P \in Seq(Input) /\ Len(P) = Len(xs) + Len(pad)
        /\ \A i \in 1 .. Len(xs) + Len(pad) : P[i] = IF i <= Len(xs) THEN xs[i] ELSE pad[i - Len(xs)]
    BY <2>1, Concat
  <2>3. Len(xs) = n /\ Len(pad) = p
    BY <1>5 DEF n
  <2> QED
    BY <2>2, <2>3
<1> DEFINE m == Len(P)
<1> HIDE DEF n, m
<1>7. \A i \in 1 .. Len(P) : P[i] = IF i <= n THEN xs[i] ELSE Padding
  <2>1. ASSUME NEW i \in 1 .. Len(P) PROVE P[i] = IF i <= n THEN xs[i] ELSE Padding
    <3>1. i \in 1 .. n + p
      BY <1>6 DEF m
    <3>2. P[i] = IF i <= n THEN xs[i] ELSE pad[i - n]
      BY <1>6, <3>1
    <3>3. i > n => i - n \in 1 .. p
      BY <1>1, <1>2, <3>1
    <3>4. i > n => pad[i - n] = Padding
      BY <1>5, <3>3
    <3> HIDE DEF pad
    <3> QED
      BY <1>1, <3>1, <3>2, <3>4
  <2> QED
    BY <2>1
<1>8. PICK c \in Nat : n + p = c * ChunkSize
  BY <1>2
<1>9. Len(P) \div ChunkSize = c
  <2>1. ChunkSize \in Nat \ {0}
    BY GatedDeltaAssumption
  <2>2. m = ChunkSize * c + 0 /\ 0 \in 0 .. ChunkSize - 1
    <3>1. m = c * ChunkSize
      BY <1>6, <1>8 DEF m
    <3> QED
      BY <2>1, <3>1
  <2>3. m \div ChunkSize = c
    BY <2>1, <2>2, DivisionIs
  <2> QED
    BY <2>3 DEF m
<1>10. n <= Len(P)
  <2>1. m = n + p
    BY <1>6 DEF m
  <2>2. n <= m
    BY <1>1, <1>2, <2>1
  <2> QED
    BY <2>2 DEF m
<1> QED
  BY <1>6, <1>7, <1>8, <1>9, <1>10 DEF Chunks, n

\* The rule for a prompt, chunk by chunk, gives what the rule for one token gives.
THEOREM ChunkRuleIs ==
  ASSUME NEW xs \in Seq(Input)
  PROVE  ChunkRule(xs) = RecurrentRule(xs, Zero)
<1> DEFINE n == Len(xs)  C == ChunkSize
           P == xs \o [i \in 1 .. PadSize(n) |-> Padding]
           c == Len(P) \div C
           First == [out |-> << >>, state |-> Zero]
           Eq(f) == f = [a \in 0 .. c |-> IF a = 0 THEN First ELSE ChunkStep(f[a-1], Chunk(P, a))]
           Result(f) == [out |-> SubSeq(f[c].out, 1, n), state |-> f[c].state]
<1>0. ASSUME NEW g, Eq(g) PROVE \E f : Eq(f) /\ ChunkRule(xs) = Result(f)
  <2>1. Eq(g)
    BY <1>0
  <2> QED
    BY <2>1 DEF ChunkRule, Chunk
<1>1. C \in Nat \ {0} /\ n \in Nat /\ Zero \in Vector
  BY GatedDeltaAssumption DEF Zero, Vector
<1>2. Chunks(xs, P, c)
  <2> HIDE DEF P
  <2>1. IsPadded(P, xs)
    BY DEF P, IsPadded
  <2> QED
    BY <2>1, PaddedChunks
<1> HIDE DEF P, c
<1>3. /\ P \in Seq(Input) /\ c \in Nat /\ Len(P) = c * ChunkSize /\ n <= Len(P)
      /\ \A i \in 1 .. Len(P) : P[i] = IF i <= n THEN xs[i] ELSE Padding
  BY <1>2 DEF Chunks
<1>4. PICK S : States(P, Zero, S)
  BY <1>1, <1>3, RecurrentIs
<1> DEFINE o(i) == Dot(S[i], P[i].q)
           g == [a \in 0 .. c |-> [out |-> [i \in 1 .. a * C |-> o(i)], state |-> S[a * C]]]
<1>5. ASSUME NEW a \in 1 .. c PROVE g[a] = ChunkStep(g[a-1], Chunk(P, a))
  <2> DEFINE b == (a - 1) * C  R == [i \in 0 .. C |-> S[b + i]]  x == Chunk(P, a)
             acc == g[a-1]  before == [i \in 1 .. b |-> o(i)]  new == Outs(x, R)
  <2>1. b \in Nat /\ a * C = b + C
    BY <1>1
  <2>2. InChunk(x, R) /\ \A i \in 1 .. C : b + i \in 1 .. Len(P) /\ x[i] = P[b + i]
    BY <1>3, <1>4, ChunkIs
  <2>3. acc.state = S[b] /\ acc.out = before /\ R[0] = S[b] /\ R[C] = S[b + C]
    <3>1. a - 1 \in 0 .. c
      BY <1>3
    <3> HIDE DEF b
    <3>2. R[0] = S[b] /\ R[C] = S[b + C]
      BY <1>1, <2>1
    <3>3. acc = [out |-> [i \in 1 .. (a - 1) * C |-> o(i)], state |-> S[(a - 1) * C]]
      BY <3>1
    <3> HIDE DEF o, R, acc
    <3> QED
      BY <3>2, <3>3 DEF b
  <2> HIDE DEF b, x, acc
  <2>4. \A i \in 1 .. C : new[i] = o(b + i)
    BY <1>1, <2>2 DEF Outs
  <2> HIDE DEF R
  <2>5. ChunkStep(acc, x).state = S[b + C] /\ (before \in Seq(Int) => IsConcat(ChunkStep(acc, x).out, before, new, Int))
    <3> HIDE DEF o
    <3>1. acc.state = R[0]
      BY <2>3
    <3>2. ChunkStep(acc, x).state = R[C] /\ (acc.out \in Seq(Int) => IsConcat(ChunkStep(acc, x).out, acc.out, Outs(x, R), Int))
      BY <2>2, <3>1, ChunkStepIs
    <3> QED
      BY <2>3, <3>2
  <2> DEFINE whole == [i \in 1 .. b + C |-> o(i)]  both == ChunkStep(acc, x).out
  <2>6. both = whole
    <3>1. \A i \in 1 .. b + C : o(i) \in Int
      <4>1. ASSUME NEW i \in 1 .. b + C PROVE o(i) \in Int
        <5>1. i \in 1 .. Len(P)
          <6>1. CASE i \in 1 .. b
            <7>1. b + 1 \in 1 .. Len(P) /\ b < Len(P)
              BY <1>1, <2>1, <2>2
            <7> QED
              BY <2>1, <6>1, <7>1
          <6>2. CASE i > b
            <7>1. i - b \in 1 .. C /\ b + (i - b) = i
              BY <1>1, <2>1, <6>2
            <7> QED
              BY <2>2, <7>1
          <6> QED
            BY <2>1, <6>1, <6>2
        <5>2. P[i] \in Input /\ S[i] \in Vector
          BY <1>3, <1>4, <5>1 DEF States
        <5> QED
          BY <5>2, InputFields, VectorTypes
      <4> QED
        BY <4>1
    <3>2. \A i \in 1 .. C : b + i \in 1 .. b + C
      BY <1>1, <2>1
    <3> HIDE DEF o
    <3>3. before \in Seq(Int) /\ Len(before) = b /\ whole \in Seq(Int) /\ Len(whole) = b + C
      BY <1>1, <2>1, <3>1
    <3>4. new \in Seq(Int) /\ Len(new) = C
      <4>1. new = [i \in 1 .. C |-> new[i]]
        BY DEF Outs
      <4>2. \A i \in 1 .. C : new[i] \in Int
        BY <2>4, <3>1, <3>2
      <4> HIDE DEF new
      <4> QED
        BY <1>1, <4>1, <4>2
    <3> HIDE DEF new
    <3>5. \A i \in 1 .. b + C : whole[i] = o(i) /\ (i <= b => before[i] = o(i))
      BY <1>1, <2>1
    <3> HIDE DEF before, whole, both
    <3>6. /\ both \in Seq(Int) /\ Len(both) = b + C
          /\ \A i \in 1 .. b + C : both[i] = IF i <= b THEN before[i] ELSE new[i - b]
      <4>1. IsConcat(both, before, new, Int)
        BY <2>5, <3>3 DEF both
      <4>2. /\ both \in Seq(Int) /\ Len(both) = Len(before) + Len(new)
            /\ \A i \in 1 .. Len(before) + Len(new) : both[i] = IF i <= Len(before) THEN before[i] ELSE new[i - Len(before)]
        BY <4>1, Concat
      <4>3. Len(before) = b /\ Len(new) = C
        BY <3>3, <3>4
      <4> QED
        BY <4>2, <4>3
    <3>7. ASSUME NEW i \in 1 .. b + C PROVE both[i] = whole[i]
      <4>1. CASE i <= b
        BY <3>5, <3>6, <4>1
      <4>2. CASE ~(i <= b)
        <5>1. i - b \in 1 .. C /\ b + (i - b) = i
          BY <1>1, <2>1, <4>2
        <5>2. new[i - b] = o(i)
          BY <2>4, <5>1
        <5> QED
          BY <3>5, <3>6, <4>2, <5>2
      <4> QED
        BY <4>1, <4>2
    <3> QED
      BY <3>3, <3>6, <3>7, SeqEqual
  <2>7. g[a] = [out |-> whole, state |-> S[b + C]]
    <3> HIDE DEF o, b
    <3>1. g[a] = [out |-> [i \in 1 .. a * C |-> o(i)], state |-> S[a * C]]
      BY <1>3
    <3> QED
      BY <2>1, <3>1
  <2>8. ChunkStep(acc, x) = [out |-> ChunkStep(acc, x).out, state |-> ChunkStep(acc, x).state]
    BY DEF ChunkStep, AfterChunk
  <2> HIDE DEF whole, both, g
  <2>9. g[a] = ChunkStep(acc, x)
    BY <2>5, <2>6, <2>7, <2>8 DEF both
  <2> QED
    BY <2>9 DEF acc, x
<1>6. g[0] = First
  <2>1. 0 * C = 0 /\ S[0] = Zero /\ 0 \in 0 .. c
    BY <1>1, <1>3, <1>4 DEF States
  <2>2. g[0] = [out |-> [i \in 1 .. 0 |-> o(i)], state |-> Zero]
    BY <2>1
  <2>3. [i \in 1 .. 0 |-> o(i)] = << >>
    <3> HIDE DEF o
    <3> QED
      OBVIOUS
  <2> QED
    BY <2>2, <2>3
<1>7. Eq(g)
  <2> HIDE DEF First
  <2>1. g = [a \in 0 .. c |-> g[a]]
    OBVIOUS
  <2> HIDE DEF g
  <2>2. \A a \in 0 .. c : g[a] = IF a = 0 THEN First ELSE ChunkStep(g[a-1], Chunk(P, a))
    <3>1. \A a \in 0 .. c : a # 0 => a \in 1 .. c
      BY <1>3
    <3> QED
      BY <1>5, <1>6, <3>1
  <2> QED
    BY <2>1, <2>2
<1> HIDE DEF g
<1>8. PICK f : Eq(f) /\ ChunkRule(xs) = Result(f)
  <2> HIDE DEF Eq, Result
  <2> QED
    BY <1>0, <1>7
<1>9. \A a \in 0 .. c : g[a] = f[a]
  <2> HIDE DEF First
  <2>1. Eq(f)
    BY <1>8
  <2>2. f[0] = First /\ \A a \in 1 .. c : f[a] = ChunkStep(f[a-1], Chunk(P, a))
    BY <1>3, <2>1
  <2> HIDE DEF Eq
  <2>3. SameSteps(g, f, c)
    BY <1>5, <1>6, <2>2 DEF SameSteps
  <2> QED
    BY <1>3, <2>3, SameBeginning
<1>10. ChunkRule(xs).state = S[Len(P)] /\ ChunkRule(xs).out = SubSeq([i \in 1 .. Len(P) |-> o(i)], 1, n)
  <2> HIDE DEF o
  <2>1. g[c] = [out |-> [i \in 1 .. c * C |-> o(i)], state |-> S[c * C]]
    BY <1>3 DEF g
  <2>2. f[c] = g[c]
    BY <1>3, <1>9
  <2> HIDE DEF Eq
  <2>3. ChunkRule(xs) = Result(f)
    BY <1>8
  <2> QED
    BY <1>3, <2>1, <2>2, <2>3
\* The states do not change in the padding.
<1>11. S[Len(P)] = S[n]
  <2> DEFINE Q == {i \in Nat : n + i <= Len(P) => S[n + i] = S[n]}
  <2>1. 0 \in Q
    BY <1>1
  <2>2. ASSUME NEW i \in Nat, i \in Q PROVE i + 1 \in Q
    <3>1. SUFFICES ASSUME n + (i + 1) <= Len(P) PROVE S[n + (i + 1)] = S[n]
      OBVIOUS
    <3> DEFINE j == n + (i + 1)
    <3>2. j \in 1 .. Len(P) /\ j - 1 = n + i /\ ~(j <= n) /\ n + i <= Len(P) /\ n + i \in 0 .. Len(P)
      BY <1>1, <1>3, <3>1
    <3> HIDE DEF j
    <3>3. S[j] = RecurrentStep(S[j-1], P[j]) /\ P[j] = Padding /\ S[n + i] \in Vector
      BY <1>3, <1>4, <3>2 DEF States
    <3>4. S[j] = S[n + i]
      BY <3>2, <3>3, PaddingStep
    <3>5. S[n + i] = S[n]
      BY <2>2, <3>2
    <3> QED
      BY <3>4, <3>5 DEF j
  <2> HIDE DEF Q
  <2>3. \A i \in Nat : i \in Q
    BY <2>1, <2>2, Induction
  <2>4. Len(P) - n \in Nat /\ n + (Len(P) - n) = Len(P)
    BY <1>1, <1>3
  <2> QED
    BY <2>3, <2>4 DEF Q
<1>12. PICK S1 : /\ States(xs, Zero, S1) /\ RecurrentRule(xs, Zero).state = S1[n]
                 /\ RecurrentRule(xs, Zero).out = [t \in 1 .. n |-> Dot(S1[t], xs[t].q)]
  BY <1>1, RecurrentIs
<1>13. \A i \in 0 .. n : S1[i] = S[i]
  <2>1. \A i \in 1 .. n : i \in 1 .. Len(P) /\ P[i] = xs[i]
    BY <1>1, <1>3
  <2>2. SameSteps(S1, S, n)
    BY <1>4, <1>12, <2>1 DEF SameSteps, States
  <2> QED
    BY <1>1, <2>2, SameBeginning
<1>14. SubSeq([i \in 1 .. Len(P) |-> o(i)], 1, n) = [t \in 1 .. n |-> Dot(S1[t], xs[t].q)]
  <2>1. \A t \in 1 .. n : o(t) = Dot(S1[t], xs[t].q) /\ t \in 1 .. Len(P)
    BY <1>1, <1>3, <1>13
  <2> DEFINE w == [i \in 1 .. Len(P) |-> o(i)]
  <2>2. \A t \in 1 .. Len(P) : o(t) \in Int
    <3>1. \A t \in 1 .. Len(P) : P[t] \in Input /\ S[t] \in Vector
      BY <1>3, <1>4 DEF States
    <3> QED
      BY <3>1, InputFields, VectorTypes
  <2> HIDE DEF o
  <2>3. w \in Seq(Int) /\ Len(w) = Len(P) /\ \A t \in 1 .. Len(P) : w[t] = o(t)
    BY <1>3, <2>2
  <2> DEFINE u == SubSeq(w, 0 + 1, 0 + n)  v == [t \in 1 .. n |-> Dot(S1[t], xs[t].q)]
  <2>4. v \in Seq(Int) /\ Len(v) = n /\ \A t \in 1 .. n : v[t] = o(t)
    <3>1. v = [t \in 1 .. n |-> o(t)]
      BY <2>1
    <3> HIDE DEF v
    <3> QED
      BY <1>1, <2>1, <2>2, <3>1
  <2> HIDE DEF w, v
  <2>5. u \in Seq(Int) /\ Len(u) = n /\ \A i \in 1 .. n : u[i] = w[0 + i]
    <3>1. IsPart(u, w, 0, n, Int)
      BY <1>1, <1>3, <2>3 DEF IsPart
    <3> HIDE DEF u
    <3> QED
      BY <3>1, Part
  <2>6. u = SubSeq(w, 1, n)
    BY <1>1
  <2> HIDE DEF u
  <2>7. u = v
    <3>1. \A i \in 1 .. n : u[i] = v[i]
      BY <2>1, <2>3, <2>4, <2>5
    <3> QED
      BY <2>4, <2>5, <3>1, SeqEqual
  <2> QED
    BY <2>6, <2>7 DEF w, v
<1>15. ChunkRule(xs) = [out |-> ChunkRule(xs).out, state |-> ChunkRule(xs).state]
  <2> HIDE DEF Eq, o
  <2> QED
    BY <1>8
<1>16. RecurrentRule(xs, Zero) = [out |-> RecurrentRule(xs, Zero).out, state |-> RecurrentRule(xs, Zero).state]
  BY DEF RecurrentRule
<1>17. n \in 0 .. n
  BY <1>1
<1>18. ChunkRule(xs).out = RecurrentRule(xs, Zero).out
  <2> HIDE DEF o
  <2> QED
    BY <1>10, <1>12, <1>14
<1>19. ChunkRule(xs).state = RecurrentRule(xs, Zero).state
  <2> HIDE DEF o
  <2> QED
    BY <1>10, <1>11, <1>12, <1>13, <1>17
<1> DEFINE a == ChunkRule(xs)  b == RecurrentRule(xs, Zero)
<1> HIDE DEF a, b, o
<1> QED
  BY <1>15, <1>16, <1>18, <1>19 DEF a, b

-----------------------------------------------------------------------------
(* The rule for one token, input after input.                                *)

\* The reference step is that of torch_recurrent_gated_delta_rule.
LEMMA DeltaStepIs ==
  ASSUME NEW s \in Vector, NEW x \in Input
  PROVE  DeltaStep(s, x) = RecurrentStep(s, x)
<1> DEFINE d == x.decay  b == x.beta  v == x.v  k == x.k  D == Dot(s, k)
           s1 == s[1]  s2 == s[2]  k1 == k[1]  k2 == k[2]
<1>1. d \in Int /\ b \in Int /\ v \in Int /\ k \in Vector /\ D \in Int
  BY InputFields, VectorTypes
<1>2. s1 \in Int /\ s2 \in Int /\ k1 \in Int /\ k2 \in Int
  BY <1>1 DEF Vector
<1>3. RecurrentStep(s, x) = (d ** s) ++ (Gain(s, x) ** k) /\ Gain(s, x) = (v - d * D) * b
  BY StepIs DEF Gain
<1>4. (d ** (s ++ ((-b * D) ** k))) ++ ((b * v) ** k)
        = <<d * (s1 + (-b * D) * k1) + b * v * k1, d * (s2 + (-b * D) * k2) + b * v * k2>>
  <2> HIDE DEF D
  <2> QED
    BY DEF ++, **
<1>5. (d ** s) ++ (Gain(s, x) ** k) = <<d * s1 + ((v - d * D) * b) * k1, d * s2 + ((v - d * D) * b) * k2>>
  <2> HIDE DEF D
  <2> QED
    BY <1>3 DEF ++, **
<1> HIDE DEF d, b, v, D, s1, s2, k1, k2
<1>6. d * (s1 + (-b * D) * k1) + b * v * k1 = d * s1 + ((v - d * D) * b) * k1
  BY <1>1, <1>2
<1>7. d * (s2 + (-b * D) * k2) + b * v * k2 = d * s2 + ((v - d * D) * b) * k2
  BY <1>1, <1>2
<1> QED
  BY <1>3, <1>4, <1>5, <1>6, <1>7 DEF DeltaStep, d, b, v, D

\* The rule is what it is meant to be.
LEMMA DeltaIs ==
  ASSUME NEW xs \in Seq(Input)
  PROVE  Delta(xs) = RecurrentRule(xs, Zero).out
<1> DEFINE n == Len(xs)
           Eq(f) == f = [t \in 0 .. n |-> IF t = 0 THEN Zero ELSE DeltaStep(f[t-1], xs[t])]
<1>1. n \in Nat /\ Zero \in Vector /\ \A i \in 1 .. n : xs[i] \in Input
  BY DEF Zero, Vector
<1>2. PICK S : /\ States(xs, Zero, S)
               /\ RecurrentRule(xs, Zero).out = [t \in 1 .. n |-> Dot(S[t], xs[t].q)]
  BY <1>1, RecurrentIs
<1>3. S = [t \in 0 .. n |-> S[t]] /\ S[0] = Zero /\ \A i \in 1 .. n : S[i-1] \in Vector /\ S[i] = RecurrentStep(S[i-1], xs[i])
  BY <1>2 DEF States
<1>4. \A i \in 1 .. n : S[i] = DeltaStep(S[i-1], xs[i])
  <2>1. ASSUME NEW i \in 1 .. n PROVE S[i] = DeltaStep(S[i-1], xs[i])
    <3>1. S[i-1] \in Vector /\ xs[i] \in Input /\ S[i] = RecurrentStep(S[i-1], xs[i])
      BY <1>1, <1>3
    <3> QED
      BY <3>1, DeltaStepIs
  <2> QED
    BY <2>1
<1>0. ASSUME NEW g, Eq(g) PROVE \E f : Eq(f) /\ Delta(xs) = [t \in 1 .. n |-> Dot(f[t], xs[t].q)]
  <2>1. Eq(g)
    BY <1>0
  <2> QED
    BY <2>1 DEF Delta
<1>5. Eq(S)
  <2> HIDE DEF n
  <2> QED
    BY <1>1, <1>3, <1>4
<1>6. PICK f : Eq(f) /\ Delta(xs) = [t \in 1 .. n |-> Dot(f[t], xs[t].q)]
  <2> HIDE DEF Eq
  <2> QED
    BY <1>0, <1>5
<1>7. f[0] = Zero /\ \A i \in 1 .. n : f[i] = DeltaStep(f[i-1], xs[i])
  <2> HIDE DEF n
  <2> QED
    BY <1>1, <1>6
<1> HIDE DEF n, Eq
<1>8. SameSteps(S, f, n)
  BY <1>3, <1>4, <1>7 DEF SameSteps
<1>9. \A t \in 0 .. n : S[t] = f[t]
  BY <1>1, <1>8, SameBeginning
<1> QED
  BY <1>2, <1>6, <1>9 DEF n

\* The rule gives an output for every input, and a state.
LEMMA RuleFacts ==
  ASSUME NEW xs \in Seq(Input), NEW s \in Vector
  PROVE  /\ RecurrentRule(xs, s).out \in Seq(Int) /\ Len(RecurrentRule(xs, s).out) = Len(xs)
         /\ RecurrentRule(xs, s).state \in Vector
<1> DEFINE n == Len(xs)
<1>1. PICK S : /\ States(xs, s, S) /\ RecurrentRule(xs, s).state = S[n]
               /\ RecurrentRule(xs, s).out = [t \in 1 .. n |-> Dot(S[t], xs[t].q)]
  BY RecurrentIs
<1>2. n \in Nat
  OBVIOUS
<1>3. S[n] \in Vector
  BY <1>1, <1>2 DEF States
<1>4. \A t \in 1 .. n : Dot(S[t], xs[t].q) \in Int
  <2>1. \A t \in 1 .. n : S[t] \in Vector /\ xs[t] \in Input
    BY <1>1 DEF States
  <2> QED
    BY <2>1, InputFields, VectorTypes
<1> HIDE DEF n
<1>5. [t \in 1 .. n |-> Dot(S[t], xs[t].q)] \in Seq(Int) /\ Len([t \in 1 .. n |-> Dot(S[t], xs[t].q)]) = n
  BY <1>2, <1>4
<1> QED
  BY <1>1, <1>3, <1>5 DEF n

\* u is s and e.
IsMore(u, s, e, S) == s \in Seq(S) /\ e \in S /\ u = Append(s, e)

\* What a sequence with one element more consists of.
LEMMA More ==
  ASSUME NEW S, NEW s, NEW e, NEW u, IsMore(u, s, e, S)
  PROVE  /\ s \in Seq(S) /\ e \in S /\ Len(s) \in Nat
         /\ u \in Seq(S) /\ Len(u) = Len(s) + 1 /\ u[Len(s) + 1] = e
         /\ \A i \in 1 .. Len(s) : u[i] = s[i]
<1> DEFINE v == Append(s, e)
<1>1. s \in Seq(S) /\ e \in S /\ Len(s) \in Nat /\ u = v
  BY DEF IsMore
<1>2. v \in Seq(S) /\ Len(v) = Len(s) + 1 /\ v[Len(s) + 1] = e /\ \A i \in 1 .. Len(s) : v[i] = s[i]
  BY <1>1, AppendProperties
<1> HIDE DEF v
<1> QED
  BY <1>1, <1>2

\* How to recognise one.
LEMMA MoreIs ==
  ASSUME NEW S, NEW s \in Seq(S), NEW u \in Seq(S), Len(u) = Len(s) + 1, \A i \in 1 .. Len(s) : u[i] = s[i]
  PROVE  IsMore(u, s, u[Len(s) + 1], S)
<1> DEFINE n == Len(s)  e == u[n + 1]  v == Append(s, e)
<1>1. n \in Nat /\ n + 1 \in 1 .. Len(u)
  OBVIOUS
<1>2. e \in S
  BY <1>1
<1> HIDE DEF e
<1>3. v \in Seq(S) /\ Len(v) = Len(s) + 1 /\ v[Len(s) + 1] = e /\ \A i \in 1 .. Len(s) : v[i] = s[i]
  BY <1>2, AppendProperties
<1> HIDE DEF v
<1>4. ASSUME NEW i \in 1 .. n + 1 PROVE u[i] = v[i]
  <2>1. i \in 1 .. n \/ i = n + 1
    BY <1>1
  <2> QED
    BY <1>3, <2>1 DEF e
<1>5. \A i \in 1 .. Len(u) : u[i] = v[i]
  BY <1>4
<1>6. Len(u) = Len(v)
  BY <1>3
<1>7. u = v
  BY <1>3, <1>5, <1>6, SeqEqual
<1> QED
  BY <1>2, <1>7 DEF IsMore, v, e

\* One input more.
LEMMA RuleMore ==
  ASSUME NEW xs, NEW y, NEW zs, IsMore(zs, xs, y, Input), NEW s \in Vector
  PROVE  /\ RecurrentRule(zs, s).state = RecurrentRule(<<y>>, RecurrentRule(xs, s).state).state
         /\ IsMore(RecurrentRule(zs, s).out, RecurrentRule(xs, s).out,
                   RecurrentRule(<<y>>, RecurrentRule(xs, s).state).out[1], Int)
<1> DEFINE n == Len(xs)  R == RecurrentRule(xs, s)  Z == RecurrentRule(zs, s)  one == <<y>>
           Y == RecurrentRule(one, R.state)
<1>1. /\ xs \in Seq(Input) /\ y \in Input /\ n \in Nat
      /\ zs \in Seq(Input) /\ Len(zs) = n + 1 /\ zs[n + 1] = y
      /\ \A i \in 1 .. n : zs[i] = xs[i]
  BY More
<1>2. one \in Seq(Input) /\ Len(one) = 1 /\ one[1] = y
  BY <1>1
<1>3. /\ R.out \in Seq(Int) /\ Len(R.out) = n /\ R.state \in Vector
      /\ Z.out \in Seq(Int) /\ Len(Z.out) = n + 1
  <2> HIDE DEF n
  <2>1. R.out \in Seq(Int) /\ Len(R.out) = Len(xs) /\ R.state \in Vector
    BY <1>1, RuleFacts
  <2>2. Z.out \in Seq(Int) /\ Len(Z.out) = Len(zs)
    BY <1>1, RuleFacts
  <2> QED
    BY <1>1, <2>1, <2>2 DEF n
<1>4. PICK S : /\ States(xs, s, S) /\ R.state = S[n]
               /\ R.out = [t \in 1 .. n |-> Dot(S[t], xs[t].q)]
  BY <1>1, RecurrentIs
<1>5. PICK T : /\ States(zs, s, T) /\ Z.state = T[Len(zs)]
               /\ Z.out = [t \in 1 .. Len(zs) |-> Dot(T[t], zs[t].q)]
  BY <1>1, RecurrentIs
<1> HIDE DEF one, R, Z
<1>6. PICK U : /\ States(one, R.state, U) /\ Y.state = U[Len(one)]
               /\ Y.out = [t \in 1 .. Len(one) |-> Dot(U[t], one[t].q)]
  BY <1>2, <1>3, RecurrentIs
<1> HIDE DEF Y
<1>7. \A t \in 0 .. n : S[t] = T[t]
  <2>1. S[0] = s /\ \A i \in 1 .. n : S[i] = RecurrentStep(S[i-1], xs[i])
    BY <1>4 DEF States
  <2>2. T[0] = s /\ \A i \in 1 .. n : T[i] = RecurrentStep(T[i-1], zs[i])
    <3>1. \A i \in 1 .. n : i \in 1 .. Len(zs)
      BY <1>1
    <3> QED
      BY <1>5, <3>1 DEF States
  <2> HIDE DEF n
  <2>3. SameSteps(S, T, n)
    BY <1>1, <2>1, <2>2 DEF SameSteps
  <2> QED
    BY <1>1, <2>3, SameBeginning
<1>8. U[0] = R.state /\ U[1] = RecurrentStep(U[0], y)
  <2>1. 1 \in 1 .. Len(one) /\ 1 - 1 = 0
    BY <1>2
  <2>2. U[0] = R.state /\ \A i \in 1 .. Len(one) : U[i] = RecurrentStep(U[i-1], one[i])
    BY <1>6 DEF States
  <2>3. U[1] = RecurrentStep(U[1-1], one[1])
    BY <2>1, <2>2
  <2> QED
    BY <1>2, <2>1, <2>2, <2>3
<1> HIDE DEF n
<1>9. T[n + 1] = RecurrentStep(T[n], y)
  <2>1. n + 1 \in 1 .. Len(zs) /\ (n + 1) - 1 = n
    BY <1>1
  <2>2. T[n + 1] = RecurrentStep(T[(n + 1) - 1], zs[n + 1])
    BY <1>5, <2>1 DEF States
  <2> QED
    BY <1>1, <2>1, <2>2
<1>10. T[n + 1] = U[1]
  <2>1. n \in 0 .. n
    BY <1>1
  <2> QED
    BY <1>4, <1>7, <1>8, <1>9, <2>1
<1>11. Z.state = Y.state
  BY <1>1, <1>2, <1>5, <1>6, <1>10
<1>12. \A i \in 1 .. n : Z.out[i] = R.out[i]
  <2>1. ASSUME NEW i \in 1 .. n PROVE Z.out[i] = R.out[i]
    <3>1. i \in 1 .. Len(zs) /\ i \in 0 .. n
      BY <1>1
    <3>2. Z.out[i] = Dot(T[i], zs[i].q) /\ R.out[i] = Dot(S[i], xs[i].q)
      BY <1>4, <1>5, <3>1
    <3> QED
      BY <1>1, <1>7, <3>1, <3>2
  <2> QED
    BY <2>1
<1>13. Z.out[n + 1] = Y.out[1]
  <2>1. n + 1 \in 1 .. Len(zs) /\ 1 \in 1 .. Len(one)
    BY <1>1, <1>2
  <2>2. Z.out[n + 1] = Dot(T[n + 1], zs[n + 1].q) /\ Y.out[1] = Dot(U[1], one[1].q)
    BY <1>5, <1>6, <2>1
  <2> QED
    BY <1>1, <1>2, <1>10, <2>2
<1>14. IsMore(Z.out, R.out, Z.out[Len(R.out) + 1], Int)
  BY <1>3, <1>12, MoreIs
<1> QED
  BY <1>3, <1>11, <1>13, <1>14 DEF R, Z, Y, one

-----------------------------------------------------------------------------
(* The convolution.                                                          *)

\* The last K inputs at t, with padding before the first.
Window(xs, t) == [w \in 1 .. K |-> IF t - K + w >= 1 THEN xs[t - K + w] ELSE Padding]

\* The convolution has at least one weight.
LEMMA KIs == K \in Nat \ {0} /\ \A w \in 1 .. K : Weights[w] \in Int
  BY GatedDeltaAssumption DEF K

\* A window has K inputs, padded on the left.
LEMMA WindowIs ==
  ASSUME NEW xs \in Seq(Input), NEW t \in 0 .. Len(xs)
  PROVE  /\ Window(xs, t) \in Seq(Input) /\ Len(Window(xs, t)) = K
         /\ \A w \in 1 .. K : Window(xs, t)[w] = IF t - K + w >= 1 THEN xs[t - K + w] ELSE Padding
<1> DEFINE W == Window(xs, t)  n == Len(xs)
<1>1. K \in Nat \ {0} /\ n \in Nat /\ Padding \in Input /\ \A i \in 1 .. n : xs[i] \in Input
  BY KIs, PaddingStep
<1>2. \A w \in 1 .. K : W[w] = IF t - K + w >= 1 THEN xs[t - K + w] ELSE Padding
  BY DEF Window
<1>3. W = [w \in 1 .. K |-> W[w]]
  BY DEF Window
<1> HIDE DEF W, n
<1>4. ASSUME NEW w \in 1 .. K PROVE W[w] \in Input
  <2>1. CASE t - K + w >= 1
    <3>1. t - K + w \in 1 .. n
      BY <1>1, <2>1 DEF n
    <3> QED
      BY <1>1, <1>2, <2>1, <3>1
  <2>2. CASE ~(t - K + w >= 1)
    BY <1>1, <1>2, <2>2
  <2> QED
    BY <2>1, <2>2
<1>5. W \in Seq(Input) /\ Len(W) = K
  BY <1>1, <1>3, <1>4
<1> QED
  BY <1>2, <1>5 DEF W

\* A sequence of K inputs is a window.
LEMMA IsWindow ==
  ASSUME NEW xs \in Seq(Input), NEW t \in 0 .. Len(xs), NEW u \in Seq(Input), Len(u) = K,
         \A w \in 1 .. K : u[w] = IF t - K + w >= 1 THEN xs[t - K + w] ELSE Padding
  PROVE  u = Window(xs, t)
<1> DEFINE W == Window(xs, t)
<1>1. W \in Seq(Input) /\ Len(W) = K /\ \A w \in 1 .. K : W[w] = IF t - K + w >= 1 THEN xs[t - K + w] ELSE Padding
  BY WindowIs
<1> HIDE DEF W
<1>2. \A w \in 1 .. Len(u) : u[w] = W[w]
  BY <1>1
<1> QED
  BY <1>1, <1>2, SeqEqual DEF W

\* The inputs before t do not depend on what follows.
LEMMA WindowMore ==
  ASSUME NEW xs, NEW y, NEW zs, IsMore(zs, xs, y, Input), NEW t \in 0 .. Len(xs)
  PROVE  Window(zs, t) = Window(xs, t)
<1>1. /\ xs \in Seq(Input) /\ zs \in Seq(Input) /\ Len(xs) \in Nat /\ Len(zs) = Len(xs) + 1
      /\ \A i \in 1 .. Len(xs) : zs[i] = xs[i]
  BY More
<1>2. K \in Nat \ {0}
  BY KIs
<1>3. \A w \in 1 .. K : t - K + w >= 1 => zs[t - K + w] = xs[t - K + w]
  <2>1. ASSUME NEW w \in 1 .. K, t - K + w >= 1 PROVE zs[t - K + w] = xs[t - K + w]
    <3>1. t - K + w \in 1 .. Len(xs)
      BY <1>1, <1>2, <2>1
    <3> QED
      BY <1>1, <3>1
  <2> QED
    BY <2>1
<1> QED
  BY <1>3 DEF Window

\* The state that causal_conv1d leaves is the last window of its inputs.
LEMMA PaddedIs ==
  ASSUME NEW xs \in Seq(Input)
  PROVE  Padded(xs) = Window(xs, Len(xs)) /\ Padded(xs) \in Seq(Input)
<1> DEFINE n == Len(xs)  u == Padded(xs)
<1>1. K \in Nat \ {0} /\ n \in Nat /\ Padding \in Input
  BY KIs, PaddingStep
<1>2. CASE n >= K
  <2> DEFINE m == n - K
  <2>1. m \in Nat /\ m + K = n /\ n - K + 1 = m + 1
    BY <1>1, <1>2
  <2>2. u = SubSeq(xs, m + 1, m + K)
    BY <1>2, <2>1 DEF Padded, LastOf
  <2> HIDE DEF m, u
  <2>3. IsPart(u, xs, m, K, Input)
    BY <1>1, <2>1, <2>2 DEF IsPart
  <2>4. u \in Seq(Input) /\ Len(u) = K /\ \A i \in 1 .. K : u[i] = xs[m + i]
    BY <2>3, Part
  <2> HIDE DEF n
  <2>5. \A w \in 1 .. K : n - K + w >= 1 /\ n - K + w = m + w
    BY <1>1, <2>1
  <2>6. \A w \in 1 .. K : u[w] = IF n - K + w >= 1 THEN xs[n - K + w] ELSE Padding
    BY <2>4, <2>5
  <2>7. n \in 0 .. Len(xs)
    BY <1>1 DEF n
  <2>8. u = Window(xs, n)
    BY <2>4, <2>6, <2>7, IsWindow
  <2> QED
    BY <2>4, <2>8 DEF u, n
<1>3. CASE ~(n >= K)
  <2> DEFINE m == K - n  pad == [i \in 1 .. m |-> Padding]
  <2>1. m \in Nat /\ u = pad \o xs
    BY <1>1, <1>3 DEF Padded
  <2>2. pad \in Seq(Input) /\ Len(pad) = m /\ \A i \in 1 .. m : pad[i] = Padding
    BY <1>1, <2>1
  <2> HIDE DEF u, pad
  <2>3. IsConcat(u, pad, xs, Input)
    BY <2>1, <2>2 DEF IsConcat
  <2>4. /\ u \in Seq(Input) /\ Len(u) = Len(pad) + Len(xs)
        /\ \A i \in 1 .. Len(pad) + Len(xs) : u[i] = IF i <= Len(pad) THEN pad[i] ELSE xs[i - Len(pad)]
    BY <2>3, Concat
  <2>5. Len(pad) = m /\ Len(xs) = n
    BY <2>2
  <2> HIDE DEF n
  <2>6. Len(u) = K /\ \A i \in 1 .. K : u[i] = IF i <= m THEN pad[i] ELSE xs[i - m]
    BY <1>1, <2>4, <2>5
  <2>7. \A w \in 1 .. K : u[w] = IF n - K + w >= 1 THEN xs[n - K + w] ELSE Padding
    <3>1. ASSUME NEW w \in 1 .. K PROVE u[w] = IF n - K + w >= 1 THEN xs[n - K + w] ELSE Padding
      <4>1. CASE w <= m
        <5>1. ~(n - K + w >= 1) /\ w \in 1 .. m
          BY <1>1, <4>1
        <5> QED
          BY <2>2, <2>6, <4>1, <5>1
      <4>2. CASE ~(w <= m)
        <5>1. n - K + w >= 1 /\ n - K + w = w - m
          BY <1>1, <4>2
        <5> QED
          BY <2>6, <4>2, <5>1
      <4> QED
        BY <4>1, <4>2
    <3> QED
      BY <3>1
  <2>8. n \in 0 .. Len(xs)
    BY <1>1 DEF n
  <2>9. u = Window(xs, n)
    BY <2>4, <2>6, <2>7, <2>8, IsWindow
  <2> QED
    BY <2>4, <2>9 DEF u, n
<1> QED
  BY <1>2, <1>3

\* A convolution of inputs is one.
LEMMA ConvIs ==
  ASSUME NEW window \in Seq(Input), Len(window) = K, NEW x \in Input
  PROVE  Conv(window, x) \in Input
<1> DEFINE Tap(f) == Sum([w \in 1 .. K |-> Weights[w] * f[w]], K)
           q1 == [w \in 1 .. K |-> window[w].q[1]]  q2 == [w \in 1 .. K |-> window[w].q[2]]
           k1 == [w \in 1 .. K |-> window[w].k[1]]  k2 == [w \in 1 .. K |-> window[w].k[2]]
           v  == [w \in 1 .. K |-> window[w].v]
<1>1. K \in Nat \ {0} /\ K \in Nat /\ \A w \in 1 .. K : Weights[w] \in Int
  BY KIs
<1>2. \A w \in 1 .. K : window[w].q \in Vector /\ window[w].k \in Vector /\ window[w].v \in Int
  <2>1. \A w \in 1 .. K : window[w] \in Input
    BY <1>1
  <2> QED
    BY <2>1, InputFields
<1>3. Ints(q1, K) /\ Ints(q2, K) /\ Ints(k1, K) /\ Ints(k2, K) /\ Ints(v, K)
  BY <1>2 DEF Ints, Vector
<1>4. ASSUME NEW f, Ints(f, K) PROVE Tap(f) \in Int
  <2> DEFINE h == [w \in 1 .. K |-> Weights[w] * f[w]]
  <2>1. Ints(h, K)
    BY <1>1, <1>4 DEF Ints
  <2> HIDE DEF h
  <2>2. Sum(h, K) \in Int
    BY <1>1, <2>1, SumType
  <2> QED
    BY <2>2 DEF h
<1>5. Conv(window, x) = [x EXCEPT !.q = <<Tap(q1), Tap(q2)>>, !.k = <<Tap(k1), Tap(k2)>>, !.v = Tap(v)]
  BY DEF Conv
<1> HIDE DEF Tap, q1, q2, k1, k2, v
<1>6. Tap(q1) \in Int /\ Tap(q2) \in Int /\ Tap(k1) \in Int /\ Tap(k2) \in Int /\ Tap(v) \in Int
  BY <1>3, <1>4
<1>7. <<Tap(q1), Tap(q2)>> \in Vector /\ <<Tap(k1), Tap(k2)>> \in Vector
  BY <1>6 DEF Vector
<1> QED
  BY <1>5, <1>6, <1>7 DEF Input

\* What the convolution of a prompt gives at t.
LEMMA ConvFirstIs ==
  ASSUME NEW xs \in Seq(Input)
  PROVE  /\ ConvFirst(xs) \in Seq(Input) /\ Len(ConvFirst(xs)) = Len(xs)
         /\ \A t \in 1 .. Len(xs) : ConvFirst(xs)[t] = Conv(Window(xs, t), xs[t])
<1> DEFINE n == Len(xs)  pad == [i \in 1 .. K - 1 |-> Padding]  padded == pad \o xs
           P(t) == SubSeq(padded, t, t + K - 1)  u == ConvFirst(xs)
<1>1. K \in Nat \ {0} /\ n \in Nat /\ Padding \in Input /\ \A i \in 1 .. n : xs[i] \in Input
  BY KIs, PaddingStep
<1>2. u = [t \in 1 .. n |-> Conv(P(t), xs[t])]
  BY DEF ConvFirst
<1>3. pad \in Seq(Input) /\ Len(pad) = K - 1 /\ \A i \in 1 .. K - 1 : pad[i] = Padding
  BY <1>1
<1>4. IsConcat(padded, pad, xs, Input)
  BY <1>3 DEF IsConcat
<1> HIDE DEF pad, padded, u
<1>5. /\ padded \in Seq(Input) /\ Len(padded) = Len(pad) + Len(xs)
      /\ \A i \in 1 .. Len(pad) + Len(xs) : padded[i] = IF i <= Len(pad) THEN pad[i] ELSE xs[i - Len(pad)]
  BY <1>4, Concat
<1>6. Len(pad) = K - 1 /\ Len(xs) = n
  BY <1>3
<1> HIDE DEF n
<1>7. ASSUME NEW t \in 1 .. n PROVE P(t) = Window(xs, t)
  <2> DEFINE m == t - 1  p == P(t)
  <2>1. m \in Nat /\ m + 1 = t /\ m + K = t + K - 1 /\ m + K <= Len(padded)
    BY <1>1, <1>5, <1>6
  <2>2. IsPart(p, padded, m, K, Input)
    BY <1>1, <1>5, <2>1 DEF IsPart
  <2> HIDE DEF p
  <2>3. p \in Seq(Input) /\ Len(p) = K /\ \A i \in 1 .. K : p[i] = padded[m + i]
    BY <2>2, Part
  <2>4. \A w \in 1 .. K : p[w] = IF t - K + w >= 1 THEN xs[t - K + w] ELSE Padding
    <3>1. ASSUME NEW w \in 1 .. K PROVE p[w] = IF t - K + w >= 1 THEN xs[t - K + w] ELSE Padding
      <4>1. p[w] = padded[m + w]
        BY <2>3
      <4>2. m + w \in 1 .. (K - 1) + n
        BY <1>1
      <4>3. padded[m + w] = IF m + w <= K - 1 THEN pad[m + w] ELSE xs[(m + w) - (K - 1)]
        BY <1>5, <1>6, <4>2
      <4>4. CASE m + w <= K - 1
        <5>1. m + w \in 1 .. K - 1 /\ ~(t - K + w >= 1)
          BY <1>1, <4>2, <4>4
        <5> QED
          BY <1>3, <4>1, <4>3, <4>4, <5>1
      <4>5. CASE ~(m + w <= K - 1)
        <5>1. t - K + w >= 1 /\ (m + w) - (K - 1) = t - K + w
          BY <1>1, <4>2, <4>5
        <5> QED
          BY <4>1, <4>3, <4>5, <5>1
      <4> QED
        BY <4>4, <4>5
    <3> QED
      BY <3>1
  <2>5. t \in 0 .. Len(xs)
    BY <1>1 DEF n
  <2>6. p = Window(xs, t)
    BY <2>3, <2>4, <2>5, IsWindow
  <2> QED
    BY <2>6 DEF p
<1>8. \A t \in 1 .. n : u[t] = Conv(Window(xs, t), xs[t])
  BY <1>2, <1>7
<1>9. \A t \in 1 .. n : u[t] \in Input
  <2>1. ASSUME NEW t \in 1 .. n PROVE u[t] \in Input
    <3>1. t \in 0 .. Len(xs) /\ xs[t] \in Input
      BY <1>1 DEF n
    <3>2. Window(xs, t) \in Seq(Input) /\ Len(Window(xs, t)) = K
      BY <3>1, WindowIs
    <3> QED
      BY <1>8, <3>1, <3>2, ConvIs
  <2> QED
    BY <2>1
<1>10. u = [t \in 1 .. n |-> u[t]]
  BY <1>2
<1>11. u \in Seq(Input) /\ Len(u) = n
  BY <1>1, <1>9, <1>10
<1> QED
  BY <1>8, <1>11 DEF u, n

\* One input more.
LEMMA ConvMore ==
  ASSUME NEW xs, NEW y, NEW zs, IsMore(zs, xs, y, Input)
  PROVE  IsMore(ConvFirst(zs), ConvFirst(xs), Conv(Window(zs, Len(zs)), y), Input)
<1> DEFINE n == Len(xs)  u == ConvFirst(xs)  v == ConvFirst(zs)
<1>1. /\ xs \in Seq(Input) /\ zs \in Seq(Input) /\ n \in Nat /\ Len(zs) = n + 1
      /\ zs[n + 1] = y
      /\ \A i \in 1 .. n : zs[i] = xs[i]
  BY More
<1>2. u \in Seq(Input) /\ Len(u) = n /\ \A t \in 1 .. n : u[t] = Conv(Window(xs, t), xs[t])
  BY <1>1, ConvFirstIs
<1>3. v \in Seq(Input) /\ Len(v) = Len(zs) /\ \A t \in 1 .. Len(zs) : v[t] = Conv(Window(zs, t), zs[t])
  BY <1>1, ConvFirstIs
<1> HIDE DEF u, v
<1>4. \A t \in 1 .. n : v[t] = u[t]
  <2>1. ASSUME NEW t \in 1 .. n PROVE v[t] = u[t]
    <3>1. t \in 0 .. Len(xs) /\ t \in 1 .. Len(zs)
      BY <1>1
    <3>2. Window(zs, t) = Window(xs, t)
      BY <3>1, WindowMore
    <3> QED
      BY <1>1, <1>2, <1>3, <3>1, <3>2
  <2> QED
    BY <2>1
<1> HIDE DEF n
<1>5. IsMore(v, u, v[Len(u) + 1], Input)
  <2>1. Len(v) = Len(u) + 1 /\ \A t \in 1 .. Len(u) : v[t] = u[t]
    BY <1>1, <1>2, <1>3, <1>4
  <2> QED
    BY <1>2, <1>3, <2>1, MoreIs
<1>6. v[Len(u) + 1] = Conv(Window(zs, Len(zs)), y)
  <2>1. n + 1 \in 1 .. Len(zs)
    BY <1>1
  <2> QED
    BY <1>1, <1>2, <1>3, <2>1
<1> QED
  BY <1>5, <1>6 DEF u, v

\* The update gives what the convolution of all would give last.
LEMMA ConvUpdateIs ==
  ASSUME NEW xs, NEW y, NEW zs, IsMore(zs, xs, y, Input)
  PROVE  /\ ConvUpdate(Padded(xs), <<y>>).state = Padded(zs)
         /\ ConvUpdate(Padded(xs), <<y>>).out = <<Conv(Window(zs, Len(zs)), y)>>
<1> DEFINE n == Len(xs)  s == Padded(xs)  one == <<y>>  new == s \o one  u == SubSeq(new, 2, 1 + K)
<1>1. /\ xs \in Seq(Input) /\ zs \in Seq(Input) /\ n \in Nat /\ Len(zs) = n + 1 /\ y \in Input
      /\ zs[n + 1] = y
      /\ \A i \in 1 .. n : zs[i] = xs[i]
  BY More
<1>2. K \in Nat \ {0}
  BY KIs
<1>3. one \in Seq(Input) /\ Len(one) = 1 /\ one[1] = y
  BY <1>1
<1>4. /\ s = Window(xs, n) /\ s \in Seq(Input) /\ Len(s) = K
      /\ \A w \in 1 .. K : s[w] = IF n - K + w >= 1 THEN xs[n - K + w] ELSE Padding
  <2>1. n \in 0 .. Len(xs)
    BY <1>1
  <2>2. s = Window(xs, n) /\ s \in Seq(Input)
    BY <1>1, PaddedIs
  <2> HIDE DEF s, n
  <2> QED
    BY <1>1, <2>1, <2>2, WindowIs
<1>5. /\ ConvUpdate(s, one).out = [t \in 1 .. Len(one) |-> Conv(SubSeq(new, t + 1, t + K), one[t])]
      /\ ConvUpdate(s, one).state = SubSeq(new, Len(new) - Len(s) + 1, Len(new))
  BY DEF ConvUpdate, LastOf
<1> HIDE DEF s, one
<1>6. IsConcat(new, s, one, Input)
  BY <1>3, <1>4 DEF IsConcat
<1> HIDE DEF new
<1>7. /\ new \in Seq(Input) /\ Len(new) = Len(s) + Len(one)
      /\ \A i \in 1 .. Len(s) + Len(one) : new[i] = IF i <= Len(s) THEN s[i] ELSE one[i - Len(s)]
  BY <1>6, Concat
<1>8. Len(new) = K + 1 /\ \A i \in 1 .. K + 1 : new[i] = IF i <= K THEN s[i] ELSE one[i - K]
  BY <1>3, <1>4, <1>7
<1>9. ConvUpdate(s, one).state = u /\ ConvUpdate(s, one).out = <<Conv(u, y)>>
  <2>1. Len(new) - Len(s) + 1 = 2 /\ Len(new) = 1 + K
    BY <1>2, <1>4, <1>8
  <2>2. ConvUpdate(s, one).state = u
    BY <1>5, <2>1
  <2>3. ConvUpdate(s, one).out = [t \in 1 .. 1 |-> Conv(SubSeq(new, t + 1, t + K), one[t])]
    BY <1>3, <1>5
  <2>4. [t \in 1 .. 1 |-> Conv(SubSeq(new, t + 1, t + K), one[t])] = <<Conv(SubSeq(new, 2, 1 + K), y)>>
    BY <1>3
  <2> QED
    BY <2>2, <2>3, <2>4
<1>10. IsPart(u, new, 1, K, Input)
  BY <1>2, <1>7, <1>8 DEF IsPart
<1> HIDE DEF u
<1>11. u \in Seq(Input) /\ Len(u) = K /\ \A i \in 1 .. K : u[i] = new[1 + i]
  BY <1>10, Part
<1> DEFINE m == n + 1
<1>12. m \in Nat /\ n \in Nat /\ m = n + 1
  BY <1>1
<1>13. zs[m] = y /\ \A i \in 1 .. n : zs[i] = xs[i]
  BY <1>1
<1> HIDE DEF n, m
<1>14. \A w \in 1 .. K : u[w] = IF m - K + w >= 1 THEN zs[m - K + w] ELSE Padding
  <2>1. ASSUME NEW w \in 1 .. K PROVE u[w] = IF m - K + w >= 1 THEN zs[m - K + w] ELSE Padding
    <3>1. u[w] = new[1 + w] /\ 1 + w \in 1 .. K + 1
      BY <1>2, <1>11
    <3>2. CASE w = K
      <4>1. m - K + w = m /\ m >= 1 /\ ~(1 + w <= K) /\ (1 + w) - K = 1
        BY <1>2, <1>12, <3>2
      <4>2. new[1 + w] = one[1]
        BY <1>8, <3>1, <4>1
      <4> QED
        BY <1>3, <1>13, <3>1, <4>1, <4>2
    <3>3. CASE w # K
      <4>1. 1 + w \in 1 .. K /\ n - K + (1 + w) = m - K + w
        BY <1>2, <1>12, <3>3
      <4>2. new[1 + w] = s[1 + w]
        BY <1>8, <3>1, <4>1
      <4>3. s[1 + w] = IF n - K + (1 + w) >= 1 THEN xs[n - K + (1 + w)] ELSE Padding
        BY <1>4, <4>1
      <4>4. s[1 + w] = IF m - K + w >= 1 THEN xs[m - K + w] ELSE Padding
        BY <4>1, <4>3
      <4>5. m - K + w >= 1 => zs[m - K + w] = xs[m - K + w]
        <5>1. ASSUME m - K + w >= 1 PROVE m - K + w \in 1 .. n
          BY <1>2, <1>12, <3>3, <5>1
        <5> QED
          BY <1>13, <5>1
      <4> QED
        BY <3>1, <4>2, <4>4, <4>5
    <3> QED
      BY <3>2, <3>3
  <2> QED
    BY <2>1
<1>15. Len(zs) = m /\ m \in 0 .. Len(zs)
  BY <1>1, <1>12 DEF m
<1>16. u = Window(zs, m)
  BY <1>1, <1>11, <1>14, <1>15, IsWindow
<1>17. Padded(zs) = Window(zs, Len(zs))
  BY <1>1, PaddedIs
<1> QED
  BY <1>9, <1>15, <1>16, <1>17 DEF s, one

-----------------------------------------------------------------------------
(* Layers.                                                                   *)

\* The inputs of the next layer.
Residuals(xs, o) == [t \in DOMAIN xs |-> Residual(xs[t], o[t])]

\* An input with its residual is one.
LEMMA ResidualIs ==
  ASSUME NEW x \in Input, NEW o \in Int
  PROVE  Residual(x, o) \in Input
<1> DEFINE v == x.v + o  q == <<x.q[1] + o, x.q[2]>>
<1>1. Residual(x, o) = [x EXCEPT !.v = v, !.q = q]
  BY DEF Residual
<1>2. v \in Int /\ q \in Vector
  BY InputFields DEF Vector
<1> HIDE DEF v, q
<1> QED
  BY <1>1, <1>2 DEF Input

\* Two sequences of one length.
Alike(xs, o) == xs \in Seq(Input) /\ o \in Seq(Int) /\ Len(o) = Len(xs)

\* So is every input of a layer.
LEMMA ResidualsAre ==
  ASSUME NEW xs, NEW o, Alike(xs, o)
  PROVE  /\ Residuals(xs, o) \in Seq(Input) /\ Len(Residuals(xs, o)) = Len(xs)
         /\ \A t \in 1 .. Len(xs) : Residuals(xs, o)[t] = Residual(xs[t], o[t])
<1> DEFINE n == Len(xs)  u == Residuals(xs, o)
<1>1. n \in Nat /\ DOMAIN xs = 1 .. n /\ \A t \in 1 .. n : xs[t] \in Input /\ o[t] \in Int
  BY DEF Alike
<1>2. u = [t \in 1 .. n |-> Residual(xs[t], o[t])]
  BY <1>1 DEF Residuals
<1> HIDE DEF u, n
<1>3. \A t \in 1 .. n : u[t] = Residual(xs[t], o[t]) /\ u[t] \in Input
  BY <1>1, <1>2, ResidualIs
<1>4. u = [t \in 1 .. n |-> u[t]]
  BY <1>2
<1>5. u \in Seq(Input) /\ Len(u) = n
  BY <1>1, <1>3, <1>4
<1> QED
  BY <1>3, <1>5 DEF u, n

\* One run of a layer.
LEMMA OneLayerIs ==
  ASSUME NEW xs \in Seq(Input)
  PROVE  /\ OneLayer(xs) = [xs |-> Residuals(xs, RecurrentRule(ConvFirst(xs), Zero).out),
                            out |-> RecurrentRule(ConvFirst(xs), Zero).out]
         /\ Alike(xs, RecurrentRule(ConvFirst(xs), Zero).out)
<1> DEFINE f == ConvFirst(xs)  o == RecurrentRule(f, Zero).out
<1>1. f \in Seq(Input) /\ Len(f) = Len(xs) /\ Zero \in Vector
  BY ConvFirstIs DEF Zero, Vector
<1> HIDE DEF f
<1>2. o \in Seq(Int) /\ Len(o) = Len(f) /\ Delta(f) = o
  BY <1>1, RuleFacts, DeltaIs
<1> HIDE DEF o
<1>3. OneLayer(xs) = [xs |-> Residuals(xs, o), out |-> o]
  BY <1>2 DEF OneLayer, Residuals, f
<1> QED
  BY <1>1, <1>2, <1>3 DEF Alike, o, f

\* The layers that xs goes through.
Through(xs, c) ==
  /\ xs \in Seq(Input) /\ c \in [0 .. Layers -> [xs : Seq(Input), out : Seq(Int)]]
  /\ c[0] = [xs |-> xs, out |-> << >>]
  /\ \A l \in 1 .. Layers : c[l] = OneLayer(c[l-1].xs)

\* The reference goes through the layers.
LEMMA OneRunIs ==
  ASSUME NEW xs \in Seq(Input)
  PROVE  \E c : Through(xs, c) /\ OneRun(xs) = c[Layers].out
<1> DEFINE S == [xs : Seq(Input), out : Seq(Int)]
           base == [xs |-> xs, out |-> << >>]
           step == [l \in 1 .. Layers |-> [s \in S |-> OneLayer(s.xs)]]
           Eq(f) == f = [l \in 0 .. Layers |-> IF l = 0 THEN base ELSE OneLayer(f[l-1].xs)]
<1>1. Layers \in Nat \ {0} /\ Layers \in Nat
  BY HybridCacheAssumption
<1>2. ASSUME NEW s \in S PROVE OneLayer(s.xs) \in S
  <2> DEFINE ys == s.xs  o == RecurrentRule(ConvFirst(ys), Zero).out
  <2>1. ys \in Seq(Input)
    OBVIOUS
  <2> HIDE DEF ys
  <2>2. OneLayer(ys) = [xs |-> Residuals(ys, o), out |-> o] /\ Alike(ys, o)
    BY <2>1, OneLayerIs
  <2> HIDE DEF o
  <2>3. Residuals(ys, o) \in Seq(Input)
    BY <2>2, ResidualsAre
  <2> QED
    BY <2>2, <2>3 DEF Alike, ys
<1>3. base \in S /\ Steps(step, Layers, S)
  <2>1. base \in S
    OBVIOUS
  <2> HIDE DEF S
  <2> QED
    BY <1>2, <2>1 DEF Steps
<1>4. PICK c : Iterates(c, Layers, S, base, step)
  <2> HIDE DEF step, S, base
  <2> QED
    BY <1>1, <1>3, Primitive
<1>5. c \in [0 .. Layers -> S] /\ c[0] = base
  BY <1>4 DEF Iterates
<1> HIDE DEF S, base
<1>6. \A l \in 1 .. Layers : c[l] = OneLayer(c[l-1].xs)
  <2>1. ASSUME NEW l \in 1 .. Layers PROVE c[l-1] \in S /\ step[l] = [s \in S |-> OneLayer(s.xs)]
    BY <1>1, <1>5
  <2>2. \A l \in 1 .. Layers : c[l] = step[l][c[l-1]]
    BY <1>4 DEF Iterates
  <2> HIDE DEF step
  <2> QED
    BY <2>1, <2>2
<1>7. Eq(c)
  BY <1>1, <1>5, <1>6
<1>8. PICK f : Eq(f) /\ OneRun(xs) = f[Layers].out
  BY <1>7 DEF OneRun, base
<1>9. f[0] = base /\ \A l \in 1 .. Layers : f[l] = OneLayer(f[l-1].xs)
  <2>1. Eq(f)
    BY <1>8
  <2> QED
    BY <1>1, <2>1
<1>10. SameSteps(c, f, Layers)
  BY <1>5, <1>6, <1>9 DEF SameSteps
<1>11. c[Layers] = f[Layers]
  <2>1. \A l \in 0 .. Layers : c[l] = f[l]
    BY <1>1, <1>10, SameBeginning
  <2> QED
    BY <1>1, <2>1
<1> QED
  BY <1>5, <1>6, <1>8, <1>11 DEF Through, S, base

\* What layer l gets, and gives.
Layer(xs, c, l) ==
  /\ c[l-1].xs \in Seq(Input) /\ Len(c[l-1].xs) = Len(xs)
  /\ Alike(c[l-1].xs, c[l].out)
  /\ c[l].out = RecurrentRule(ConvFirst(c[l-1].xs), Zero).out
  /\ c[l].xs = Residuals(c[l-1].xs, c[l].out)
  /\ Len(c[l].xs) = Len(xs)
  /\ c[l] = [xs |-> c[l].xs, out |-> c[l].out]

\* What a layer of the reference gets and gives, for every layer.
LEMMA ThroughFacts ==
  ASSUME NEW xs, NEW c, Through(xs, c), NEW l \in 1 .. Layers
  PROVE  Layer(xs, c, l)
<1>1. Layers \in Nat \ {0}
  BY HybridCacheAssumption
<1>2. ASSUME NEW i \in 1 .. Layers
      PROVE  /\ c[i-1].xs \in Seq(Input)
             /\ Alike(c[i-1].xs, c[i].out)
             /\ c[i].out = RecurrentRule(ConvFirst(c[i-1].xs), Zero).out
             /\ c[i].xs = Residuals(c[i-1].xs, c[i].out)
             /\ Len(c[i].xs) = Len(c[i-1].xs)
             /\ c[i] = [xs |-> c[i].xs, out |-> c[i].out]
  <2> DEFINE ys == c[i-1].xs  o == RecurrentRule(ConvFirst(ys), Zero).out
  <2>1. i - 1 \in 0 .. Layers
    BY <1>1
  <2>2. ys \in Seq(Input) /\ c[i] = OneLayer(ys)
    BY <2>1 DEF Through
  <2> HIDE DEF ys
  <2>3. OneLayer(ys) = [xs |-> Residuals(ys, o), out |-> o] /\ Alike(ys, o)
    BY <2>2, OneLayerIs
  <2>4. Len(Residuals(ys, o)) = Len(ys)
    <3> HIDE DEF o
    <3> QED
      BY <2>3, ResidualsAre
  <2> QED
    BY <2>2, <2>3, <2>4 DEF ys
<1> DEFINE P == {i \in Nat : i <= Layers => Len(c[i].xs) = Len(xs)}
<1>3. 0 \in P
  BY DEF Through
<1>4. ASSUME NEW i \in Nat, i \in P PROVE i + 1 \in P
  <2>1. SUFFICES ASSUME i + 1 <= Layers PROVE Len(c[i + 1].xs) = Len(xs)
    OBVIOUS
  <2>2. i + 1 \in 1 .. Layers /\ (i + 1) - 1 = i /\ i <= Layers
    BY <1>1, <2>1
  <2>3. Len(c[i + 1].xs) = Len(c[(i + 1) - 1].xs)
    BY <1>2, <2>2
  <2> QED
    BY <1>4, <2>2, <2>3
<1> HIDE DEF P
<1>5. \A i \in Nat : i \in P
  BY <1>3, <1>4, Induction
<1>6. l \in Nat /\ l - 1 \in Nat /\ l <= Layers /\ l - 1 <= Layers
  BY <1>1
<1>7. Len(c[l].xs) = Len(xs) /\ Len(c[l-1].xs) = Len(xs)
  BY <1>5, <1>6 DEF P
<1> QED
  BY <1>1, <1>2, <1>6, <1>7 DEF Layer

-----------------------------------------------------------------------------
(* The first call, with no states.                                           *)

\* The states that layers leave, up to l.
Convs(c) == [m \in 1 .. Layers |-> Padded(c[m-1].xs)]
Recs(c) == [m \in 1 .. Layers |-> RecurrentRule(ConvFirst(c[m-1].xs), Zero).state]

\* The cache after l layers.
UpTo(conv, rec, c, l) ==
  [conv |-> [m \in 1 .. Layers |-> IF m <= l THEN Convs(c)[m] ELSE conv[m]],
   rec  |-> [m \in 1 .. Layers |-> IF m <= l THEN Recs(c)[m] ELSE rec[m]]]

\* One state for every layer.
PerLayer(s) == s = [m \in 1 .. Layers |-> s[m]]

\* Forward goes through f.
Chain(f, conv, rec, xs) ==
  /\ DOMAIN f = 0 .. Layers
  /\ f = [l \in 0 .. Layers |-> f[l]]
  /\ f[0] = [conv |-> conv, rec |-> rec, xs |-> xs, out |-> << >>]
  /\ \A l \in 1 .. Layers : f[l] = ForwardLayer(f[l-1], l)

\* Forward is where a chain through the layers ends.
LEMMA ForwardIs ==
  ASSUME NEW f, NEW conv, NEW rec, NEW xs, Chain(f, conv, rec, xs)
  PROVE  Forward(conv, rec, xs) = f[Layers]
<1> DEFINE base == [conv |-> conv, rec |-> rec, xs |-> xs, out |-> << >>]
           Eq(g) == g = [l \in 0 .. Layers |-> IF l = 0 THEN base ELSE ForwardLayer(g[l-1], l)]
<1>1. Layers \in Nat \ {0} /\ Layers \in Nat
  BY HybridCacheAssumption
<1>2. /\ f = [l \in 0 .. Layers |-> f[l]] /\ f[0] = base
      /\ \A l \in 1 .. Layers : f[l] = ForwardLayer(f[l-1], l)
  BY DEF Chain
<1> HIDE DEF base
<1>3. Eq(f)
  <2>1. \A l \in 0 .. Layers : f[l] = IF l = 0 THEN base ELSE ForwardLayer(f[l-1], l)
    <3>1. \A l \in 0 .. Layers : l # 0 => l \in 1 .. Layers
      BY <1>1
    <3> QED
      BY <1>2, <3>1
  <2>2. f = [l \in 0 .. Layers |-> f[l]]
    BY <1>2
  <2> QED
    BY <2>1, <2>2
<1>4. PICK g : Eq(g) /\ Forward(conv, rec, xs) = g[Layers]
  BY <1>3 DEF Forward, base
<1>5. g[0] = base /\ \A l \in 1 .. Layers : g[l] = ForwardLayer(g[l-1], l)
  <2>1. Eq(g)
    BY <1>4
  <2> QED
    BY <1>1, <2>1
<1>6. SameSteps(f, g, Layers)
  BY <1>2, <1>5 DEF SameSteps
<1>7. \A l \in 0 .. Layers : f[l] = g[l]
  BY <1>1, <1>6, SameBeginning
<1> QED
  BY <1>1, <1>4, <1>7

\* u is v with its element l set to e.
IsSet(u, v, l, e) == u = [v EXCEPT ![l] = e]

\* One step of a layer sets its states.
LEMMA UpToNext ==
  ASSUME NEW conv, NEW rec, NEW c, NEW l \in 1 .. Layers
  PROVE  /\ IsSet(UpTo(conv, rec, c, l).conv, UpTo(conv, rec, c, l - 1).conv, l, Convs(c)[l])
         /\ IsSet(UpTo(conv, rec, c, l).rec, UpTo(conv, rec, c, l - 1).rec, l, Recs(c)[l])
         /\ UpTo(conv, rec, c, l - 1).conv[l] = conv[l] /\ UpTo(conv, rec, c, l - 1).rec[l] = rec[l]
         /\ UpTo(conv, rec, c, l - 1).conv[Layers] = conv[Layers]
<1>1. Layers \in Nat \ {0}
  BY HybridCacheAssumption
<1> DEFINE A == Convs(c)  B == Recs(c)
<1> HIDE DEF A, B
<1>2. /\ UpTo(conv, rec, c, l).conv = [m \in 1 .. Layers |-> IF m <= l THEN A[m] ELSE conv[m]]
      /\ UpTo(conv, rec, c, l).rec = [m \in 1 .. Layers |-> IF m <= l THEN B[m] ELSE rec[m]]
      /\ UpTo(conv, rec, c, l - 1).conv = [m \in 1 .. Layers |-> IF m <= l - 1 THEN A[m] ELSE conv[m]]
      /\ UpTo(conv, rec, c, l - 1).rec = [m \in 1 .. Layers |-> IF m <= l - 1 THEN B[m] ELSE rec[m]]
  BY DEF UpTo, A, B
<1>3. \A m \in 1 .. Layers : m # l => (m <= l <=> m <= l - 1)
  BY <1>1
<1>4. ~(l <= l - 1) /\ l <= l /\ ~(Layers <= l - 1) /\ Layers \in 1 .. Layers
  BY <1>1
<1>5. UpTo(conv, rec, c, l).conv = [UpTo(conv, rec, c, l - 1).conv EXCEPT ![l] = A[l]]
  <2> DEFINE u == UpTo(conv, rec, c, l).conv  v == UpTo(conv, rec, c, l - 1).conv
  <2>1. /\ u = [m \in 1 .. Layers |-> IF m <= l THEN A[m] ELSE conv[m]]
        /\ v = [m \in 1 .. Layers |-> IF m <= l - 1 THEN A[m] ELSE conv[m]]
    BY <1>2
  <2> HIDE DEF u, v
  <2>2. u = [v EXCEPT ![l] = A[l]]
    BY <1>3, <1>4, <2>1
  <2> QED
    BY <2>2 DEF u, v
<1>6. UpTo(conv, rec, c, l).rec = [UpTo(conv, rec, c, l - 1).rec EXCEPT ![l] = B[l]]
  <2> DEFINE u == UpTo(conv, rec, c, l).rec  v == UpTo(conv, rec, c, l - 1).rec
  <2>1. /\ u = [m \in 1 .. Layers |-> IF m <= l THEN B[m] ELSE rec[m]]
        /\ v = [m \in 1 .. Layers |-> IF m <= l - 1 THEN B[m] ELSE rec[m]]
    BY <1>2
  <2> HIDE DEF u, v
  <2>2. u = [v EXCEPT ![l] = B[l]]
    BY <1>3, <1>4, <2>1
  <2> QED
    BY <2>2 DEF u, v
<1> QED
  BY <1>2, <1>4, <1>5, <1>6 DEF A, B, IsSet

\* Before the first layer no state is set, after the last one all are.
LEMMA UpToEnds ==
  ASSUME NEW conv, NEW rec, NEW c, PerLayer(conv), PerLayer(rec)
  PROVE  /\ UpTo(conv, rec, c, 0) = [conv |-> conv, rec |-> rec]
         /\ UpTo(conv, rec, c, Layers) = [conv |-> Convs(c), rec |-> Recs(c)]
<1>1. Layers \in Nat \ {0}
  BY HybridCacheAssumption
<1> DEFINE A == Convs(c)  B == Recs(c)
<1>2. A = [m \in 1 .. Layers |-> A[m]] /\ B = [m \in 1 .. Layers |-> B[m]]
  BY DEF Convs, Recs
<1> HIDE DEF A, B
<1>3. \A m \in 1 .. Layers : m <= Layers /\ ~(m <= 0)
  BY <1>1
<1>4. \A l : UpTo(conv, rec, c, l) = [conv |-> [m \in 1 .. Layers |-> IF m <= l THEN A[m] ELSE conv[m]],
                                       rec |-> [m \in 1 .. Layers |-> IF m <= l THEN B[m] ELSE rec[m]]]
  BY DEF UpTo, A, B
<1>5. /\ [m \in 1 .. Layers |-> IF m <= 0 THEN A[m] ELSE conv[m]] = conv
      /\ [m \in 1 .. Layers |-> IF m <= 0 THEN B[m] ELSE rec[m]] = rec
  BY <1>3 DEF PerLayer
<1>6. /\ [m \in 1 .. Layers |-> IF m <= Layers THEN A[m] ELSE conv[m]] = A
      /\ [m \in 1 .. Layers |-> IF m <= Layers THEN B[m] ELSE rec[m]] = B
  BY <1>2, <1>3
<1> QED
  BY <1>4, <1>5, <1>6 DEF A, B

\* The first call gives what one run gives.
LEMMA FirstForward ==
  ASSUME NEW xs, NEW c, Through(xs, c)
  PROVE  /\ Forward(NoStates, NoStates, xs).out = c[Layers].out
         /\ Forward(NoStates, NoStates, xs).conv = Convs(c)
         /\ Forward(NoStates, NoStates, xs).rec = Recs(c)
<1> DEFINE U(l) == UpTo(NoStates, NoStates, c, l)
           f == [l \in 0 .. Layers |-> [conv |-> U(l).conv, rec |-> U(l).rec, xs |-> c[l].xs, out |-> c[l].out]]
<1>1. Layers \in Nat \ {0}
  BY HybridCacheAssumption
<1>2. PerLayer(NoStates) /\ \A m \in 1 .. Layers : NoStates[m] = None
  BY DEF NoStates, PerLayer
<1>3. U(0).conv = NoStates /\ U(0).rec = NoStates /\ U(Layers).conv = Convs(c) /\ U(Layers).rec = Recs(c)
  BY <1>2, UpToEnds
<1> HIDE DEF U
<1>4. f[0] = [conv |-> NoStates, rec |-> NoStates, xs |-> xs, out |-> << >>]
  <2>1. c[0] = [xs |-> xs, out |-> << >>] /\ 0 \in 0 .. Layers
    BY <1>1 DEF Through
  <2> QED
    BY <1>3, <2>1
<1>5. ASSUME NEW l \in 1 .. Layers PROVE f[l] = ForwardLayer(f[l-1], l)
  <2> DEFINE ys == c[l-1].xs  p == f[l-1]  o == c[l].out  mixed == ConvFirst(ys)  rule == RecurrentRule(mixed, Zero)
  <2>1. /\ l - 1 \in 0 .. Layers /\ l \in 0 .. Layers
        /\ ys \in Seq(Input) /\ o = rule.out /\ c[l].xs = Residuals(ys, o)
    <3>1. /\ l - 1 \in 0 .. Layers
          /\ c[l-1].xs \in Seq(Input)
          /\ c[l].out = RecurrentRule(ConvFirst(c[l-1].xs), Zero).out
          /\ c[l].xs = Residuals(c[l-1].xs, c[l].out)
      <4>1. Layer(xs, c, l)
        BY ThroughFacts
      <4> QED
        BY <1>1, <4>1 DEF Layer
    <3>2. l \in 0 .. Layers
      BY <1>1
    <3> QED
      BY <3>1, <3>2
  <2>2. p.conv = U(l - 1).conv /\ p.rec = U(l - 1).rec /\ p.xs = ys
    BY <2>1
  <2>3. /\ U(l).conv = [U(l - 1).conv EXCEPT ![l] = Convs(c)[l]]
        /\ U(l).rec = [U(l - 1).rec EXCEPT ![l] = Recs(c)[l]]
        /\ U(l - 1).conv[l] = None /\ U(l - 1).conv[Layers] = None
    <3>1. Layers \in 1 .. Layers
      BY <1>1
    <3>2. /\ IsSet(UpTo(NoStates, NoStates, c, l).conv, UpTo(NoStates, NoStates, c, l - 1).conv, l, Convs(c)[l])
          /\ IsSet(UpTo(NoStates, NoStates, c, l).rec, UpTo(NoStates, NoStates, c, l - 1).rec, l, Recs(c)[l])
          /\ UpTo(NoStates, NoStates, c, l - 1).conv[l] = NoStates[l]
          /\ UpTo(NoStates, NoStates, c, l - 1).conv[Layers] = NoStates[Layers]
      BY UpToNext
    <3> QED
      BY <1>2, <3>1, <3>2 DEF U, IsSet
  <2>4. Convs(c)[l] = Padded(ys) /\ Recs(c)[l] = rule.state
    BY DEF Convs, Recs
  <2>5. f[l] = [conv |-> U(l).conv, rec |-> U(l).rec, xs |-> c[l].xs, out |-> c[l].out]
    BY <2>1
  <2> HIDE DEF p, f, ys, mixed
  <2>6. mixed \in Seq(Input) /\ ChunkRule(mixed) = rule
    <3>1. mixed \in Seq(Input)
      BY <2>1, ConvFirstIs DEF mixed
    <3> QED
      BY <3>1, ChunkRuleIs
  <2> HIDE DEF rule, o
  <2>7. Rule(p, l, mixed) = rule
    BY <2>2, <2>3, <2>6 DEF Rule, HasPreviousState
  <2>8. ForwardLayer(p, l) = StoreLayer(p, l, Padded(ys), Rule(p, l, mixed))
    BY <2>2, <2>3 DEF ForwardLayer, mixed
  <2>9. StoreLayer(p, l, Padded(ys), rule)
          = [conv |-> [p.conv EXCEPT ![l] = Padded(ys)], rec |-> [p.rec EXCEPT ![l] = rule.state],
             xs |-> Residuals(p.xs, rule.out), out |-> rule.out]
    BY DEF StoreLayer, Residuals
  <2> QED
    BY <2>1, <2>2, <2>3, <2>4, <2>5, <2>7, <2>8, <2>9 DEF o, p
<1>6. Chain(f, NoStates, NoStates, xs)
  <2>1. f = [l \in 0 .. Layers |-> f[l]] /\ DOMAIN f = 0 .. Layers
    OBVIOUS
  <2> HIDE DEF f
  <2> QED
    BY <1>4, <1>5, <2>1 DEF Chain
<1>7. f[Layers] = [conv |-> U(Layers).conv, rec |-> U(Layers).rec, xs |-> c[Layers].xs, out |-> c[Layers].out]
  BY <1>1
<1> HIDE DEF f
<1>8. Forward(NoStates, NoStates, xs) = f[Layers]
  BY <1>6, ForwardIs
<1> QED
  BY <1>3, <1>7, <1>8

-----------------------------------------------------------------------------
(* A call with one token.                                                    *)

\* One token more goes through the layers after those before it.
LEMMA ThroughMore ==
  ASSUME NEW xs, NEW y, NEW zs, IsMore(zs, xs, y, Input), NEW c, Through(xs, c), NEW d, Through(zs, d),
         NEW l \in 0 .. Layers
  PROVE  IsMore(d[l].xs, c[l].xs, d[l].xs[Len(zs)], Input)
<1> DEFINE n == Len(xs)
           P == {i \in Nat : i <= Layers => IsMore(d[i].xs, c[i].xs, d[i].xs[Len(zs)], Input)}
<1>1. /\ xs \in Seq(Input) /\ n \in Nat /\ Len(zs) = n + 1 /\ zs[n + 1] = y /\ Layers \in Nat
  BY More, HybridCacheAssumption
<1> HIDE DEF n
<1>2. 0 \in P
  <2>1. c[0].xs = xs /\ d[0].xs = zs
    BY DEF Through
  <2> QED
    BY <1>1, <2>1
<1>3. ASSUME NEW i \in Nat, i \in P PROVE i + 1 \in P
  <2>1. SUFFICES ASSUME i + 1 <= Layers PROVE IsMore(d[i + 1].xs, c[i + 1].xs, d[i + 1].xs[Len(zs)], Input)
    OBVIOUS
  <2> DEFINE l1 == i + 1  xc == c[i].xs  xd == d[i].xs  oc == c[l1].out  od == d[l1].out
             yc == c[l1].xs  yd == d[l1].xs
  <2>2. l1 \in 1 .. Layers /\ l1 - 1 = i /\ i <= Layers
    BY <1>1, <2>1
  <2> HIDE DEF l1
  <2>3. IsMore(xd, xc, xd[Len(zs)], Input)
    BY <1>3, <2>2
  <2>4. /\ Alike(xc, oc) /\ oc = RecurrentRule(ConvFirst(xc), Zero).out /\ yc = Residuals(xc, oc) /\ Len(xc) = Len(xs)
        /\ Alike(xd, od) /\ od = RecurrentRule(ConvFirst(xd), Zero).out /\ yd = Residuals(xd, od) /\ Len(xd) = Len(zs)
    <3>0. l1 \in 1 .. Layers
      BY <2>2
    <3>1. Layer(xs, c, l1) /\ Layer(zs, d, l1)
      BY <3>0, ThroughFacts
    <3> QED
      BY <2>2, <3>1 DEF Layer
  <2> HIDE DEF xc, xd, oc, od, yc, yd
  <2>5. \A t \in 1 .. n : xd[t] = xc[t]
    BY <2>3, <2>4, More DEF n
  <2>6. \A t \in 1 .. n : od[t] = oc[t]
    <3> DEFINE e == Conv(Window(xd, Len(xd)), xd[Len(zs)])  fc == ConvFirst(xc)  fd == ConvFirst(xd)
               s == RecurrentRule(fc, Zero).state
    <3>1. IsMore(fd, fc, e, Input) /\ Zero \in Vector
      BY <2>3, ConvMore DEF Zero, Vector
    <3> HIDE DEF e
    <3>2. IsMore(od, oc, RecurrentRule(<<e>>, s).out[1], Int)
      <4> HIDE DEF fc, fd
      <4>1. IsMore(RecurrentRule(fd, Zero).out, RecurrentRule(fc, Zero).out, RecurrentRule(<<e>>, RecurrentRule(fc, Zero).state).out[1], Int)
        BY <3>1, RuleMore
      <4> QED
        BY <2>4, <4>1 DEF fc, fd
    <3>3. Len(oc) = n
      BY <2>4 DEF Alike, n
    <3> HIDE DEF s
    <3> QED
      BY <3>2, <3>3, More
  <2>7. /\ yc \in Seq(Input) /\ Len(yc) = n /\ \A t \in 1 .. n : yc[t] = Residual(xc[t], oc[t])
        /\ yd \in Seq(Input) /\ Len(yd) = n + 1 /\ \A t \in 1 .. n + 1 : yd[t] = Residual(xd[t], od[t])
    <3>1. /\ yc \in Seq(Input) /\ Len(yc) = Len(xc) /\ \A t \in 1 .. Len(xc) : yc[t] = Residual(xc[t], oc[t])
      BY <2>4, ResidualsAre
    <3>2. /\ yd \in Seq(Input) /\ Len(yd) = Len(xd) /\ \A t \in 1 .. Len(xd) : yd[t] = Residual(xd[t], od[t])
      BY <2>4, ResidualsAre
    <3> QED
      BY <1>1, <2>4, <3>1, <3>2 DEF n
  <2>8. \A t \in 1 .. n : yd[t] = yc[t]
    <3>1. \A t \in 1 .. n : t \in 1 .. n + 1
      BY <1>1
    <3> QED
      BY <2>5, <2>6, <2>7, <3>1
  <2>9. IsMore(yd, yc, yd[Len(yc) + 1], Input)
    <3>1. Len(yd) = Len(yc) + 1 /\ \A t \in 1 .. Len(yc) : yd[t] = yc[t]
      BY <2>7, <2>8
    <3> QED
      BY <2>7, <3>1, MoreIs
  <2> QED
    BY <1>1, <2>7, <2>9 DEF yc, yd, l1
<1> HIDE DEF P
<1>4. \A i \in Nat : i \in P
  BY <1>2, <1>3, Induction
<1> QED
  BY <1>4 DEF P

\* What layer l makes of the token after n - 1 others, from the states they leave.
OneMore(c, d, n, l) ==
  /\ IsMore(d[l].out, c[l].out, d[l].out[n], Int)
  /\ Convs(c)[l] # None
  /\ ConvUpdate(Convs(c)[l], <<d[l-1].xs[n]>>).state = Convs(d)[l]
  /\ RecurrentRule(ConvUpdate(Convs(c)[l], <<d[l-1].xs[n]>>).out, Recs(c)[l])
       = [out |-> <<d[l].out[n]>>, state |-> Recs(d)[l]]
  /\ Residual(d[l-1].xs[n], d[l].out[n]) = d[l].xs[n]

\* A layer that is given the last token alone, and the states of those before it, does what
\* it does in one run.
LEMMA NextLayer ==
  ASSUME NEW xs, NEW y, NEW zs, IsMore(zs, xs, y, Input), NEW c, Through(xs, c), NEW d, Through(zs, d),
         NEW l \in 1 .. Layers
  PROVE  OneMore(c, d, Len(zs), l)
<1> DEFINE n == Len(zs)  xc == c[l-1].xs  xd == d[l-1].xs  oc == c[l].out  od == d[l].out
           x == xd[n]  w == Conv(Window(xd, n), x)  fc == ConvFirst(xc)  fd == ConvFirst(xd)
           s == RecurrentRule(fc, Zero).state
<1>1. l - 1 \in 0 .. Layers
  BY HybridCacheAssumption
<1>2. IsMore(xd, xc, x, Input)
  BY <1>1, ThroughMore
<1>3. Layer(xs, c, l) /\ Layer(zs, d, l)
  BY ThroughFacts
<1>4. /\ xc \in Seq(Input) /\ oc = RecurrentRule(fc, Zero).out
      /\ xd \in Seq(Input) /\ od = RecurrentRule(fd, Zero).out /\ Len(xd) = n
      /\ Alike(xd, od) /\ d[l].xs = Residuals(xd, od)
  BY <1>3 DEF Layer
<1>5. Convs(c)[l] = Padded(xc) /\ Convs(d)[l] = Padded(xd) /\ Recs(c)[l] = s /\ Recs(d)[l] = RecurrentRule(fd, Zero).state
  BY DEF Convs, Recs
<1>6. n \in 1 .. n /\ n \in Nat
  <2>1. Len(zs) = Len(xs) + 1 /\ Len(xs) \in Nat
    BY More
  <2> QED
    BY <2>1
<1> HIDE DEF xc, xd, oc, od, n, x
<1>7. ConvUpdate(Padded(xc), <<x>>).state = Padded(xd) /\ ConvUpdate(Padded(xc), <<x>>).out = <<w>>
  <2>1. /\ ConvUpdate(Padded(xc), <<x>>).state = Padded(xd)
        /\ ConvUpdate(Padded(xc), <<x>>).out = <<Conv(Window(xd, Len(xd)), x)>>
    BY <1>2, ConvUpdateIs
  <2> QED
    BY <1>4, <2>1
<1>8. Padded(xc) # None
  BY <1>4, PaddedIs, HybridCacheAssumption
<1>9. IsMore(fd, fc, w, Input) /\ Zero \in Vector
  <2>1. IsMore(fd, fc, Conv(Window(xd, Len(xd)), x), Input)
    BY <1>2, ConvMore
  <2> QED
    BY <1>4, <2>1 DEF Zero, Vector
<1> HIDE DEF w, fc, fd
<1> DEFINE r == RecurrentRule(<<w>>, s)
<1>10. RecurrentRule(fd, Zero).state = r.state /\ IsMore(RecurrentRule(fd, Zero).out, RecurrentRule(fc, Zero).out, r.out[1], Int)
  BY <1>9, RuleMore
<1>11. r = [out |-> <<r.out[1]>>, state |-> r.state]
  <2>1. <<w>> \in Seq(Input) /\ Len(<<w>>) = 1 /\ s \in Vector
    <3>1. w \in Input /\ fc \in Seq(Input)
      BY <1>9, More
    <3> QED
      BY <1>9, <3>1, RuleFacts
  <2> DEFINE ws == <<w>>
  <2>2. Len(ws) = 1 /\ ws \in Seq(Input)
    BY <2>1
  <2> HIDE DEF ws, s
  <2>3. RecurrentRule(ws, s).out \in Seq(Int) /\ Len(RecurrentRule(ws, s).out) = Len(ws)
    BY <2>1, <2>2, RuleFacts
  <2>4. RecurrentRule(ws, s) = [out |-> RecurrentRule(ws, s).out, state |-> RecurrentRule(ws, s).state]
    BY DEF RecurrentRule
  <2> DEFINE u == RecurrentRule(ws, s).out
  <2>5. u = <<u[1]>>
    <3> HIDE DEF u
    <3>1. u \in Seq(Int) /\ Len(u) = 1
      BY <2>2, <2>3 DEF u
    <3> QED
      BY <3>1
  <2> QED
    BY <2>4, <2>5 DEF ws
<1> HIDE DEF r, s
<1>12. IsMore(od, oc, r.out[1], Int) /\ od[n] = r.out[1]
  <2>1. IsMore(od, oc, r.out[1], Int)
    BY <1>4, <1>10
  <2>2. Len(od) = Len(oc) + 1 /\ od[Len(oc) + 1] = r.out[1]
    BY <2>1, More
  <2>3. Len(od) = n
    BY <1>4 DEF Alike
  <2> QED
    BY <2>1, <2>2, <2>3
<1>13. d[l].xs[n] = Residual(x, od[n])
  <2>1. \A t \in 1 .. Len(xd) : Residuals(xd, od)[t] = Residual(xd[t], od[t])
    BY <1>4, ResidualsAre
  <2> QED
    BY <1>4, <1>6, <2>1 DEF x
<1>14. /\ IsMore(od, oc, od[n], Int)
       /\ Convs(c)[l] # None
       /\ ConvUpdate(Convs(c)[l], <<x>>).state = Convs(d)[l]
       /\ RecurrentRule(ConvUpdate(Convs(c)[l], <<x>>).out, Recs(c)[l]) = [out |-> <<od[n]>>, state |-> Recs(d)[l]]
  BY <1>5, <1>7, <1>8, <1>10, <1>11, <1>12 DEF r
<1> QED
  BY <1>13, <1>14 DEF OneMore, xd, oc, od, x, n

\* A call with the token y after the tokens xs.
LEMMA NextForward ==
  ASSUME NEW xs, NEW y, NEW zs, IsMore(zs, xs, y, Input), NEW c, Through(xs, c), NEW d, Through(zs, d)
  PROVE  /\ Forward(Convs(c), Recs(c), <<y>>).out = <<d[Layers].out[Len(zs)]>>
         /\ Forward(Convs(c), Recs(c), <<y>>).conv = Convs(d)
         /\ Forward(Convs(c), Recs(c), <<y>>).rec = Recs(d)
         /\ IsMore(d[Layers].out, c[Layers].out, d[Layers].out[Len(zs)], Int)
<1> DEFINE A == Convs(c)  B == Recs(c)  n == Len(zs)
           U(l) == UpTo(A, B, d, l)
           f == [l \in 0 .. Layers |-> [conv |-> U(l).conv, rec |-> U(l).rec, xs |-> <<d[l].xs[n]>>,
                                        out |-> IF l = 0 THEN << >> ELSE <<d[l].out[n]>>]]
<1>1. Layers \in Nat \ {0} /\ Layers \in 1 .. Layers
  BY HybridCacheAssumption
<1>2. \A l \in 1 .. Layers : OneMore(c, d, n, l)
  BY NextLayer
<1>3. PerLayer(A) /\ PerLayer(B)
  BY DEF Convs, Recs, PerLayer
<1>4. zs[n] = y
  <2>1. Len(zs) = Len(xs) + 1 /\ zs[Len(xs) + 1] = y
    BY More
  <2> QED
    BY <2>1
<1> HIDE DEF A, B, n
<1>5. U(0).conv = A /\ U(0).rec = B /\ U(Layers).conv = Convs(d) /\ U(Layers).rec = Recs(d)
  BY <1>3, UpToEnds
<1>6. \A l \in 1 .. Layers :
        /\ IsMore(d[l].out, c[l].out, d[l].out[n], Int)
        /\ A[l] # None
        /\ ConvUpdate(A[l], <<d[l-1].xs[n]>>).state = Convs(d)[l]
        /\ RecurrentRule(ConvUpdate(A[l], <<d[l-1].xs[n]>>).out, B[l]) = [out |-> <<d[l].out[n]>>, state |-> Recs(d)[l]]
        /\ Residual(d[l-1].xs[n], d[l].out[n]) = d[l].xs[n]
  BY <1>2 DEF OneMore, A, B
<1> HIDE DEF U
<1>7. f[0] = [conv |-> A, rec |-> B, xs |-> <<y>>, out |-> << >>]
  <2>1. d[0].xs = zs /\ 0 \in 0 .. Layers
    BY <1>1 DEF Through
  <2> QED
    BY <1>4, <1>5, <2>1
<1>8. ASSUME NEW l \in 1 .. Layers PROVE f[l] = ForwardLayer(f[l-1], l)
  <2> DEFINE x == d[l-1].xs[n]  e == d[l].out[n]  p == f[l-1]
             update == ConvUpdate(A[l], <<x>>)
  <2>1. l - 1 \in 0 .. Layers /\ l \in 0 .. Layers /\ l # 0
    BY <1>1
  <2>2. p.conv = U(l - 1).conv /\ p.rec = U(l - 1).rec /\ p.xs = <<x>>
    BY <2>1
  <2>3. /\ U(l).conv = [U(l - 1).conv EXCEPT ![l] = Convs(d)[l]]
        /\ U(l).rec = [U(l - 1).rec EXCEPT ![l] = Recs(d)[l]]
        /\ U(l - 1).conv[l] = A[l] /\ U(l - 1).rec[l] = B[l] /\ U(l - 1).conv[Layers] = A[Layers]
    <3>1. /\ IsSet(UpTo(A, B, d, l).conv, UpTo(A, B, d, l - 1).conv, l, Convs(d)[l])
          /\ IsSet(UpTo(A, B, d, l).rec, UpTo(A, B, d, l - 1).rec, l, Recs(d)[l])
          /\ UpTo(A, B, d, l - 1).conv[l] = A[l] /\ UpTo(A, B, d, l - 1).rec[l] = B[l]
          /\ UpTo(A, B, d, l - 1).conv[Layers] = A[Layers]
      BY UpToNext
    <3> QED
      BY <3>1 DEF U, IsSet
  <2>4. f[l] = [conv |-> U(l).conv, rec |-> U(l).rec, xs |-> <<d[l].xs[n]>>, out |-> <<e>>]
    BY <2>1
  <2>5. /\ A[l] # None /\ A[Layers] # None /\ update.state = Convs(d)[l]
        /\ RecurrentRule(update.out, B[l]) = [out |-> <<e>>, state |-> Recs(d)[l]]
        /\ Residual(x, e) = d[l].xs[n]
    BY <1>1, <1>6
  <2> HIDE DEF p, f, x, e
  <2>6. Rule(p, l, update.out) = [out |-> <<e>>, state |-> Recs(d)[l]]
    <3>1. Len(p.xs) = 1 /\ p.rec[l] = B[l] /\ HasPreviousState(p.conv)
      BY <2>2, <2>3, <2>5 DEF HasPreviousState
    <3> HIDE DEF update
    <3> QED
      BY <2>5, <3>1 DEF Rule
  <2>7. ForwardLayer(p, l) = StoreLayer(p, l, update.state, Rule(p, l, update.out))
    <3>1. p.conv[l] # None /\ ConvUpdate(p.conv[l], p.xs) = update
      BY <2>2, <2>3, <2>5
    <3> HIDE DEF update
    <3> QED
      BY <3>1 DEF ForwardLayer
  <2> HIDE DEF update
  <2> DEFINE rule == [out |-> <<e>>, state |-> Recs(d)[l]]
  <2>8. StoreLayer(p, l, update.state, rule)
          = [conv |-> [p.conv EXCEPT ![l] = update.state], rec |-> [p.rec EXCEPT ![l] = rule.state],
             xs |-> Residuals(p.xs, rule.out), out |-> rule.out]
    BY DEF StoreLayer, Residuals
  <2>9. Residuals(p.xs, rule.out) = <<d[l].xs[n]>>
    <3>1. Residuals(<<x>>, <<e>>) = <<Residual(x, e)>>
      BY DEF Residuals
    <3> QED
      BY <2>2, <2>5, <3>1
  <2> QED
    BY <2>2, <2>3, <2>4, <2>5, <2>6, <2>7, <2>8, <2>9 DEF p
<1>9. Chain(f, A, B, <<y>>)
  <2>1. f = [l \in 0 .. Layers |-> f[l]] /\ DOMAIN f = 0 .. Layers
    OBVIOUS
  <2> HIDE DEF f
  <2> QED
    BY <1>7, <1>8, <2>1 DEF Chain
<1>10. f[Layers] = [conv |-> U(Layers).conv, rec |-> U(Layers).rec, xs |-> <<d[Layers].xs[n]>>,
                    out |-> <<d[Layers].out[n]>>]
  BY <1>1
<1> HIDE DEF f
<1>11. Forward(A, B, <<y>>) = f[Layers]
  <2> DEFINE ys == <<y>>
  <2>1. Chain(f, A, B, ys)
    BY <1>9
  <2> HIDE DEF ys
  <2>2. Forward(A, B, ys) = f[Layers]
    BY <2>1, ForwardIs
  <2> QED
    BY <2>2 DEF ys
<1>12. IsMore(d[Layers].out, c[Layers].out, d[Layers].out[n], Int)
  BY <1>1, <1>2 DEF OneMore
<1>13. /\ Forward(A, B, <<y>>).out = <<d[Layers].out[n]>>
       /\ Forward(A, B, <<y>>).conv = Convs(d)
       /\ Forward(A, B, <<y>>).rec = Recs(d)
  BY <1>5, <1>10, <1>11
<1> QED
  BY <1>12, <1>13 DEF A, B, n

-----------------------------------------------------------------------------
(* Outputs.                                                                  *)

\* A text token more.
LEMMA TokensMore ==
  ASSUME NEW gs \in Seq(Group), NEW g \in Texts
  PROVE  IsMore(Tokens(gs \o <<g>>), Tokens(gs), g.embed, Input)
<1> DEFINE all == gs \o <<g>>  n == Len(gs)  e == g.embed
<1>1. all \in Seq(Group) /\ n \in Nat /\ Len(all) = n + 1 /\ all[n + 1] = g /\ \A i \in 1 .. n : all[i] = gs[i]
  BY DEF Group
<1>2. Size(g) = 1 /\ e \in Input
  BY TextFacts
<1> HIDE DEF all
<1>3. PICK t : Beginnings(gs, t) /\ Tokens(gs) = t[n]
  BY TokensOf
<1>4. PICK u : Beginnings(all, u) /\ Tokens(all) = u[Len(all)]
  BY <1>1, TokensOf
<1>5. /\ t \in [0 .. n -> Seq(Input)] /\ t[0] = << >>
      /\ \A i \in 1 .. n : t[i] = t[i-1] \o [j \in 1 .. Size(gs[i]) |-> gs[i].embed]
  BY <1>3 DEF Beginnings
<1>6. /\ u[0] = << >>
      /\ \A i \in 1 .. n + 1 : u[i] = u[i-1] \o [j \in 1 .. Size(all[i]) |-> all[i].embed]
  BY <1>1, <1>4 DEF Beginnings
<1> DEFINE P == {i \in Nat : i <= n => t[i] = u[i]}
<1>7. 0 \in P
  BY <1>5, <1>6
<1>8. ASSUME NEW i \in Nat, i \in P PROVE i + 1 \in P
  <2>1. SUFFICES ASSUME i + 1 <= n PROVE t[i + 1] = u[i + 1]
    OBVIOUS
  <2>2. i + 1 \in 1 .. n /\ i + 1 \in 1 .. n + 1 /\ (i + 1) - 1 = i /\ t[i] = u[i]
    BY <1>1, <1>8, <2>1
  <2>3. t[i + 1] = t[(i + 1) - 1] \o [j \in 1 .. Size(gs[i + 1]) |-> gs[i + 1].embed]
    BY <1>5, <2>2
  <2>4. u[i + 1] = u[(i + 1) - 1] \o [j \in 1 .. Size(all[i + 1]) |-> all[i + 1].embed]
    BY <1>6, <2>2
  <2>5. all[i + 1] = gs[i + 1]
    BY <1>1, <2>2
  <2> QED
    BY <2>2, <2>3, <2>4, <2>5
<1> HIDE DEF P
<1>9. \A i \in Nat : i \in P
  BY <1>7, <1>8, Induction
<1>10. t[n] = u[n]
  BY <1>1, <1>9 DEF P
<1>11. u[n + 1] = u[n] \o <<e>>
  <2>1. n + 1 \in 1 .. n + 1 /\ (n + 1) - 1 = n
    BY <1>1
  <2>2. u[n + 1] = u[n] \o [j \in 1 .. Size(g) |-> e]
    BY <1>1, <1>6, <2>1
  <2>3. [j \in 1 .. Size(g) |-> e] = <<e>>
    BY <1>2
  <2> QED
    BY <2>2, <2>3
<1>12. t[n] \in Seq(Input)
  BY <1>1, <1>5
<1>13. t[n] \o <<e>> = Append(t[n], e)
  BY <1>2, <1>12
<1> QED
  BY <1>1, <1>2, <1>3, <1>4, <1>10, <1>11, <1>12, <1>13 DEF IsMore, all

\* The tokens of nothing, and of one text token.
LEMMA TokensFew ==
  /\ Tokens(<< >>) = << >>
  /\ \A g \in Texts : Tokens(<<g>>) = <<g.embed>>
<1> DEFINE none == << >>
<1>1. none \in Seq(Group) /\ Len(none) = 0
  OBVIOUS
<1> HIDE DEF none
<1>2. Tokens(none) = << >>
  <2>1. PICK t : Beginnings(none, t) /\ Tokens(none) = t[Len(none)]
    BY <1>1, TokensOf
  <2> QED
    BY <1>1, <2>1 DEF Beginnings
<1>3. ASSUME NEW g \in Texts PROVE Tokens(<<g>>) = <<g.embed>>
  <2>1. none \o <<g>> = <<g>>
    BY DEF none
  <2>2. IsMore(Tokens(none \o <<g>>), Tokens(none), g.embed, Input)
    BY <1>1, TokensMore
  <2>3. Append(<< >>, g.embed) = <<g.embed>>
    OBVIOUS
  <2> QED
    BY <1>2, <2>1, <2>2, <2>3 DEF IsMore
<1> QED
  BY <1>2, <1>3 DEF none

\* Of a conversation whose later turns were computed token by token, the outputs and the
\* states of every layer are those of one run of all tokens.
OutInv ==
  /\ groups = << >> => out = << >>
  /\ groups # << >> /\ ~extended =>
       \E c : /\ Through(Tokens(groups), c)
              /\ out = c[Layers].out /\ convStates = Convs(c) /\ recurrentStates = Recs(c)

\* The invariant holds; that of the positions is needed for the tokens.
THEOREM OutputsInv == Spec => []OutInv
<1>1. Init => OutInv
  BY DEF Init, OutInv
<1>2. PosInv /\ OutInv /\ [Next]_vars => OutInv'
  <2> SUFFICES ASSUME PosInv, OutInv, [Next]_vars PROVE OutInv'
    OBVIOUS
  <2>1. ASSUME Begin PROVE OutInv'
    <3>1. PICK p \in Prompts : LET c == Forward(NoStates, NoStates, Tokens(p))
                               IN groups' = p /\ out' = c.out /\ convStates' = c.conv /\ recurrentStates' = c.rec
      BY <2>1 DEF Begin
    <3>2. p \in Seq(Group) /\ p # << >>
      BY HybridCacheAssumption DEF Group
    <3>3. Tokens(p) \in Seq(Input)
      BY <3>2, PositionsAndTokens
    <3>4. PICK c : Through(Tokens(p), c) /\ OneRun(Tokens(p)) = c[Layers].out
      BY <3>3, OneRunIs
    <3>5. /\ Forward(NoStates, NoStates, Tokens(p)).out = c[Layers].out
          /\ Forward(NoStates, NoStates, Tokens(p)).conv = Convs(c)
          /\ Forward(NoStates, NoStates, Tokens(p)).rec = Recs(c)
      BY <3>4, FirstForward
    <3>6. Tokens(p) = Tokens(groups')
      BY <3>1
    <3>7. /\ Through(Tokens(groups'), c)
          /\ out' = c[Layers].out /\ convStates' = Convs(c) /\ recurrentStates' = Recs(c)
      BY <3>1, <3>4, <3>5, <3>6
    <3>8. groups' # << >>
      BY <3>1, <3>2
    <3>9. (\E f : /\ Through(Tokens(groups), f)
                  /\ out = f[Layers].out /\ convStates = Convs(f) /\ recurrentStates = Recs(f))'
      BY <3>7 DEF Tokens, Through, Convs, Recs
    <3> QED
      BY <3>8, <3>9 DEF OutInv
  <2>2. ASSUME Decode PROVE OutInv'
    <3>1. PICK g \in Texts : Continue(<<g>>) /\ extended' = extended
      BY <2>2 DEF Decode
    <3> DEFINE y == g.embed  xs == Tokens(groups)  all == groups \o <<g>>  zs == Tokens(all)
               F == Forward(convStates, recurrentStates, <<y>>)
    <3>2. Tokens(<<g>>) = <<y>>
      BY TokensFew
    <3>3. /\ groups # << >> /\ groups' = all /\ out' = out \o F.out
          /\ convStates' = F.conv /\ recurrentStates' = F.rec
      BY <3>1, <3>2 DEF Continue
    <3>4. groups \in Seq(Group)
      BY DEF PosInv
    <3>5. all \in Seq(Group) /\ all # << >>
      BY <3>4 DEF Group
    <3>6. IsMore(zs, xs, y, Input)
      BY <3>4, TokensMore
    <3>7. SUFFICES ASSUME ~extended PROVE OutInv'
      BY <3>1, <3>3, <3>5 DEF OutInv
    <3>8. PICK c : Through(xs, c) /\ out = c[Layers].out /\ convStates = Convs(c) /\ recurrentStates = Recs(c)
      BY <3>3, <3>7 DEF OutInv
    <3>9. zs \in Seq(Input)
      BY <3>5, PositionsAndTokens
    <3> HIDE DEF y, xs, zs
    <3>10. PICK d : Through(zs, d)
      BY <3>9, OneRunIs
    <3> DEFINE e == d[Layers].out[Len(zs)]  before == c[Layers].out
    <3>11. /\ Forward(Convs(c), Recs(c), <<y>>).out = <<e>>
           /\ Forward(Convs(c), Recs(c), <<y>>).conv = Convs(d)
           /\ Forward(Convs(c), Recs(c), <<y>>).rec = Recs(d)
           /\ IsMore(d[Layers].out, before, e, Int)
      BY <3>6, <3>8, <3>10, NextForward
    <3>12. out' = d[Layers].out
      <4>1. before \in Seq(Int) /\ e \in Int /\ d[Layers].out = Append(before, e)
        BY <3>11 DEF IsMore
      <4>2. out' = before \o <<e>>
        BY <3>3, <3>8, <3>11
      <4> HIDE DEF before, e
      <4>3. before \o <<e>> = Append(before, e)
        BY <4>1
      <4> QED
        BY <4>1, <4>2, <4>3
    <3>13. Tokens(groups') = zs
      BY <3>3 DEF zs
    <3>14. /\ Through(Tokens(groups'), d)
           /\ out' = d[Layers].out /\ convStates' = Convs(d) /\ recurrentStates' = Recs(d)
      BY <3>3, <3>8, <3>10, <3>11, <3>12, <3>13
    <3>15. (\E f : /\ Through(Tokens(groups), f)
                  /\ out = f[Layers].out /\ convStates = Convs(f) /\ recurrentStates = Recs(f))'
      BY <3>14 DEF Tokens, Through, Convs, Recs
    <3> QED
      BY <3>3, <3>5, <3>15 DEF OutInv
  <2>3. ASSUME Extend PROVE OutInv'
    <3>1. PICK e \in Extensions : Continue(e) /\ extended'
      BY <2>3 DEF Extend
    <3>2. groups' = groups \o e /\ groups # << >> /\ groups \in Seq(Group) /\ e \in Seq(Group)
      BY <3>1, HybridCacheAssumption DEF Continue, PosInv, Group
    <3>3. groups' # << >>
      BY <3>2
    <3> QED
      BY <3>1, <3>3 DEF OutInv
  <2>4. ASSUME UNCHANGED vars PROVE OutInv'
    <3>1. groups' = groups /\ out' = out /\ convStates' = convStates /\ recurrentStates' = recurrentStates
          /\ extended' = extended
      BY <2>4 DEF vars
    <3>2. CASE groups # << >> /\ ~extended
      <4>1. PICK c : /\ Through(Tokens(groups), c)
                     /\ out = c[Layers].out /\ convStates = Convs(c) /\ recurrentStates = Recs(c)
        BY <3>2 DEF OutInv
      <4>2. Through(Tokens(groups'), c) /\ out' = c[Layers].out /\ convStates' = Convs(c) /\ recurrentStates' = Recs(c)
        BY <3>1, <4>1
      <4>3. (\E f : /\ Through(Tokens(groups), f)
                    /\ out = f[Layers].out /\ convStates = Convs(f) /\ recurrentStates = Recs(f))'
        BY <4>2 DEF Tokens, Through, Convs, Recs
      <4> QED
        BY <3>1, <3>2, <4>3 DEF OutInv
    <3> QED
      BY <3>1, <3>2 DEF OutInv
  <2> QED
    BY <2>1, <2>2, <2>3, <2>4 DEF Next
<1> QED
  BY <1>1, <1>2, PositionsInv, PTL DEF Spec

\* Computing a prompt in chunks and its answer token by token, from the cached states of the
\* convolution and of the gated delta rule, gives what one run over all tokens gives, for
\* every chunk size, kernel, number of layers and prompt.
THEOREM OutputsCorrect == Spec => []OutputsAsInOneRun
<1>1. PosInv /\ OutInv => OutputsAsInOneRun
  <2> SUFFICES ASSUME PosInv, OutInv, ~extended PROVE out = OneRun(Tokens(groups))
    BY DEF OutputsAsInOneRun
  <2> DEFINE xs == Tokens(groups)
  <2>1. xs \in Seq(Input)
    BY PositionsAndTokens DEF PosInv
  <2> HIDE DEF xs
  <2>2. PICK d : Through(xs, d) /\ OneRun(xs) = d[Layers].out
    BY <2>1, OneRunIs
  <2>3. CASE groups = << >>
    <3>1. xs = << >> /\ Layers \in 1 .. Layers
      BY <2>3, TokensFew, HybridCacheAssumption DEF xs
    <3>2. Layer(xs, d, Layers)
      BY <2>2, <3>1, ThroughFacts
    <3>3. d[Layers].out \in Seq(Int) /\ Len(d[Layers].out) = 0
      BY <3>1, <3>2 DEF Layer, Alike
    <3>4. d[Layers].out = << >>
      BY <3>3
    <3> QED
      BY <2>2, <2>3, <3>4 DEF OutInv, xs
  <2>4. CASE groups # << >>
    <3>1. PICK c : Through(xs, c) /\ out = c[Layers].out
      BY <2>4 DEF OutInv, xs
    <3>2. SameSteps(c, d, Layers)
      BY <2>2, <3>1 DEF Through, SameSteps
    <3>3. c[Layers] = d[Layers]
      <4>1. Layers \in Nat /\ Layers \in 0 .. Layers
        BY HybridCacheAssumption
      <4> QED
        BY <3>2, <4>1, SameBeginning
    <3> QED
      BY <2>2, <3>1, <3>3 DEF xs
  <2> QED
    BY <2>3, <2>4
<1> QED
  BY <1>1, PositionsInv, OutputsInv, PTL
=============================================================================
