------------------------- MODULE LocateAnythingProofs -------------------------
(***************************************************************************)
(* Theorems about LocateAnything, for all prompts, all guesses of the      *)
(* window, all modes and every max_new_tokens.                             *)
(***************************************************************************)
EXTENDS LocateAnything, SequenceTheorems, FiniteSetTheorems, TLAPS

-----------------------------------------------------------------------------
(* handle_pattern.                                                           *)

Guess == [1 .. 6 -> Tokens]

\* The coordinates after the <box> are counted, and the next token is none.
LEMMA CoordsFact ==
  ASSUME NEW x0 \in Guess
  PROVE  /\ Coords(x0) \in 0 .. 4
         /\ \A i \in 1 .. Coords(x0) : x0[i + 1] = "coord"
<1> DEFINE P(n) == /\ \A i \in 1 .. n : x0[i + 1] = "coord"
                   /\ n = 4 \/ x0[n + 2] # "coord"
<1>1. \E n \in 0 .. 4 : P(n)
  <2>1. CASE x0[2] # "coord"
    <3>1. P(0)  BY <2>1
    <3> QED  BY <3>1
  <2>2. CASE x0[2] = "coord" /\ x0[3] # "coord"
    <3>1. P(1)  BY <2>2
    <3> QED  BY <3>1
  <2>3. CASE x0[2] = "coord" /\ x0[3] = "coord" /\ x0[4] # "coord"
    <3>1. P(2)  BY <2>3
    <3> QED  BY <3>1
  <2>4. CASE x0[2] = "coord" /\ x0[3] = "coord" /\ x0[4] = "coord" /\ x0[5] # "coord"
    <3>1. P(3)  BY <2>4
    <3> QED  BY <3>1
  <2>5. CASE x0[2] = "coord" /\ x0[3] = "coord" /\ x0[4] = "coord" /\ x0[5] = "coord"
    <3>1. P(4)  BY <2>5
    <3> QED  BY <3>1
  <2> QED  BY <2>1, <2>2, <2>3, <2>4, <2>5
<1>2. Coords(x0) = CHOOSE n \in 0 .. 4 : P(n)
  BY DEF Coords
<1> HIDE DEF P
<1>3. Coords(x0) \in 0 .. 4 /\ P(Coords(x0))
  BY <1>1, <1>2
<1> QED  BY <1>3 DEF P

\* The tokens before the padding are counted, and there are some unless it comes first.
LEMMA UnpaddedFact ==
  ASSUME NEW x0 \in Guess
  PROVE  /\ Unpadded(x0) \in 0 .. 6
         /\ x0[1] # "null" => Unpadded(x0) >= 1
<1> DEFINE P(n) == /\ \A i \in 1 .. n : x0[i] # "null"
                   /\ n = 6 \/ x0[n + 1] = "null"
<1>1. \E n \in 0 .. 6 : P(n)
  <2>1. CASE x0[1] = "null"
    <3>1. P(0)  BY <2>1
    <3> QED  BY <3>1
  <2>2. CASE x0[1] # "null" /\ x0[2] = "null"
    <3>1. P(1)  BY <2>2
    <3> QED  BY <3>1
  <2>3. CASE x0[1] # "null" /\ x0[2] # "null" /\ x0[3] = "null"
    <3>1. P(2)  BY <2>3
    <3> QED  BY <3>1
  <2>4. CASE x0[1] # "null" /\ x0[2] # "null" /\ x0[3] # "null" /\ x0[4] = "null"
    <3>1. P(3)  BY <2>4
    <3> QED  BY <3>1
  <2>5. CASE /\ x0[1] # "null" /\ x0[2] # "null" /\ x0[3] # "null" /\ x0[4] # "null"
             /\ x0[5] = "null"
    <3>1. P(4)  BY <2>5
    <3> QED  BY <3>1
  <2>6. CASE /\ x0[1] # "null" /\ x0[2] # "null" /\ x0[3] # "null" /\ x0[4] # "null"
             /\ x0[5] # "null" /\ x0[6] = "null"
    <3>1. P(5)  BY <2>6
    <3> QED  BY <3>1
  <2>7. CASE /\ x0[1] # "null" /\ x0[2] # "null" /\ x0[3] # "null" /\ x0[4] # "null"
             /\ x0[5] # "null" /\ x0[6] # "null"
    <3>1. P(6)  BY <2>7
    <3> QED  BY <3>1
  <2> QED  BY <2>1, <2>2, <2>3, <2>4, <2>5, <2>6, <2>7
<1>2. Unpadded(x0) = CHOOSE n \in 0 .. 6 : P(n)
  BY DEF Unpadded, Window
<1> HIDE DEF P
<1>3. Unpadded(x0) \in 0 .. 6 /\ P(Unpadded(x0))
  BY <1>1, <1>2
<1> QED  BY <1>3 DEF P

\* A prefix of the window is a sequence of tokens.
LEMMA PrefixFact ==
  ASSUME NEW x0 \in Guess, NEW n \in 1 .. 6
  PROVE  /\ SubSeq(x0, 1, n) \in Seq(Tokens) /\ Len(SubSeq(x0, 1, n)) = n
         /\ \A i \in 1 .. n : SubSeq(x0, 1, n)[i] = x0[i]
<1>1. \A i \in 1 .. n : x0[i] \in Tokens
  BY DEF Guess
<1>2. /\ SubSeq(x0, 1, n) \in Seq(Tokens)
      /\ Len(SubSeq(x0, 1, n)) = IF 1 <= n THEN n - 1 + 1 ELSE 0
      /\ \A i \in 1 .. n - 1 + 1 : SubSeq(x0, 1, n)[i] = x0[1 + i - 1]
  BY <1>1, SubSeqProperties
<1> QED  BY <1>2

LEMMA PatternFields ==
  ASSUME NEW type, NEW tokens
  PROVE  Pattern(type, tokens).type = type /\ Pattern(type, tokens).tokens = tokens
BY DEF Pattern

\* The window is a sequence of six.
LEMMA GuessFact ==
  ASSUME NEW x0 \in Guess
  PROVE  x0 \in Seq(Tokens) /\ Len(x0) = 6
<1>1. x0 \in Seq(Tokens)
  BY SeqDef DEF Guess
<1>2. DOMAIN x0 = 1 .. 6
  BY DEF Guess
<1>3. Len(x0) \in Nat /\ DOMAIN x0 = 1 .. Len(x0)
  BY <1>1, LenProperties
<1> DEFINE n == Len(x0)
<1>4. 1 .. 6 = 1 .. n /\ n \in Nat
  BY <1>2, <1>3
<1> HIDE DEF n
<1>5. n = 6
  <2>1. 6 \in 1 .. n
    BY <1>4
  <2>2. n + 1 \notin 1 .. 6
    BY <1>4
  <2> QED  BY <1>4, <2>1, <2>2
<1> QED  BY <1>1, <1>5 DEF n

\* What a box becomes.
LEMMA BoxBecomes ==
  ASSUME NEW x0
  PROVE  \/ BoxPattern(x0) = Pattern("coord_box", x0)
         \/ BoxPattern(x0) = Pattern("point_box", SubSeq(x0, 1, 4))
         \/ BoxPattern(x0) = Pattern("error_box", SubSeq(x0, 1, Coords(x0) + 1))
BY Zenon DEF BoxPattern

\* Every pattern adds one to six tokens.
LEMMA PatternAdds ==
  ASSUME NEW x0 \in Guess
  PROVE  /\ handle_pattern(x0).tokens \in Seq(Tokens)
         /\ Len(handle_pattern(x0).tokens) \in 1 .. 6
<1> DEFINE out == handle_pattern(x0)
<1>1. CASE x0[1] \in {"null", "im_end"}
  BY <1>1 DEF handle_pattern, Pattern, Tokens
<1>2. CASE x0[1] = "box" /\ x0[2] = "none"
  BY <1>2 DEF handle_pattern, Pattern, Tokens
<1>3. CASE x0[1] = "box" /\ x0[2] # "none"
  <2> DEFINE n == Coords(x0)
  <2>1. out = BoxPattern(x0)
    BY <1>3 DEF handle_pattern
  <2>2. n \in 0 .. 4
    BY CoordsFact
  <2>3. \/ out.tokens = x0
        \/ out.tokens = SubSeq(x0, 1, 4)
        \/ out.tokens = SubSeq(x0, 1, n + 1)
    <3>1. /\ Pattern("coord_box", x0).tokens = x0
          /\ Pattern("point_box", SubSeq(x0, 1, 4)).tokens = SubSeq(x0, 1, 4)
          /\ Pattern("error_box", SubSeq(x0, 1, n + 1)).tokens = SubSeq(x0, 1, n + 1)
      BY PatternFields
    <3> QED  BY <2>1, <3>1, BoxBecomes
  <2>4. x0 \in Seq(Tokens) /\ Len(x0) = 6
    BY GuessFact
  <2>5. n + 1 \in 1 .. 6
    BY <2>2
  <2> HIDE DEF n
  <2>6. SubSeq(x0, 1, 4) \in Seq(Tokens) /\ Len(SubSeq(x0, 1, 4)) = 4
    BY PrefixFact
  <2>7. SubSeq(x0, 1, n + 1) \in Seq(Tokens) /\ Len(SubSeq(x0, 1, n + 1)) = n + 1
    BY <2>5, PrefixFact
  <2>8. out.tokens \in Seq(Tokens) /\ Len(out.tokens) \in 1 .. 6
    <3> HIDE DEF out
    <3>1. CASE out.tokens = x0
      BY <3>1, <2>4
    <3>2. CASE out.tokens = SubSeq(x0, 1, 4)
      BY <3>2, <2>6
    <3>3. CASE out.tokens = SubSeq(x0, 1, n + 1)
      BY <3>3, <2>5, <2>7
    <3> QED  BY <2>3, <3>1, <3>2, <3>3
  <2> QED  BY <2>8
<1>4. CASE x0[1] \notin {"null", "im_end", "box"}
  <2> DEFINE m == Unpadded(x0)
             twice == m >= 2 /\ x0[m] = "ref_end" /\ x0[m - 1] = "ref_end"
             n == IF twice THEN m - 1 ELSE m
  <2>1. out = RefPattern(x0)
    BY <1>4 DEF handle_pattern
  <2>2. m \in 1 .. 6
    BY <1>4, UnpaddedFact
  <2>3. out = Pattern("ref_object", SubSeq(x0, 1, n))
    BY <2>1, Zenon DEF RefPattern
  <2>5. out.tokens = SubSeq(x0, 1, n)
    <3> HIDE DEF n
    <3>1. Pattern("ref_object", SubSeq(x0, 1, n)).tokens = SubSeq(x0, 1, n)
      BY PatternFields
    <3> QED  BY <2>3, <3>1
  <2>4. n \in 1 .. 6
    BY <2>2
  <2> HIDE DEF n, out
  <2> QED  BY <2>5, <2>4, PrefixFact DEF out
<1> QED  BY <1>1, <1>2, <1>3, <1>4

\* A box that is not well formed is given up outside the fast mode, and leaves <box> and
\* coordinates.
LEMMA ErrorBoxLeaves ==
  ASSUME NEW x0 \in Guess, handle_pattern(x0).type = "error_box"
  PROVE  LET tokens == handle_pattern(x0).tokens
         IN tokens[1] = "box" /\ \A i \in 2 .. Len(tokens) : tokens[i] = "coord"
<1> DEFINE n == Coords(x0)
           tokens == handle_pattern(x0).tokens
<1>1. x0[1] = "box" /\ handle_pattern(x0) = BoxPattern(x0)
  BY DEF handle_pattern, RefPattern, Pattern
<1>2. tokens = SubSeq(x0, 1, n + 1)
  <2>1. handle_pattern(x0) = Pattern("error_box", SubSeq(x0, 1, n + 1))
    BY <1>1, BoxBecomes, PatternFields, SMT
  <2>2. Pattern("error_box", SubSeq(x0, 1, n + 1)).tokens = SubSeq(x0, 1, n + 1)
    BY PatternFields
  <2> HIDE DEF n
  <2> QED  BY <2>1, <2>2
<1>3. n \in 0 .. 4 /\ \A i \in 1 .. n : x0[i + 1] = "coord"
  BY CoordsFact
<1>4. n + 1 \in 1 .. 6
  BY <1>3
<1>5. Len(tokens) = n + 1 /\ \A i \in 1 .. n + 1 : tokens[i] = x0[i]
  BY <1>2, <1>4, PrefixFact
<1> HIDE DEF n, tokens
<1>6. \A i \in 2 .. n + 1 : x0[i] = "coord"
  <2>1. TAKE i \in 2 .. n + 1
  <2>2. i - 1 \in 1 .. n /\ (i - 1) + 1 = i
    BY <1>3
  <2>3. x0[(i - 1) + 1] = "coord"
    BY <1>3, <2>2
  <2> QED  BY <2>2, <2>3
<1> QED  BY <1>1, <1>3, <1>5, <1>6 DEF tokens

\* The arithmetic of a round that adds one to six tokens.
LEMMA RoundCounts ==
  ASSUME NEW i \in Nat, NEW k \in Nat, NEW s \in Nat, NEW n \in 1 .. 6, i <= k - s
  PROVE  i + 1 <= (k + n) - s
OBVIOUS

LEMMA RoundBounds ==
  ASSUME NEW s \in Nat, NEW k \in Nat, NEW n \in 1 .. 6, NEW total \in Nat,
         s <= k, k < total
  PROVE  /\ k + 1 \in s + 1 .. k + n /\ 1 \in 1 .. n /\ k + n < total + 6
         /\ \A i \in k + 1 + 1 .. k + n : i - k \in 2 .. n /\ i - k \in 1 .. n /\ i = k + (i - k)
OBVIOUS

-----------------------------------------------------------------------------
(* The inductive invariant.                                                  *)

Types ==
  /\ sliding_window \in Nat \ {0}
  /\ mode \in {"fast", "slow", "hybrid"} /\ use_mtp \in BOOLEAN /\ done \in BOOLEAN
  /\ start \in Nat \ {0} /\ iter_round \in Nat
  /\ generated \in Seq(Tokens) /\ start <= Known

Key(g, i) == [tok |-> g[i], pos |-> i - 1]

\* A row sees the tokens up to its own that are no older than the window w.
Seen(w, i) == {j \in 1 .. i : i - j <= w}
Row(w, g, i) == [tok |-> g[i], pos |-> i - 1, sees |-> {Key(g, j) : j \in Seen(w, i)}]
Rows(w, g, n) == [i \in 1 .. n |-> Row(w, g, i)]

Cached == \E n \in 0 .. Known : cache = Rows(sliding_window, generated, n)

Inv == Types /\ Cached /\ RoundsAdvance /\ ArInsideBox

\* What is appended leaves what was there.
LEMMA Appended ==
  ASSUME NEW S, NEW s \in Seq(S), NEW t \in Seq(S)
  PROVE  /\ s \o t \in Seq(S) /\ Len(s \o t) = Len(s) + Len(t)
         /\ Len(s) \in Nat /\ Len(t) \in Nat
         /\ \A i \in 1 .. Len(s) : (s \o t)[i] = s[i]
         /\ \A i \in 1 .. Len(t) : (s \o t)[Len(s) + i] = t[i]
OBVIOUS

\* The known tokens come first in what a round feeds.
LEMMA InputsFact ==
  ASSUME Types
  PROVE  /\ Len(Inputs) = IF use_mtp THEN Known + 6 ELSE Known
         /\ \A i \in 1 .. Known : Inputs[i] = generated[i]
<1> DEFINE S == Tokens \cup {"mask"}
           masks == [i \in 1 .. Window - 1 |-> "mask"]
           again == <<Last(generated)>>
<1>1. generated \in Seq(S) /\ Known \in Nat \ {0} /\ generated[Known] \in S
  BY DEF Types, Known
<1>2. again \in Seq(S) /\ Len(again) = 1
  BY <1>1 DEF Last, Known
<1>3. masks \in Seq(S) /\ Len(masks) = 5
  BY DEF Window
<1>4. /\ generated \o again \in Seq(S) /\ Len(generated \o again) = Known + 1
      /\ \A i \in 1 .. Known : (generated \o again)[i] = generated[i]
  <2> HIDE DEF again, S
  <2> QED  BY <1>1, <1>2, Appended DEF Known
<1>5. CASE use_mtp
  <2>1. Inputs = (generated \o again) \o masks
    BY <1>5 DEF Inputs
  <2> HIDE DEF again, masks, S
  <2>2. /\ Len((generated \o again) \o masks) = Known + 6
        /\ \A i \in 1 .. Known : ((generated \o again) \o masks)[i] = generated[i]
    <3> DEFINE u == generated \o again
    <3> HIDE DEF u
    <3>1. /\ u \in Seq(S) /\ Len(u) = Known + 1 /\ Known \in Nat
          /\ \A i \in 1 .. Known : u[i] = generated[i]
      BY <1>1, <1>4 DEF u
    <3>2. Len(u \o masks) = Known + 6 /\ \A i \in 1 .. Known : (u \o masks)[i] = generated[i]
      <4>1. /\ Len(u \o masks) = Len(u) + Len(masks)
            /\ \A i \in 1 .. Len(u) : (u \o masks)[i] = u[i]
        <5>1. u \in Seq(S)
          BY <3>1
        <5>2. masks \in Seq(S)
          BY <1>3
        <5> QED  BY <5>1, <5>2, Appended
      <4> QED  BY <3>1, <1>3, <4>1
    <3> QED  BY <3>2 DEF u
  <2> QED  BY <2>1, <2>2, <1>5
<1>6. CASE ~use_mtp
  BY <1>6 DEF Inputs, Known
<1> QED  BY <1>5, <1>6

\* The rows before the window see what is before them.
LEMMA KnownColumns ==
  ASSUME Types, NEW i \in 0 .. Known - 1
  PROVE  SdpaColumns(i, Len(Inputs), use_mtp) = CausalColumns(i)
<1>1. Known \in Nat
  BY DEF Types, Known
<1>2. ~(use_mtp /\ i >= Len(Inputs) - Window)
  BY <1>1, InputsFact DEF Window
<1> QED  BY <1>2, Zenon DEF SdpaColumns

\* The keys of the known tokens are theirs, cached or not.
LEMMA KnownKeys ==
  ASSUME Types, Cached, NEW i \in 1 .. Known
  PROVE  Keys[i] = Key(generated, i)
<1>1. Known \in Nat \ {0} /\ Len(Inputs) \in Nat /\ Known <= Len(Inputs)
  BY InputsFact DEF Types, Known
<1>2. PICK n \in 0 .. Known : cache = Rows(sliding_window, generated, n)
  BY DEF Cached
<1>3. Len(cache) = n /\ \A j \in 1 .. n : cache[j] = Row(sliding_window, generated, j)
  BY <1>1, <1>2 DEF Rows
<1>4. \A j \in 1 .. Known : Inputs[j] = generated[j] /\ Positions[j] = j - 1
  BY <1>1, InputsFact DEF Positions
<1>5. CASE i <= n
  BY <1>5, <1>1, <1>3 DEF Keys, Row, Key
<1>6. CASE i > n
  BY <1>6, <1>1, <1>3, <1>4 DEF Keys, Key
<1> QED  BY <1>5, <1>6

\* A round leaves the rows of the known tokens in the cache, and nothing else.
LEMMA ForwardCaches ==
  ASSUME Types, Cached, Forward
  PROVE  cache' = Rows(sliding_window, generated, Known)
<1> DEFINE rows == [i \in 1 .. Len(Inputs) |->
                      IF i <= Len(cache) THEN cache[i]
                      ELSE [tok |-> Inputs[i], pos |-> Positions[i], sees |-> Sees(i - 1)]]
<1>1. Known \in Nat \ {0} /\ Len(Inputs) \in Nat /\ Known <= Len(Inputs)
  BY InputsFact DEF Types, Known
<1>2. PICK n \in 0 .. Known : cache = Rows(sliding_window, generated, n)
  BY DEF Cached
<1>3. Len(cache) = n /\ \A i \in 1 .. n : cache[i] = Row(sliding_window, generated, i)
  BY <1>1, <1>2 DEF Rows
<1>4. \A i \in 1 .. Known : Inputs[i] = generated[i] /\ Positions[i] = i - 1
  BY <1>1, InputsFact DEF Positions
<1>5. ASSUME NEW i \in 1 .. Known
      PROVE  Keys[i] = Key(generated, i)
  BY KnownKeys
<1>6. ASSUME NEW i \in 1 .. Known
      PROVE  Sees(i - 1) = {Key(generated, j) : j \in Seen(sliding_window, i)}
  <2>1. i - 1 \in 0 .. Known - 1
    BY <1>1
  <2>2. Sees(i - 1) = {Keys[c + 1] : c \in CausalColumns(i - 1)}
    BY <2>1, KnownColumns, Zenon DEF Sees
  <2>3. \A c \in CausalColumns(i - 1) :
          c + 1 \in Seen(sliding_window, i) /\ Keys[c + 1] = Key(generated, c + 1)
    <3>1. sliding_window \in Nat
      BY DEF Types
    <3>2. \A c \in CausalColumns(i - 1) : c + 1 \in Seen(sliding_window, i) /\ c + 1 \in 1 .. Known
      BY <1>1, <3>1 DEF CausalColumns, Seen
    <3> QED BY <1>5, <3>2
  <2>4. \A j \in Seen(sliding_window, i) :
          j - 1 \in CausalColumns(i - 1) /\ Keys[j - 1 + 1] = Key(generated, j)
    <3>1. sliding_window \in Nat
      BY DEF Types
    <3>2. \A j \in Seen(sliding_window, i) :
            j - 1 \in CausalColumns(i - 1) /\ j \in 1 .. Known /\ j - 1 + 1 = j
      BY <1>1, <3>1 DEF CausalColumns, Seen
    <3> QED BY <1>5, <3>2
  <2> QED  BY <2>2, <2>3, <2>4
<1>7. ASSUME NEW i \in 1 .. Known
      PROVE  rows[i] = Row(sliding_window, generated, i)
  <2>1. CASE i <= n
    BY <2>1, <1>1, <1>3
  <2>2. CASE i > n
    <3>1. i \in 1 .. Len(Inputs) /\ ~(i <= Len(cache))
      BY <2>2, <1>1, <1>3
    <3>2. rows[i] = [tok |-> Inputs[i], pos |-> Positions[i], sees |-> Sees(i - 1)]
      BY <3>1
    <3> QED  BY <3>2, <1>4, <1>6 DEF Row
  <2> QED  BY <2>1, <2>2
<1>8. cache' = SubSeq(rows, 1, Known)
  BY DEF Forward, CutCache
<1> DEFINE S == {Row(sliding_window, generated, i) : i \in 1 .. Known}
<1> HIDE DEF rows
<1>9. \A i \in 1 .. Known : rows[i] \in S
  BY <1>7
<1> HIDE DEF S
<1>10. /\ SubSeq(rows, 1, Known) \in Seq(S) /\ Len(SubSeq(rows, 1, Known)) = Known
       /\ \A i \in 1 .. Known : SubSeq(rows, 1, Known)[i] = rows[i]
  BY <1>1, <1>9, SubSeqProperties
<1>11. SubSeq(rows, 1, Known) \in [1 .. Known -> S]
  BY <1>10, LenProperties
<1> QED  BY <1>7, <1>8, <1>10, <1>11 DEF Rows

\* The rows of the known tokens do not change when tokens are appended.
LEMMA RowsKept ==
  ASSUME NEW w, NEW g \in Seq(Tokens), NEW t \in Seq(Tokens)
  PROVE  Rows(w, g \o t, Len(g)) = Rows(w, g, Len(g))
<1>1. Len(g) \in Nat /\ \A i \in 1 .. Len(g) : (g \o t)[i] = g[i]
  BY Appended
<1>2. ASSUME NEW i \in 1 .. Len(g)
      PROVE  Row(w, g \o t, i) = Row(w, g, i)
  <2>1. \A j \in 1 .. i : j \in 1 .. Len(g)
    BY <1>1
  <2>2. \A j \in 1 .. i : Key(g \o t, j) = Key(g, j)
    BY <1>1, <2>1 DEF Key
  <2>3. {Key(g \o t, j) : j \in Seen(w, i)} = {Key(g, j) : j \in Seen(w, i)}
    <3>1. \A j \in Seen(w, i) : j \in 1 .. i
      BY DEF Seen
    <3> QED BY <2>2, <3>1
  <2> QED  BY <1>1, <2>3 DEF Row
<1> QED  BY <1>2 DEF Rows

\* What a round of either kind does with the tokens.
LEMMA RoundAdds ==
  ASSUME Inv, NEW t \in Seq(Tokens), Len(t) \in 1 .. 6, Known < Total, Forward,
         generated' = generated \o t, UNCHANGED <<mode, sliding_window, start>>,
         use_mtp' \in BOOLEAN, done' \in BOOLEAN
  PROVE  /\ Types' /\ Cached' /\ RoundsAdvance'
         /\ Known' = Known + Len(t)
         /\ \A i \in 1 .. Known : generated'[i] = generated[i]
         /\ \A i \in 1 .. Len(t) : generated'[Known + i] = t[i]
<1>1. generated \in Seq(Tokens) /\ Known \in Nat /\ start \in Nat \ {0} /\ start <= Known
  BY DEF Inv, Types, Known
<1>2. /\ generated' \in Seq(Tokens) /\ Known' = Known + Len(t)
      /\ \A i \in 1 .. Known : generated'[i] = generated[i]
      /\ \A i \in 1 .. Len(t) : generated'[Known + i] = t[i]
  BY <1>1, Appended DEF Known
<1>3. iter_round' = iter_round + 1 /\ iter_round \in Nat /\ iter_round <= Known - start
  BY DEF Forward, Inv, Types, RoundsAdvance
<1>4. Types'
  BY <1>1, <1>2, <1>3 DEF Inv, Types
<1>5. Cached'
  <2>1. cache' = Rows(sliding_window, generated, Known)
    BY ForwardCaches DEF Inv
  <2>2. cache' = Rows(sliding_window', generated', Known)
    BY <1>1, <2>1, RowsKept DEF Known
  <2>3. Known \in 0 .. Known'
    BY <1>1, <1>2
  <2> QED  BY <2>2, <2>3 DEF Cached
<1>6. RoundsAdvance'
  <2>1. Total' = Total /\ Total \in Nat
    BY <1>1, LocateAssumption DEF Total
  <2>2. iter_round' <= Known' - start'
    <3> DEFINE n == Len(t)
    <3>1. n \in 1 .. 6 /\ Known' = Known + n /\ start' = start
      BY <1>2
    <3> HIDE DEF n
    <3> QED  BY <3>1, <1>1, <1>3, RoundCounts
  <2>3. Known' < Total' + 6
    <3> DEFINE n == Len(t)
    <3>1. n \in 1 .. 6 /\ Known < Total /\ Known' = Known + n
      BY <1>2
    <3> HIDE DEF n
    <3> QED  BY <3>1, <1>1, <2>1, RoundBounds
  <2> QED  BY <2>2, <2>3 DEF RoundsAdvance, Window
<1> QED  BY <1>2, <1>4, <1>5, <1>6

LEMMA InvInit == Init => Inv
<1> SUFFICES ASSUME Init PROVE Inv
  OBVIOUS
<1>1. generated \in Seq(Tokens) /\ generated # << >> /\ mode \in {"fast", "slow", "hybrid"}
      /\ sliding_window \in Nat \ {0}
  BY LocateAssumption DEF Init
<1>2. start \in Nat \ {0} /\ start = Known
  BY <1>1 DEF Init, Known
<1>3. Types
  <2>1. use_mtp \in BOOLEAN /\ done \in BOOLEAN
    BY Zenon DEF Init
  <2> QED  BY <1>1, <1>2, <2>1 DEF Init, Types
<1>4. Cached
  <2>1. cache = Rows(sliding_window, generated, 0) /\ 0 \in 0 .. Known
    BY <1>2 DEF Init, Rows
  <2> QED  BY <2>1 DEF Cached
<1>5. RoundsAdvance
  BY <1>2, LocateAssumption DEF Init, RoundsAdvance, Total, Window
<1>6. ArInsideBox
  BY DEF Init, ArInsideBox
<1> QED  BY <1>3, <1>4, <1>5, <1>6 DEF Inv

LEMMA InvMtpRound ==
  ASSUME Inv, MtpRound
  PROVE  Inv'
<1> PICK x0 \in Guesses :
      LET out == handle_pattern(x0)
      IN /\ generated' = generated \o out.tokens
         /\ done' = (out.type = "im_end")
         /\ use_mtp' = ~(mode = "hybrid" /\ out.type = "error_box")
  BY DEF MtpRound
<1> DEFINE out == handle_pattern(x0)
<1>1. x0 \in Guess
  BY LocateAssumption DEF Guess, Window
<1>2. out.tokens \in Seq(Tokens) /\ Len(out.tokens) \in 1 .. 6
  BY <1>1, PatternAdds
<1>3. use_mtp' \in BOOLEAN /\ done' \in BOOLEAN
  BY Zenon
<1>4. /\ generated' = generated \o out.tokens /\ Forward /\ Known < Total
      /\ UNCHANGED <<mode, sliding_window, start>>
  BY DEF MtpRound
<1>5. /\ Types' /\ Cached' /\ RoundsAdvance' /\ Known' = Known + Len(out.tokens)
      /\ \A i \in 1 .. Len(out.tokens) : generated'[Known + i] = out.tokens[i]
  <2> HIDE DEF out
  <2> QED  BY <1>2, <1>3, <1>4, RoundAdds
<1>6. ArInsideBox'
  <2> SUFFICES ASSUME mode' = "hybrid", ~use_mtp', ~done'
               PROVE  \E b \in start' + 1 .. Known' :
                        /\ generated'[b] = "box"
                        /\ \A i \in b + 1 .. Known' : generated'[i] \in {"coord", "none"}
    BY DEF ArInsideBox
  <2>1. out.type = "error_box"
    BY Zenon
  <2>2. out.tokens[1] = "box" /\ \A i \in 2 .. Len(out.tokens) : out.tokens[i] = "coord"
    BY <1>1, <2>1, ErrorBoxLeaves
  <2> HIDE DEF out
  <2>3. Known \in Nat /\ start' = start /\ start \in Nat /\ start <= Known
    BY <1>4 DEF Inv, Types, Known
  <2> DEFINE n == Len(out.tokens)
  <2>6. n \in 1 .. 6 /\ Known' = Known + n /\ Known < Total
    BY <1>2, <1>4, <1>5
  <2>7. Total \in Nat
    BY <2>3, LocateAssumption DEF Total
  <2>8. /\ Known + 1 \in start' + 1 .. Known' /\ 1 \in 1 .. n
        /\ \A i \in Known + 1 + 1 .. Known' :
             i - Known \in 2 .. n /\ i - Known \in 1 .. n /\ i = Known + (i - Known)
    <3> HIDE DEF n
    <3> QED  BY <2>3, <2>6, <2>7, RoundBounds
  <2>4. Known + 1 \in start' + 1 .. Known' /\ generated'[Known + 1] = "box"
    <3>1. Known + 1 \in start' + 1 .. Known'
      BY <2>8
    <3>2. 1 \in 1 .. Len(out.tokens)
      BY <2>8
    <3>3. generated'[Known + 1] = out.tokens[1]
      BY <1>5, <3>2
    <3> QED  BY <3>1, <3>3, <2>2
  <2>5. ASSUME NEW i \in Known + 1 + 1 .. Known'
        PROVE  generated'[i] = "coord"
    <3>1. i - Known \in 2 .. Len(out.tokens) /\ i = Known + (i - Known)
      BY <2>8
    <3>2. i - Known \in 1 .. Len(out.tokens)
      BY <2>8
    <3>3. generated'[Known + (i - Known)] = out.tokens[i - Known]
      BY <1>5, <3>2
    <3> QED  BY <2>2, <3>1, <3>3
  <2> QED  BY <2>4, <2>5
<1> QED  BY <1>5, <1>6 DEF Inv

LEMMA InvArRound ==
  ASSUME Inv, ArRound
  PROVE  Inv'
<1> PICK tok \in Singles :
      /\ generated' = Append(generated, tok)
      /\ done' = Ends(tok)
      /\ use_mtp' = (mode = "hybrid" /\ tok = "box_end")
  BY DEF ArRound
<1>1. tok \in Tokens /\ generated \in Seq(Tokens)
  BY LocateAssumption DEF Inv, Types
<1>2. /\ generated' = generated \o <<tok>> /\ Forward /\ Known < Total
      /\ UNCHANGED <<mode, sliding_window, start>> /\ ~done /\ ~use_mtp
  BY <1>1 DEF ArRound
<1>3. use_mtp' \in BOOLEAN /\ done' \in BOOLEAN
  BY Zenon DEF Ends
<1>4. <<tok>> \in Seq(Tokens) /\ Len(<<tok>>) = 1 /\ <<tok>>[1] = tok
  BY <1>1
<1>5. /\ Types' /\ Cached' /\ RoundsAdvance' /\ Known' = Known + 1
      /\ \A i \in 1 .. Known : generated'[i] = generated[i]
      /\ generated'[Known + 1] = tok
  <2> DEFINE t == <<tok>>
  <2>1. t \in Seq(Tokens) /\ Len(t) \in 1 .. 6 /\ generated' = generated \o t
    BY <1>2, <1>4
  <2>2. Len(t) = 1 /\ t[1] = tok
    BY <1>4
  <2> HIDE DEF t
  <2>3. /\ Types' /\ Cached' /\ RoundsAdvance' /\ Known' = Known + Len(t)
        /\ \A i \in 1 .. Known : generated'[i] = generated[i]
        /\ \A i \in 1 .. Len(t) : generated'[Known + i] = t[i]
    BY <1>2, <1>3, <2>1, RoundAdds
  <2>4. 1 \in 1 .. Len(t)
    BY <2>2
  <2>5. generated'[Known + 1] = tok /\ Known' = Known + 1
    BY <2>2, <2>3, <2>4
  <2> QED  BY <2>3, <2>5
<1>6. ArInsideBox'
  <2> SUFFICES ASSUME mode' = "hybrid", ~use_mtp', ~done'
               PROVE  \E b \in start' + 1 .. Known' :
                        /\ generated'[b] = "box"
                        /\ \A i \in b + 1 .. Known' : generated'[i] \in {"coord", "none"}
    BY DEF ArInsideBox
  <2>1. mode = "hybrid" /\ start' = start
    BY <1>2
  <2>2. tok \in {"coord", "none"}
    BY <2>1, Zenon DEF Ends
  <2>3. PICK b \in start + 1 .. Known :
          generated[b] = "box" /\ \A i \in b + 1 .. Known : generated[i] \in {"coord", "none"}
    BY <1>2, <2>1 DEF Inv, ArInsideBox
  <2>4. Known \in Nat /\ start \in Nat
    BY DEF Inv, Types, Known
  <2>7. b \in start' + 1 .. Known' /\ b \in 1 .. Known
    BY <1>5, <2>1, <2>4
  <2>5. b \in start' + 1 .. Known' /\ b \in 1 .. Known /\ generated'[b] = "box"
    BY <1>5, <2>3, <2>7
  <2>6. ASSUME NEW i \in b + 1 .. Known'
        PROVE  generated'[i] \in {"coord", "none"}
    <3>1. CASE i <= Known
      <4>1. i \in b + 1 .. Known /\ i \in 1 .. Known
        BY <3>1, <2>4, <2>5
      <4> QED  BY <4>1, <1>5, <2>3
    <3>2. CASE i > Known
      <4>1. i = Known + 1
        BY <3>2, <1>5, <2>4, <2>5
      <4>2. generated'[i] = tok
        BY <4>1, <1>5
      <4> QED  BY <4>2, <2>2
    <3>3. i <= Known \/ i > Known
      BY <2>4, <2>5
    <3> QED  BY <3>1, <3>2, <3>3
  <2> QED  BY <2>5, <2>6
<1> QED  BY <1>5, <1>6 DEF Inv

\* Every step preserves the invariant.
LEMMA InvNext == Inv /\ [Next]_vars => Inv'
<1> SUFFICES ASSUME Inv, [Next]_vars PROVE Inv'
  OBVIOUS
<1>1. CASE MtpRound
  BY <1>1, InvMtpRound
<1>2. CASE ArRound
  BY <1>2, InvArRound
<1>3. CASE UNCHANGED vars
  <2>1. Types' /\ Known' = Known /\ Total' = Total
    BY <1>3 DEF vars, Inv, Types, Known, Total
  <2>2. Cached'
    BY <1>3, <2>1 DEF vars, Inv, Cached
  <2>3. RoundsAdvance' /\ ArInsideBox'
    BY <1>3, <2>1 DEF vars, Inv, RoundsAdvance, ArInsideBox
  <2> QED  BY <2>1, <2>2, <2>3 DEF Inv
<1> QED  BY <1>1, <1>2, <1>3 DEF Next

LEMMA Invariance == Spec => []Inv
BY InvInit, InvNext, PTL DEF Spec

-----------------------------------------------------------------------------

\* What generate has cut the cache back to is what the known tokens, of which each sees
\* those that the sliding window leaves it, alone would have left, after any sequence of
\* rounds of both kinds (modeling_locateanything.py:483).
THEOREM CacheNeverPolluted == Spec => []CacheIsOfGenerated
<1>1. Inv => CacheIsOfGenerated
  <2> SUFFICES ASSUME Inv PROVE CacheIsOfGenerated
    OBVIOUS
  <2>1. PICK n \in 0 .. Known : cache = Rows(sliding_window, generated, n)
    BY DEF Inv, Cached
  <2>2. Known \in Nat
    BY DEF Inv, Types, Known
  <2>3. Len(cache) = n /\ DOMAIN cache = 1 .. n
    BY <2>1, <2>2 DEF Rows
  <2>4. \A i \in 1 .. n : cache[i] = Row(sliding_window, generated, i)
    BY <2>1 DEF Rows
  <2>5. \A i \in 1 .. n :
          cache[i] = [tok |-> generated[i], pos |-> i - 1,
                      sees |-> {[tok |-> generated[j], pos |-> j - 1] :
                                  j \in {j \in 1 .. i : i - j <= sliding_window}}]
    BY <2>4, Zenon DEF Row, Key, Seen
  <2>6. Len(cache) <= Known
    BY <2>2, <2>3
  <2> QED  BY <2>3, <2>5, <2>6, Zenon DEF CacheIsOfGenerated
<1> QED  BY <1>1, Invariance, PTL

\* The loop of generate makes progress in every round and cannot overrun its limit by more
\* than a window.
THEOREM GenerationAdvances == Spec => []RoundsAdvance
<1>1. Inv => RoundsAdvance
  BY DEF Inv
<1> QED  BY <1>1, Invariance, PTL

\* The hybrid mode leaves the window only in the middle of a box.
THEOREM SingleStepsInBox == Spec => []ArInsideBox
<1>1. Inv => ArInsideBox
  BY DEF Inv
<1> QED  BY <1>1, Invariance, PTL

-----------------------------------------------------------------------------
(* The attention masks.                                                      *)

\* A column is seen by the ranges when one of them says so.
LEMMA MagiMember ==
  ASSUME NEW i, NEW q, NEW kv, NEW ar, NEW c
  PROVE  c \in MagiColumns(i, q, kv, ar) <=>
           /\ c \in 0 .. kv - 1
           /\ \E r \in build_magi_ranges(q, kv, ar) :
                /\ r.q0 <= i - (kv - q) /\ i - (kv - q) < r.q1 /\ r.k0 <= c /\ c < r.k1
                /\ r.type = "causal" => r.k1 - c >= r.q1 - (i - (kv - q))
BY Zenon DEF MagiColumns

\* What a range is made of.
LEMMA RangeFields ==
  ASSUME NEW q0, NEW q1, NEW k1, NEW type
  PROVE  LET r == Range3(q0, q1, k1, type)
         IN r.q0 = q0 /\ r.q1 = q1 /\ r.k0 = 0 /\ r.k1 = k1 /\ r.type = type
BY DEF Range3

\* Up to its length the sliding window cuts nothing off.
LEMMA CausalWhole ==
  ASSUME sliding_window \in Nat, NEW kv \in Nat, kv <= sliding_window, NEW i \in 0 .. kv - 1
  PROVE  CausalColumns(i) = 0 .. i
<1>1. \A c \in 0 .. i : i - c <= sliding_window
  OBVIOUS
<1> QED BY <1>1 DEF CausalColumns

\* One token at a time: the causal range is the causal mask.
LEMMA CausalAgrees ==
  ASSUME NEW q \in Nat, NEW kv \in Nat, q <= kv,
         sliding_window \in Nat, kv <= sliding_window, NEW i \in kv - q .. kv - 1
  PROVE  MagiColumns(i, q, kv, TRUE) = SdpaColumns(i, kv, FALSE)
<1>1. SdpaColumns(i, kv, FALSE) = 0 .. i
  <2>1. i \in 0 .. kv - 1
    OBVIOUS
  <2>2. CausalColumns(i) = 0 .. i
    BY <2>1, CausalWhole
  <2> QED BY <2>2, Zenon DEF SdpaColumns
<1>2. build_magi_ranges(q, kv, TRUE) = {Range3(0, q, kv, "causal")}
  BY Zenon DEF build_magi_ranges
<1>3. ASSUME NEW c PROVE c \in MagiColumns(i, q, kv, TRUE) <=> c \in 0 .. i
  <2> DEFINE r == Range3(0, q, kv, "causal")
             row == i - (kv - q)
             Covers(x) == /\ x.q0 <= row /\ row < x.q1 /\ x.k0 <= c /\ c < x.k1
                          /\ x.type = "causal" => x.k1 - c >= x.q1 - row
  <2>1. Covers(r) <=> 0 <= row /\ row < q /\ 0 <= c /\ c < kv /\ kv - c >= q - row
    <3>1. r.q0 = 0 /\ r.q1 = q /\ r.k0 = 0 /\ r.k1 = kv /\ r.type = "causal"
      BY RangeFields
    <3> HIDE DEF r, row
    <3> QED BY <3>1, Zenon
  <2>2. c \in MagiColumns(i, q, kv, TRUE) <=>
          c \in 0 .. kv - 1 /\ \E x \in build_magi_ranges(q, kv, TRUE) : Covers(x)
    BY MagiMember
  <2>3. (\E x \in build_magi_ranges(q, kv, TRUE) : Covers(x)) <=> Covers(r)
    <3> HIDE DEF Covers
    <3> QED BY <1>2
  <2>4. c \in 0 .. kv - 1 => (kv - c >= q - row <=> c <= i) /\ 0 <= row /\ row < q
    OBVIOUS
  <2>5. c \in 0 .. i <=> c \in 0 .. kv - 1 /\ c <= i
    OBVIOUS
  <2>6. c \in 0 .. kv - 1 => 0 <= c /\ c < kv
    OBVIOUS
  <2> HIDE DEF Covers, r, row
  <2> QED BY <2>1, <2>2, <2>3, <2>4, <2>5, <2>6, Zenon
<1> QED BY <1>1, <1>3

\* The range of a window over itself.
OwnRange(q, kv) == [q0 |-> q - 6, q1 |-> q, k0 |-> kv - 6, k1 |-> kv, type |-> "full"]

\* The ranges of a window: its own, the one before it, and those of the rows before it.
LEMMA WindowRanges ==
  ASSUME NEW q \in Nat, NEW kv \in Nat, NEW r
  PROVE  r \in build_magi_ranges(q, kv, FALSE) <=>
           \/ r = OwnRange(q, kv)
           \/ kv - 6 - 1 > 0 /\ r = Range3(q - 6, q, kv - 6 - 1, "full")
           \/ q = kv /\ kv - 6 > 0 /\ r = Range3(0, kv - 6, kv - 6, "causal")
           \/ q # kv /\ \E j \in 0 .. q - 6 - 1 : r = Range3(j, j + 1, kv - q + j + 1, "full")
BY Zenon DEF build_magi_ranges, Window, OwnRange

LEMMA WindowRangesOnly ==
  ASSUME NEW q \in Nat, NEW kv \in Nat, NEW r \in build_magi_ranges(q, kv, FALSE)
  PROVE  \/ r = OwnRange(q, kv)
         \/ kv - 6 - 1 > 0 /\ r = Range3(q - 6, q, kv - 6 - 1, "full")
         \/ q = kv /\ r = Range3(0, kv - 6, kv - 6, "causal")
         \/ \E j \in 0 .. q - 6 - 1 : r = Range3(j, j + 1, kv - q + j + 1, "full")
BY Zenon DEF build_magi_ranges, Window, OwnRange

\* In the window: everything but the last token known, which the window repeats.
LEMMA WindowAgrees ==
  ASSUME NEW q \in Nat, NEW kv \in Nat, q <= kv, q >= 6, kv >= 7,
         sliding_window \in Nat, kv <= sliding_window, NEW i \in kv - 6 .. kv - 1
  PROVE  MagiColumns(i, q, kv, FALSE) = SdpaColumns(i, kv, TRUE)
<1> DEFINE inner  == OwnRange(q, kv)
           before == Range3(q - 6, q, kv - 6 - 1, "full")
           row    == i - (kv - q)
           Covers(r, c) == /\ r.q0 <= row /\ row < r.q1 /\ r.k0 <= c /\ c < r.k1
                           /\ r.type = "causal" => r.k1 - c >= r.q1 - row
<1>1. SdpaColumns(i, kv, TRUE) = (0 .. kv - 1) \ {kv - 7}
  <2>1. i >= kv - 6 /\ kv - 6 - 1 = kv - 7
    OBVIOUS
  <2>2. CausalColumns(i) = 0 .. i
    <3>1. i \in 0 .. kv - 1
      OBVIOUS
    <3> QED BY <3>1, CausalWhole
  <2>3. (0 .. i) \cup (kv - 6 .. kv - 1) = 0 .. kv - 1
    OBVIOUS
  <2> QED BY <2>1, <2>2, <2>3 DEF SdpaColumns, Window
<1>2. row \in Nat /\ row >= q - 6 /\ row < q
  OBVIOUS
<1>3. \A c \in 0 .. kv - 1 : Covers(inner, c) <=> c >= kv - 6
  BY <1>2 DEF OwnRange
<1>4. \A c \in 0 .. kv - 1 : Covers(before, c) <=> c < kv - 7
  BY <1>2, RangeFields
<1>5. \A c \in 0 .. kv - 1 : ~Covers(Range3(0, kv - 6, kv - 6, "causal"), c) \/ q # kv
  BY <1>2, RangeFields
<1>6. \A c \in 0 .. kv - 1 : \A j \in 0 .. q - 6 - 1 :
        ~Covers(Range3(j, j + 1, kv - q + j + 1, "full"), c)
  BY <1>2, RangeFields
<1>7. ASSUME NEW c \in 0 .. kv - 1
      PROVE  (\E r \in build_magi_ranges(q, kv, FALSE) : Covers(r, c)) <=> c # kv - 7
  <2> HIDE DEF Covers, inner, before, row
  <2>1. (\E r \in build_magi_ranges(q, kv, FALSE) : Covers(r, c)) <=>
          Covers(inner, c) \/ (kv - 6 - 1 > 0 /\ Covers(before, c))
    <3>1. inner \in build_magi_ranges(q, kv, FALSE)
      BY WindowRanges, Zenon DEF inner
    <3>2. kv - 6 - 1 > 0 => before \in build_magi_ranges(q, kv, FALSE)
      BY WindowRanges DEF before
    <3>3. ASSUME NEW r \in build_magi_ranges(q, kv, FALSE), Covers(r, c)
          PROVE  r = inner \/ (kv - 6 - 1 > 0 /\ r = before)
      <4>1. \/ r = inner
            \/ kv - 6 - 1 > 0 /\ r = before
            \/ q = kv /\ r = Range3(0, kv - 6, kv - 6, "causal")
            \/ \E j \in 0 .. q - 6 - 1 : r = Range3(j, j + 1, kv - q + j + 1, "full")
        <5>1. \/ r = OwnRange(q, kv)
              \/ kv - 6 - 1 > 0 /\ r = Range3(q - 6, q, kv - 6 - 1, "full")
              \/ q = kv /\ r = Range3(0, kv - 6, kv - 6, "causal")
              \/ \E j \in 0 .. q - 6 - 1 : r = Range3(j, j + 1, kv - q + j + 1, "full")
          BY WindowRangesOnly, Zenon
        <5> QED BY <5>1, Zenon DEF inner, before
      <4> QED BY <4>1, <3>3, <1>5, <1>6
    <3> QED BY <3>1, <3>2, <3>3
  <2>2. kv - 6 - 1 > 0 \/ ~(c < kv - 7)
    OBVIOUS
  <2>3. c >= kv - 6 \/ c < kv - 7 <=> c # kv - 7
    OBVIOUS
  <2> QED BY <2>1, <2>2, <2>3, <1>3, <1>4
<1>8. ASSUME NEW c PROVE c \in MagiColumns(i, q, kv, FALSE) <=> c \in (0 .. kv - 1) \ {kv - 7}
  <2>1. c \in MagiColumns(i, q, kv, FALSE) <=>
          c \in 0 .. kv - 1 /\ \E r \in build_magi_ranges(q, kv, FALSE) : Covers(r, c)
    BY MagiMember
  <2> HIDE DEF Covers
  <2> QED BY <2>1, <1>7
<1> QED BY <1>1, <1>8

\* Before the window: what comes before the row, with a cache or without one.
LEMMA PrefixAgrees ==
  ASSUME NEW q \in Nat, NEW kv \in Nat, q <= kv, q >= 6, kv >= 7,
         sliding_window \in Nat, kv <= sliding_window, NEW i \in kv - q .. kv - 7
  PROVE  MagiColumns(i, q, kv, FALSE) = SdpaColumns(i, kv, TRUE)
<1> DEFINE inner  == OwnRange(q, kv)
           before == Range3(q - 6, q, kv - 6 - 1, "full")
           causal == Range3(0, kv - 6, kv - 6, "causal")
           one(j) == Range3(j, j + 1, kv - q + j + 1, "full")
           row    == i - (kv - q)
           Covers(r, c) == /\ r.q0 <= row /\ row < r.q1 /\ r.k0 <= c /\ c < r.k1
                           /\ r.type = "causal" => r.k1 - c >= r.q1 - row
<1>1. SdpaColumns(i, kv, TRUE) = 0 .. i
  <2>1. ~(i >= kv - 6)
    OBVIOUS
  <2>2. CausalColumns(i) = 0 .. i
    <3>1. i \in 0 .. kv - 1
      OBVIOUS
    <3> QED BY <3>1, CausalWhole
  <2> QED BY <2>1, <2>2 DEF SdpaColumns, Window
<1>2. row \in 0 .. q - 6 - 1
  OBVIOUS
<1>3. \A c \in 0 .. kv - 1 : ~Covers(inner, c) /\ ~Covers(before, c)
  BY <1>2, RangeFields DEF OwnRange
<1>4. q = kv => \A c \in 0 .. kv - 1 : Covers(causal, c) <=> c <= i
  BY <1>2, RangeFields
<1>5. \A c \in 0 .. kv - 1 : \A j \in 0 .. q - 6 - 1 : Covers(one(j), c) <=> j = row /\ c <= i
  BY <1>2, RangeFields
<1>6. ASSUME NEW c \in 0 .. kv - 1
      PROVE  (\E r \in build_magi_ranges(q, kv, FALSE) : Covers(r, c)) <=> c <= i
  <2> HIDE DEF Covers, inner, before, causal, one, row
  <2>1. ASSUME NEW r \in build_magi_ranges(q, kv, FALSE)
        PROVE  \/ r = inner \/ r = before
               \/ q = kv /\ r = causal
               \/ \E j \in 0 .. q - 6 - 1 : r = one(j)
    <3>1. \/ r = OwnRange(q, kv)
          \/ kv - 6 - 1 > 0 /\ r = Range3(q - 6, q, kv - 6 - 1, "full")
          \/ q = kv /\ r = Range3(0, kv - 6, kv - 6, "causal")
          \/ \E j \in 0 .. q - 6 - 1 : r = Range3(j, j + 1, kv - q + j + 1, "full")
      BY WindowRangesOnly, Zenon
    <3> QED BY <3>1, Zenon DEF inner, before, causal, one
  <2>2. q = kv => causal \in build_magi_ranges(q, kv, FALSE)
    <3>1. kv - 6 > 0
      OBVIOUS
    <3> QED BY <3>1, WindowRanges DEF causal
  <2>3. q # kv => one(row) \in build_magi_ranges(q, kv, FALSE)
    BY <1>2, WindowRanges, Zenon DEF one
  <2>4. ASSUME NEW r \in build_magi_ranges(q, kv, FALSE), Covers(r, c) PROVE c <= i
    BY <2>1, <2>4, <1>3, <1>4, <1>5
  <2>5. ASSUME c <= i PROVE \E r \in build_magi_ranges(q, kv, FALSE) : Covers(r, c)
    <3>1. CASE q = kv
      BY <3>1, <2>2, <2>5, <1>4
    <3>2. CASE q # kv
      BY <3>2, <2>3, <2>5, <1>2, <1>5
    <3> QED BY <3>1, <3>2
  <2> QED BY <2>4, <2>5
<1>7. ASSUME NEW c PROVE c \in MagiColumns(i, q, kv, FALSE) <=> c \in 0 .. i
  <2>1. c \in MagiColumns(i, q, kv, FALSE) <=>
          c \in 0 .. kv - 1 /\ \E r \in build_magi_ranges(q, kv, FALSE) : Covers(r, c)
    BY MagiMember
  <2>2. c \in 0 .. i <=> c \in 0 .. kv - 1 /\ c <= i
    OBVIOUS
  <2> HIDE DEF Covers
  <2> QED BY <2>1, <2>2, <1>6
<1> QED BY <1>1, <1>7

\* What a call of the language model is given: the tokens that are not cached, with a whole
\* window after a known token when there is one.
CallFits ==
  /\ forward.q \in Nat /\ forward.kv \in Nat /\ forward.mtp \in BOOLEAN
  /\ forward.q <= forward.kv
  /\ forward.mtp => forward.q >= 6 /\ forward.kv >= 7

\* The length of the cache.
LEMMA CacheLength == ASSUME Types, Cached PROVE Len(cache) \in 0 .. Known
<1>1. PICK n \in 0 .. Known : cache = Rows(sliding_window, generated, n)
  BY DEF Cached
<1>2. Known \in Nat
  BY DEF Types, Known
<1> QED BY <1>1, <1>2 DEF Rows

LEMMA CallFitsInit == Init => CallFits
BY DEF Init, CallFits

LEMMA CallFitsNext == Inv /\ CallFits /\ [Next]_vars => CallFits'
<1> SUFFICES ASSUME Inv, CallFits, [Next]_vars PROVE CallFits'
  OBVIOUS
<1>1. CASE Forward
  <2> DEFINE n == Len(Inputs)
             k == Len(cache)
  <2>1. forward'.q = n - k /\ forward'.kv = n
    BY <1>1 DEF Forward
  <2>2. forward'.mtp = use_mtp
    BY <1>1 DEF Forward
  <2>3. Known \in Nat \ {0} /\ k \in 0 .. Known /\ use_mtp \in BOOLEAN
        /\ n = IF use_mtp THEN Known + 6 ELSE Known
    BY InputsFact, CacheLength DEF Inv, Types, Known
  <2> HIDE DEF n, k
  <2>4. CASE use_mtp
    BY <2>1, <2>2, <2>3, <2>4 DEF CallFits
  <2>5. CASE ~use_mtp
    BY <2>1, <2>2, <2>3, <2>5 DEF CallFits
  <2> QED BY <2>4, <2>5
<1>2. CASE UNCHANGED vars
  BY <1>2 DEF vars, CallFits
<1> QED BY <1>1, <1>2 DEF Next, MtpRound, ArRound

\* Both attention back ends mask the same columns, for every row of every call, whatever is
\* cached, as long as the call is no longer than config.sliding_window, which only the mask
\* of sdpa has (mask_magi_utils.py against mask_sdpa_utils.py and modeling_qwen2.py:1276).
THEOREM BackendsAgree == Spec => []MasksAgree
<1>1. Inv /\ CallFits => MasksAgree
  <2> SUFFICES ASSUME Inv, CallFits, WithinSlidingWindow,
                      NEW i \in forward.kv - forward.q .. forward.kv - 1
               PROVE  MagiColumns(i, forward.q, forward.kv, ~forward.mtp)
                        = SdpaColumns(i, forward.kv, forward.mtp)
    BY DEF MasksAgree
  <2> DEFINE q == forward.q
             kv == forward.kv
  <2>1. q \in Nat /\ kv \in Nat /\ q <= kv /\ i \in kv - q .. kv - 1
        /\ forward.mtp \in BOOLEAN /\ (forward.mtp => q >= 6 /\ kv >= 7)
        /\ sliding_window \in Nat /\ kv <= sliding_window
    BY DEF CallFits, Inv, Types, WithinSlidingWindow
  <2> HIDE DEF q, kv
  <2>2. CASE forward.mtp = FALSE
    <3>1. MagiColumns(i, q, kv, TRUE) = SdpaColumns(i, kv, FALSE)
      BY <2>1, CausalAgrees
    <3>2. (~FALSE) = TRUE
      OBVIOUS
    <3> QED BY <2>2, <3>1, <3>2, Zenon DEF q, kv
  <2>3. CASE forward.mtp = TRUE
    <3>1. MagiColumns(i, q, kv, FALSE) = SdpaColumns(i, kv, TRUE)
      <4>1. i \in kv - 6 .. kv - 1 \/ i \in kv - q .. kv - 7
        BY <2>1
      <4> QED BY <2>1, <2>3, <4>1, WindowAgrees, PrefixAgrees
    <3>2. (~TRUE) = FALSE
      OBVIOUS
    <3> QED BY <2>3, <3>1, <3>2, Zenon DEF q, kv
  <2> QED BY <2>1, <2>2, <2>3
<1> QED BY <1>1, CallFitsInit, CallFitsNext, Invariance, PTL DEF Spec

-----------------------------------------------------------------------------
(* The window and the training mask.                                         *)

\* The positions and tokens of a training sequence whose block begins at the token
\* after known ones, as WindowAsTrained lays them out.
TrainPe(known) == [i \in 1 .. known + 1 |-> i - 1] \o [i \in 1 .. Window |-> known + i - 2]
TrainTokens(known, g) ==
  [i \in 1 .. known |-> g[i]] \o <<"later">> \o <<g[known]>> \o [i \in 1 .. Window - 1 |-> "mask"]

SeenAsTrained(known, g, call) ==
  LET trained == TrainedColumns(Len(TrainPe(known)) - 1, TrainPe(known))
  IN /\ call.sees = {[tok |-> TrainTokens(known, g)[c + 1], pos |-> TrainPe(known)[c + 1]] :
                       c \in trained}
     /\ call.columns = Cardinality(trained)

LEMMA WindowMeans ==
  /\ WindowAsTrained <=> (forward.mtp /\ WithinSlidingWindow => SeenAsTrained(Len(cache), generated, forward))
  /\ WindowAsTrained' <=> (forward'.mtp /\ WithinSlidingWindow' => SeenAsTrained(Len(cache'), generated', forward'))
<1>1. WindowAsTrained <=> (forward.mtp /\ WithinSlidingWindow => SeenAsTrained(Len(cache), generated, forward))
  BY Zenon DEF WindowAsTrained, SeenAsTrained, TrainPe, TrainTokens
<1>2. WindowAsTrained' <=> (forward'.mtp /\ WithinSlidingWindow' => SeenAsTrained(Len(cache'), generated', forward'))
  BY Zenon DEF WindowAsTrained, SeenAsTrained, TrainPe, TrainTokens
<1> QED BY <1>1, <1>2

LEMMA TrainPeFact ==
  ASSUME NEW k \in Nat \ {0}
  PROVE  /\ Len(TrainPe(k)) = k + 7
         /\ \A i \in 1 .. k + 1 : TrainPe(k)[i] = i - 1
         /\ \A i \in 1 .. 6 : TrainPe(k)[k + 1 + i] = k + i - 2
<1> DEFINE a == [i \in 1 .. k + 1 |-> i - 1]
           b == [i \in 1 .. 6 |-> k + i - 2]
<1>1. a \in Seq(Int) /\ Len(a) = k + 1 /\ \A i \in 1 .. k + 1 : a[i] = i - 1
  OBVIOUS
<1>2. b \in Seq(Int) /\ Len(b) = 6 /\ \A i \in 1 .. 6 : b[i] = k + i - 2
  OBVIOUS
<1>3. TrainPe(k) = a \o b
  BY DEF TrainPe, Window
<1> HIDE DEF a, b
<1>4. /\ Len(a \o b) = Len(a) + Len(b)
      /\ \A i \in 1 .. Len(a) : (a \o b)[i] = a[i]
      /\ \A i \in 1 .. Len(b) : (a \o b)[Len(a) + i] = b[i]
  <2>1. a \in Seq(Int)
    BY <1>1
  <2>2. b \in Seq(Int)
    BY <1>2
  <2> QED BY <2>1, <2>2, Appended
<1>5. \A i \in 1 .. k + 1 : TrainPe(k)[i] = i - 1
  BY <1>1, <1>3, <1>4
<1>6. \A i \in 1 .. 6 : TrainPe(k)[k + 1 + i] = k + i - 2
  BY <1>1, <1>2, <1>3, <1>4
<1>7. Len(TrainPe(k)) = k + 7
  BY <1>1, <1>2, <1>3, <1>4
<1> QED BY <1>5, <1>6, <1>7

\* The block starts where the positions drop, which they do once.
LEMMA TrainPrefix == ASSUME NEW k \in Nat \ {0} PROVE PrefixLength(TrainPe(k)) = k + 1
<1> DEFINE pe == TrainPe(k)
           drops == {i \in 1 .. Len(pe) - 1 : pe[i + 1] < pe[i]}
<1>1. Len(pe) = k + 7 /\ \A i \in 1 .. k + 1 : pe[i] = i - 1
  BY TrainPeFact
<1>2. \A i \in 1 .. 6 : pe[k + 1 + i] = k + i - 2
  BY TrainPeFact
<1> HIDE DEF pe
<1>3. ASSUME NEW i \in 1 .. k PROVE ~(pe[i + 1] < pe[i])
  <2>1. i \in 1 .. k + 1 /\ i + 1 \in 1 .. k + 1
    OBVIOUS
  <2> QED BY <1>1, <2>1
<1>4. pe[k + 1 + 1] < pe[k + 1]
  <2>1. k + 1 \in 1 .. k + 1 /\ 1 \in 1 .. 6
    OBVIOUS
  <2>2. pe[k + 1] = k /\ pe[k + 1 + 1] = k - 1
    BY <1>1, <1>2, <2>1
  <2> QED BY <2>2
<1>5. ASSUME NEW i \in k + 2 .. k + 6 PROVE ~(pe[i + 1] < pe[i])
  <2>1. PICK j \in 1 .. 5 : i = k + 1 + j
    <3>1. i - (k + 1) \in 1 .. 5 /\ i = k + 1 + (i - (k + 1))
      OBVIOUS
    <3> QED BY <3>1
  <2>2. j \in 1 .. 6 /\ j + 1 \in 1 .. 6 /\ i + 1 = k + 1 + (j + 1)
    BY <2>1
  <2>3. pe[i] = k + j - 2 /\ pe[i + 1] = k + (j + 1) - 2
    BY <1>2, <2>1, <2>2
  <2> QED BY <2>3
<1>6. drops = {k + 1}
  <2>1. ASSUME NEW i \in drops PROVE i = k + 1
    <3>1. i \in 1 .. k + 6 /\ pe[i + 1] < pe[i]
      BY <1>1
    <3>2. i \in 1 .. k \/ i = k + 1 \/ i \in k + 2 .. k + 6
      BY <3>1
    <3> QED BY <1>3, <1>5, <3>1, <3>2
  <2>2. k + 1 \in drops
    <3>1. k + 1 \in 1 .. Len(pe) - 1
      BY <1>1
    <3> QED BY <1>4, <3>1
  <2> HIDE DEF drops
  <2> QED BY <2>1, <2>2
<1>7. PrefixLength(pe) = IF drops = {} THEN -1 ELSE CHOOSE i \in drops : \A j \in drops : i <= j
  BY DEF PrefixLength
<1> HIDE DEF drops
<1>8. k + 1 <= k + 1
  OBVIOUS
<1>9. PrefixLength(pe) = CHOOSE i \in {k + 1} : \A j \in {k + 1} : i <= j
  BY <1>6, <1>7
<1>10. \E i \in {k + 1} : \A j \in {k + 1} : i <= j
  BY <1>8
<1>11. (CHOOSE i \in {k + 1} : \A j \in {k + 1} : i <= j) \in {k + 1}
  BY <1>10, Zenon
<1> QED BY <1>9, <1>11 DEF pe

\* In training, the last row sees the tokens before the block's first position, and the block.
LEMMA TrainedSees ==
  ASSUME NEW k \in Nat \ {0}
  PROVE  TrainedColumns(k + 6, TrainPe(k)) = (0 .. k + 6) \ {k - 1, k}
<1> DEFINE pe == TrainPe(k)
           x0 == k + 1
           B(c) == (c - x0) \div 6
           first == x0 + B(k + 6) * 6
<1>1. Len(pe) = k + 7 /\ pe[k + 2] = k - 1
  <2>1. 1 \in 1 .. 6 /\ k + 1 + 1 = k + 2 /\ k + 1 - 2 = k - 1
    OBVIOUS
  <2> QED BY <2>1, TrainPeFact
<1>2. B(k + 6) = 0
  <2>1. k + 6 - (k + 1) = 5
    OBVIOUS
  <2> QED BY <2>1
<1>3. first = k + 1 /\ first + 1 = k + 2
  BY <1>2
<1>4. \A c \in k + 1 .. k + 6 : B(c) = 0
  <2>1. TAKE c \in k + 1 .. k + 6
  <2>2. c - (k + 1) \in 0 .. 5
    OBVIOUS
  <2>3. \A d \in 0 .. 5 : d \div 6 = 0
    OBVIOUS
  <2> QED BY <2>2, <2>3
<1>5. TrainedColumns(k + 6, pe) =
        IF k + 6 < x0 THEN 0 .. k + 6
        ELSE {c \in 0 .. Len(pe) - 1 : IF c < x0 THEN c < pe[first + 1] ELSE B(c) = B(k + 6)}
  BY TrainPrefix DEF TrainedColumns, Window
<1> HIDE DEF pe, B
<1>6. ~(k + 6 < x0)
  OBVIOUS
<1>7. TrainedColumns(k + 6, pe) =
        {c \in 0 .. k + 7 - 1 : IF c < k + 1 THEN c < k - 1 ELSE B(c) = 0}
  BY <1>1, <1>2, <1>3, <1>5, <1>6
<1>8. ASSUME NEW c
      PROVE  c \in {d \in 0 .. k + 7 - 1 : IF d < k + 1 THEN d < k - 1 ELSE B(d) = 0}
               <=> c \in (0 .. k + 6) \ {k - 1, k}
  <2>1. CASE c \in 0 .. k
    BY <2>1
  <2>2. CASE c \in k + 1 .. k + 6
    BY <1>4, <2>2
  <2>3. CASE c \notin 0 .. k + 6
    BY <2>3
  <2>4. c \in 0 .. k \/ c \in k + 1 .. k + 6 \/ c \notin 0 .. k + 6
    OBVIOUS
  <2> QED BY <2>1, <2>2, <2>3, <2>4
<1> QED BY <1>7, <1>8 DEF pe

\* Both see as many rows.
LEMMA SeenCounts ==
  ASSUME NEW k \in Nat \ {0}
  PROVE  Cardinality((0 .. k + 5) \ {k - 1}) = Cardinality((0 .. k + 6) \ {k - 1, k})
<1>1. IsFiniteSet(0 .. k + 5) /\ Cardinality(0 .. k + 5) = k + 6
  <2>1. 0 \in Int /\ k + 5 \in Int
    OBVIOUS
  <2>2. /\ IsFiniteSet(0 .. k + 5)
        /\ Cardinality(0 .. k + 5) = IF 0 > k + 5 THEN 0 ELSE k + 5 - 0 + 1
    BY <2>1, FS_Interval
  <2> QED BY <2>2
<1>2. IsFiniteSet(0 .. k + 6) /\ Cardinality(0 .. k + 6) = k + 7
  <2>1. 0 \in Int /\ k + 6 \in Int
    OBVIOUS
  <2>2. /\ IsFiniteSet(0 .. k + 6)
        /\ Cardinality(0 .. k + 6) = IF 0 > k + 6 THEN 0 ELSE k + 6 - 0 + 1
    BY <2>1, FS_Interval
  <2> QED BY <2>2
<1> DEFINE S == 0 .. k + 5
           T == 0 .. k + 6
           U == T \ {k - 1}
<1>3. k - 1 \in S /\ k - 1 \in T /\ k \in U
  OBVIOUS
<1> HIDE DEF S, T
<1>4. Cardinality(S \ {k - 1}) = Cardinality(S) - 1
  BY <1>1, <1>3, FS_RemoveElement DEF S
<1>5. IsFiniteSet(U) /\ Cardinality(U) = Cardinality(T) - 1
  BY <1>2, <1>3, FS_RemoveElement DEF T
<1> HIDE DEF U
<1>6. Cardinality(U \ {k}) = Cardinality(U) - 1
  BY <1>3, <1>5, FS_RemoveElement
<1>7. U \ {k} = T \ {k - 1, k}
  BY DEF U
<1>8. Cardinality(S \ {k - 1}) = Cardinality(T \ {k - 1, k})
  <2>1. Cardinality(S) = k + 6 /\ Cardinality(T) = k + 7
    BY <1>1, <1>2 DEF S, T
  <2> QED BY <1>4, <1>5, <1>6, <1>7, <2>1
<1> QED BY <1>8 DEF S, T

\* What a window feeds after the known tokens: the last of them again, and masks.
LEMMA WindowInputs ==
  ASSUME Types, use_mtp
  PROVE  /\ Len(Inputs) = Known + 6
         /\ Inputs[Known + 1] = generated[Known]
         /\ \A i \in 2 .. 6 : Inputs[Known + i] = "mask"
<1> DEFINE S == Tokens \cup {"mask"}
           masks == [i \in 1 .. Window - 1 |-> "mask"]
           again == <<Last(generated)>>
           u == generated \o again
<1>1. generated \in Seq(S) /\ Known \in Nat \ {0} /\ generated[Known] \in S /\ Known = Len(generated)
  BY DEF Types, Known
<1>2. again \in Seq(S) /\ Len(again) = 1 /\ again[1] = generated[Known]
  BY <1>1 DEF Last, Known
<1>3. masks \in Seq(S) /\ Len(masks) = 5 /\ \A i \in 1 .. 5 : masks[i] = "mask"
  BY DEF Window
<1>4. Inputs = u \o masks
  BY DEF Inputs
<1> HIDE DEF S, masks, again
<1>5. u \in Seq(S) /\ Len(u) = Known + 1 /\ u[Known + 1] = generated[Known]
  <2>1. /\ u \in Seq(S) /\ Len(u) = Len(generated) + Len(again)
        /\ \A i \in 1 .. Len(again) : u[Len(generated) + i] = again[i]
    <3>1. generated \in Seq(S)
      BY <1>1
    <3>2. again \in Seq(S)
      BY <1>2
    <3> QED BY <3>1, <3>2, Appended
  <2> QED BY <1>1, <1>2, <2>1
<1> HIDE DEF u
<1>6. /\ Len(u \o masks) = Len(u) + Len(masks)
      /\ \A i \in 1 .. Len(u) : (u \o masks)[i] = u[i]
      /\ \A i \in 1 .. Len(masks) : (u \o masks)[Len(u) + i] = masks[i]
  <2>1. u \in Seq(S)
    BY <1>5
  <2>2. masks \in Seq(S)
    BY <1>3
  <2> QED BY <2>1, <2>2, Appended
<1>7. ASSUME NEW i \in 2 .. 6 PROVE Inputs[Known + i] = "mask"
  <2>1. PICK j \in 1 .. 5 : i = 1 + j
    <3>1. i - 1 \in 1 .. 5 /\ i = 1 + (i - 1)
      OBVIOUS
    <3> QED BY <3>1
  <2>2. Known + i = Len(u) + j /\ j \in 1 .. Len(masks)
    BY <1>1, <1>3, <1>5, <2>1
  <2>3. (u \o masks)[Len(u) + j] = masks[j]
    BY <1>6, <2>2
  <2> QED BY <1>3, <1>4, <2>2, <2>3
<1> QED BY <1>1, <1>3, <1>4, <1>5, <1>6, <1>7

\* The tokens of the training sequence.
LEMMA TrainTokensFact ==
  ASSUME NEW k \in Nat \ {0}, NEW g, \A i \in 1 .. k : g[i] \in Tokens
  PROVE  /\ \A i \in 1 .. k : TrainTokens(k, g)[i] = g[i]
         /\ TrainTokens(k, g)[k + 2] = g[k]
         /\ \A i \in 2 .. 6 : TrainTokens(k, g)[k + 1 + i] = "mask"
<1> DEFINE S == Tokens \cup {"mask", "later"}
           a == [i \in 1 .. k |-> g[i]]
           l == <<"later">>
           e == <<g[k]>>
           masks == [i \in 1 .. Window - 1 |-> "mask"]
<1>1. a \in Seq(S) /\ Len(a) = k /\ \A i \in 1 .. k : a[i] = g[i]
  OBVIOUS
<1>2. l \in Seq(S) /\ Len(l) = 1 /\ e \in Seq(S) /\ Len(e) = 1 /\ e[1] = g[k]
  OBVIOUS
<1>3. masks \in Seq(S) /\ Len(masks) = 5 /\ \A i \in 1 .. 5 : masks[i] = "mask"
  BY DEF Window
<1>4. TrainTokens(k, g) = ((a \o l) \o e) \o masks
  BY DEF TrainTokens
<1> HIDE DEF S, a, l, e, masks
<1> DEFINE u == a \o l
           v == u \o e
<1>5. u \in Seq(S) /\ Len(u) = k + 1 /\ \A i \in 1 .. k : u[i] = g[i]
  <2>1. /\ u \in Seq(S) /\ Len(u) = Len(a) + Len(l)
        /\ \A i \in 1 .. Len(a) : u[i] = a[i]
    <3>1. a \in Seq(S)
      BY <1>1
    <3>2. l \in Seq(S)
      BY <1>2
    <3> QED BY <3>1, <3>2, Appended
  <2> QED BY <1>1, <1>2, <2>1
<1> HIDE DEF u
<1>6. v \in Seq(S) /\ Len(v) = k + 2 /\ v[k + 2] = g[k] /\ \A i \in 1 .. k : v[i] = g[i]
  <2>1. /\ v \in Seq(S) /\ Len(v) = Len(u) + Len(e)
        /\ \A i \in 1 .. Len(u) : v[i] = u[i]
        /\ \A i \in 1 .. Len(e) : v[Len(u) + i] = e[i]
    <3>1. u \in Seq(S)
      BY <1>5
    <3>2. e \in Seq(S)
      BY <1>2
    <3> QED BY <3>1, <3>2, Appended
  <2>2. 1 \in 1 .. Len(e) /\ Len(u) + 1 = k + 2
    BY <1>2, <1>5
  <2> QED BY <1>2, <1>5, <2>1, <2>2
<1> HIDE DEF v
<1>7. /\ \A i \in 1 .. Len(v) : (v \o masks)[i] = v[i]
      /\ \A i \in 1 .. Len(masks) : (v \o masks)[Len(v) + i] = masks[i]
  <2>1. v \in Seq(S)
    BY <1>6
  <2>2. masks \in Seq(S)
    BY <1>3
  <2> QED BY <2>1, <2>2, Appended
<1>8. TrainTokens(k, g) = v \o masks
  BY <1>4 DEF u, v
<1>9. ASSUME NEW i \in 2 .. 6 PROVE TrainTokens(k, g)[k + 1 + i] = "mask"
  <2>1. PICK j \in 1 .. 5 : i = 1 + j
    <3>1. i - 1 \in 1 .. 5 /\ i = 1 + (i - 1)
      OBVIOUS
    <3> QED BY <3>1
  <2>2. k + 1 + i = Len(v) + j /\ j \in 1 .. Len(masks)
    BY <1>3, <1>6, <2>1
  <2>3. (v \o masks)[Len(v) + j] = masks[j]
    BY <1>7, <2>2
  <2> QED BY <1>3, <1>8, <2>2, <2>3
<1>10. \A i \in 1 .. k : TrainTokens(k, g)[i] = g[i]
  <2>1. \A i \in 1 .. k : i \in 1 .. Len(v)
    BY <1>6
  <2> QED BY <1>6, <1>7, <1>8, <2>1
<1>11. TrainTokens(k, g)[k + 2] = g[k]
  <2>1. k + 2 \in 1 .. Len(v)
    BY <1>6
  <2> QED BY <1>6, <1>7, <1>8, <2>1
<1> QED BY <1>9, <1>10, <1>11

\* Those of the window come after them.
LEMMA WindowKeys ==
  ASSUME Types, Cached, use_mtp, NEW i \in Known + 1 .. Known + 6
  PROVE  Keys[i] = [tok |-> Inputs[i], pos |-> i - 2]
<1>1. Known \in Nat \ {0} /\ Len(cache) \in 0 .. Known /\ Len(Inputs) = Known + 6
  BY CacheLength, WindowInputs DEF Types, Known
<1>2. i \in 1 .. Len(Inputs) /\ ~(i <= Len(cache)) /\ i > Known
  BY <1>1
<1>3. Positions[i] = i - 2
  BY <1>2 DEF Positions
<1>4. Keys[i] = [tok |-> Inputs[i], pos |-> Positions[i]]
  BY <1>2 DEF Keys
<1> QED BY <1>3, <1>4

\* What a window sees is what it saw in training.
LEMMA WindowRound ==
  ASSUME Inv, MtpRound
  PROVE  WindowAsTrained'
<1> SUFFICES ASSUME WithinSlidingWindow' PROVE WindowAsTrained'
  BY DEF WindowAsTrained
<1> PICK x0 \in Guesses : generated' = generated \o handle_pattern(x0).tokens
  BY DEF MtpRound
<1> DEFINE K == Known
           sdpa == (0 .. K + 5) \ {K - 1}
           trained == (0 .. K + 6) \ {K - 1, K}
           TT == TrainTokens(K, generated')
           E(c) == [tok |-> TT[c + 1], pos |-> TrainPe(K)[c + 1]]
<1>1. /\ use_mtp /\ Forward /\ Types /\ Cached
  BY DEF MtpRound, Inv
<1>2. generated \in Seq(Tokens) /\ K \in Nat \ {0} /\ K = Len(generated)
  BY <1>1 DEF Types, Known
<1>3. \A i \in 1 .. K : generated'[i] = generated[i] /\ generated[i] \in Tokens
  <2> DEFINE t == handle_pattern(x0).tokens
  <2>1. t \in Seq(Tokens)
    <3>1. x0 \in Guess
      BY LocateAssumption DEF Guess, Window
    <3> QED BY <3>1, PatternAdds
  <2> HIDE DEF t
  <2>2. \A i \in 1 .. Len(generated) : (generated \o t)[i] = generated[i]
    BY <1>2, <2>1, Appended
  <2>3. \A i \in 1 .. Len(generated) : generated[i] \in Tokens
    BY <1>2
  <2> QED BY <1>2, <2>2, <2>3 DEF t
<1>4. Len(cache') = K
  <2>1. cache' = Rows(sliding_window, generated, K)
    BY <1>1, ForwardCaches
  <2> QED BY <1>2, <2>1 DEF Rows
<1>5. Len(Inputs) = K + 6 /\ Inputs[K + 1] = generated[K]
      /\ \A j \in 2 .. 6 : Inputs[K + j] = "mask"
  BY <1>1, WindowInputs
<1>6. SdpaColumns(Len(Inputs) - 1, Len(Inputs), use_mtp) = sdpa
  <2>1. Len(Inputs) - 1 >= Len(Inputs) - 6 /\ Len(Inputs) - 1 = K + 5 /\ Len(Inputs) - 6 - 1 = K - 1
    BY <1>2, <1>5
  <2>2. K + 6 \in Nat /\ K + 5 \in 0 .. K + 6 - 1 /\ sliding_window \in Nat /\ K + 6 <= sliding_window
    <3>1. forward'.kv = Len(Inputs) /\ sliding_window' = sliding_window
      BY <1>1 DEF Forward, MtpRound
    <3>2. sliding_window \in Nat
      BY <1>1 DEF Types
    <3> QED BY <1>2, <1>5, <3>1, <3>2 DEF WithinSlidingWindow
  <2>3. CausalColumns(K + 5) = 0 .. K + 5
    <3>1. PICK k \in Nat : k = K + 6
      BY <2>2
    <3>2. PICK i \in 0 .. k - 1 : i = K + 5
      BY <1>2, <3>1
    <3>3. k <= sliding_window /\ sliding_window \in Nat
      BY <2>2, <3>1
    <3>4. CausalColumns(i) = 0 .. i
      BY <3>3, CausalWhole
    <3> HIDE DEF K
    <3> QED BY <3>2, <3>4
  <2>4. (0 .. K + 5) \cup (Len(Inputs) - 6 .. Len(Inputs) - 1) = 0 .. K + 5
    BY <1>2, <1>5
  <2> QED BY <1>1, <2>1, <2>3, <2>4 DEF SdpaColumns, Window
<1>7. forward'.sees = {Keys[c + 1] : c \in sdpa} /\ forward'.columns = Cardinality(sdpa)
  <2>1. forward'.sees = Sees(Len(Inputs) - 1)
        /\ forward'.columns = Cardinality(SdpaColumns(Len(Inputs) - 1, Len(Inputs), use_mtp))
    BY <1>1 DEF Forward
  <2>2. Sees(Len(Inputs) - 1)
          = {Keys[c + 1] : c \in SdpaColumns(Len(Inputs) - 1, Len(Inputs), use_mtp)}
    BY Zenon DEF Sees
  <2> HIDE DEF sdpa
  <2> QED BY <1>6, <2>1, <2>2
<1>8. /\ \A i \in 1 .. K : TT[i] = generated[i]
      /\ TT[K + 2] = generated[K]
      /\ \A i \in 2 .. 6 : TT[K + 1 + i] = "mask"
  <2>1. \A i \in 1 .. K : generated'[i] \in Tokens
    BY <1>3
  <2>2. K \in 1 .. K
    BY <1>2
  <2> DEFINE g == generated'
  <2>3. K \in Nat \ {0} /\ \A i \in 1 .. K : g[i] = generated[i] /\ g[i] \in Tokens
    BY <1>2, <1>3, <2>1
  <2> HIDE DEF K, g
  <2>4. /\ \A i \in 1 .. K : TrainTokens(K, g)[i] = g[i]
        /\ TrainTokens(K, g)[K + 2] = g[K]
        /\ \A i \in 2 .. 6 : TrainTokens(K, g)[K + 1 + i] = "mask"
    BY <2>3, TrainTokensFact
  <2>5. /\ \A i \in 1 .. K : TrainTokens(K, g)[i] = generated[i]
        /\ TrainTokens(K, g)[K + 2] = generated[K]
        /\ \A i \in 2 .. 6 : TrainTokens(K, g)[K + 1 + i] = "mask"
    BY <2>2, <2>3, <2>4
  <2> QED BY <2>5 DEF g
<1>9. /\ \A i \in 1 .. K + 1 : TrainPe(K)[i] = i - 1
      /\ \A i \in 1 .. 6 : TrainPe(K)[K + 1 + i] = K + i - 2
      /\ Len(TrainPe(K)) - 1 = K + 6
  <2> HIDE DEF K
  <2>1. Len(TrainPe(K)) = K + 7
    BY <1>2, TrainPeFact
  <2>2. K \in Nat
    BY <1>2
  <2>3. Len(TrainPe(K)) - 1 = K + 6
    BY <2>1, <2>2
  <2> QED BY <1>2, <2>3, TrainPeFact
<1>10. ASSUME NEW c \in 0 .. K - 2 PROVE Keys[c + 1] = E(c)
  <2>1. c + 1 \in 1 .. K /\ c + 1 \in 1 .. K + 1
    BY <1>2
  <2>2. Keys[c + 1] = [tok |-> generated[c + 1], pos |-> c + 1 - 1]
    BY <1>1, <2>1, KnownKeys DEF Key
  <2> HIDE DEF K, TT
  <2>3. TT[c + 1] = generated[c + 1] /\ TrainPe(K)[c + 1] = c + 1 - 1
    BY <1>8, <1>9, <2>1
  <2> QED BY <2>2, <2>3
<1>11. ASSUME NEW j \in 1 .. 6 PROVE Keys[K + j] = E(K + j)
  <2>1. Keys[K + j] = [tok |-> Inputs[K + j], pos |-> K + j - 2]
    <3>1. K + j \in Known + 1 .. Known + 6
      BY <1>2
    <3>2. PICK i \in Known + 1 .. Known + 6 : i = K + j
      BY <3>1
    <3>3. Keys[i] = [tok |-> Inputs[i], pos |-> i - 2]
      BY <1>1, WindowKeys
    <3>4. K \in Nat /\ i \in Nat
      BY <1>2, <3>2
    <3> HIDE DEF K
    <3> QED BY <3>2, <3>3, <3>4
  <2> HIDE DEF K, TT
  <2>2. K + j + 1 = K + 1 + j
    BY <1>2
  <2>3. TrainPe(K)[K + j + 1] = K + j - 2
    BY <1>9, <2>2
  <2>4. TT[K + j + 1] = Inputs[K + j]
    <3>1. CASE j = 1
      <4>1. K + j + 1 = K + 2
        BY <1>2, <3>1
      <4> QED BY <1>5, <1>8, <3>1, <4>1
    <3>2. CASE j \in 2 .. 6
      BY <1>5, <1>8, <2>2, <3>2
    <3> QED BY <3>1, <3>2
  <2> QED BY <2>1, <2>3, <2>4
<1>12. {Keys[c + 1] : c \in sdpa} = {E(c) : c \in trained}
  <2> HIDE DEF E
  <2>1. ASSUME NEW c \in sdpa PROVE \E d \in trained : Keys[c + 1] = E(d)
    <3>1. c \in 0 .. K - 2 \/ c - K + 1 \in 1 .. 6
      BY <1>2
    <3>2. CASE c \in 0 .. K - 2
      <4>1. c \in trained
        BY <1>2, <3>2
      <4> QED BY <1>10, <3>2, <4>1
    <3>3. CASE c - K + 1 \in 1 .. 6
      <4>1. K + (c - K + 1) = c + 1 /\ c + 1 \in trained
        BY <1>2, <3>3
      <4>2. Keys[K + (c - K + 1)] = E(K + (c - K + 1))
        BY <1>11, <3>3
      <4> QED BY <4>1, <4>2
    <3> QED BY <3>1, <3>2, <3>3
  <2>2. ASSUME NEW d \in trained PROVE \E c \in sdpa : Keys[c + 1] = E(d)
    <3>1. d \in 0 .. K - 2 \/ d - K \in 1 .. 6
      BY <1>2
    <3>2. CASE d \in 0 .. K - 2
      <4>1. d \in sdpa
        BY <1>2, <3>2
      <4> QED BY <1>10, <3>2, <4>1
    <3>3. CASE d - K \in 1 .. 6
      <4>1. K + (d - K) = d /\ d - 1 \in sdpa /\ d - 1 + 1 = d
        BY <1>2, <3>3
      <4>2. Keys[K + (d - K)] = E(K + (d - K))
        BY <1>11, <3>3
      <4> QED BY <4>1, <4>2
    <3> QED BY <3>1, <3>2, <3>3
  <2> HIDE DEF sdpa, trained
  <2> QED BY <2>1, <2>2
<1>13. TrainedColumns(Len(TrainPe(K)) - 1, TrainPe(K)) = trained
  <2> HIDE DEF K
  <2> QED BY <1>2, <1>9, TrainedSees
<1>14. Cardinality(sdpa) = Cardinality(trained)
  <2> HIDE DEF K
  <2> QED BY <1>2, SeenCounts
<1> HIDE DEF trained, sdpa, K
<1>15. /\ forward'.sees = {[tok |-> TT[c + 1], pos |-> TrainPe(K)[c + 1]] :
                              c \in TrainedColumns(Len(TrainPe(K)) - 1, TrainPe(K))}
       /\ forward'.columns = Cardinality(TrainedColumns(Len(TrainPe(K)) - 1, TrainPe(K)))
  BY <1>7, <1>12, <1>13, <1>14
<1>16. SeenAsTrained(K, generated', forward')
  BY <1>15, Zenon DEF SeenAsTrained
<1>17. SeenAsTrained(Len(cache'), generated', forward')
  BY <1>4, <1>16
<1> QED BY <1>17, WindowMeans

\* The first window of a state that has none yet, and single tokens, are no windows.
LEMMA WindowOther ==
  ASSUME Inv, WindowAsTrained, [Next]_vars, ~MtpRound
  PROVE  WindowAsTrained'
<1>1. CASE ArRound
  <2>1. forward'.mtp = FALSE
    BY <1>1 DEF ArRound, Forward
  <2> QED BY <2>1 DEF WindowAsTrained
<1>2. CASE UNCHANGED vars
  <2>1. UNCHANGED <<generated, cache, forward, sliding_window>>
    BY <1>2 DEF vars
  <2>2. SeenAsTrained(Len(cache'), generated', forward') <=> SeenAsTrained(Len(cache), generated, forward)
    BY <2>1
  <2>3. WithinSlidingWindow' = WithinSlidingWindow
    BY <2>1 DEF WithinSlidingWindow
  <2> QED BY <2>1, <2>2, <2>3, WindowMeans
<1> QED BY <1>1, <1>2 DEF Next

\* The columns that the window of a round attends to hold the tokens and positions that its
\* block attended to in training, as many of them, although one token is fed twice and a part
\* comes from the cache, as long as the call is no longer than the sliding window (generate of modeling_locateanything.py against
\* create_block_diff_mask_by_pe_4d).
THEOREM WindowsSeeTheirTraining == Spec => []WindowAsTrained
<1>1. Init => WindowAsTrained
  BY DEF Init, WindowAsTrained
<1>2. Inv /\ WindowAsTrained /\ [Next]_vars => WindowAsTrained'
  BY WindowRound, WindowOther
<1> QED BY <1>1, <1>2, Invariance, PTL DEF Spec
=============================================================================
