---------------------------- MODULE AsrOnlineProofs ----------------------------
(***************************************************************************)
(* Proofs about AsrOnline, for audio of any length, any rollback and any   *)
(* answers of the language model: what is shown piece by piece is the text *)
(* of everything recognised, wherever a round cuts the tokens, the         *)
(* separator between language and text included.                           *)
(***************************************************************************)
EXTENDS AsrOnline, SequenceTheorems, WellFoundedInduction, TLAPS

Types ==
  /\ pc \in {"round", "done", "failed"}
  /\ round \in 0 .. Chunks /\ remaining \in Nat
  /\ committed \in Seq(Tokens) /\ rollback \in Seq(Tokens)

\* committed_output_started says whether the committed tokens hold the separator, and the
\* pieces printed are their text.
Pieces ==
  /\ started = TextStarted(committed, FALSE)
  /\ printed = TextOf(committed, FALSE)
  /\ unfix = TextOf(rollback, started)

\* The last round rolls nothing back, and the final result comes after it.
Flushed ==
  /\ round = Chunks /\ Chunks > 0 => rollback = <<>>
  /\ pc = "done" => round = Chunks /\ final = TextOf(committed, FALSE)

Inv == Types /\ Pieces /\ Flushed

-----------------------------------------------------------------------------
(* The text of tokens that come in two parts.                                *)

\* A set of numbers that is not empty has a smallest one.
LEMMA Smallest ==
  ASSUME NEW T \in SUBSET Nat, T # {}
  PROVE  Min(T) \in T /\ \A y \in T : Min(T) <= y
<1>1. PICK x \in T : \A y \in T : ~(<<y, x>> \in OpToRel(<, Nat))
  BY NatLessThanWellFounded, WFMin
<1>2. \A y \in T : ~(y < x)
  BY <1>1 DEF OpToRel
<1>3. \A y \in T : x =< y
  BY <1>2
<1> QED BY <1>3 DEF Min

\* The text begins after the first separator.
LEMMA TextFrom ==
  ASSUME NEW t \in Seq(Tokens), NEW m \in 1 .. Len(t), t[m] = AsrTextToken,
         \A i \in 1 .. m - 1 : t[i] # AsrTextToken
  PROVE  TextOf(t, FALSE) = SubSeq(t, m + 1, Len(t)) /\ TextStarted(t, FALSE) = TRUE
<1> DEFINE marks == {i \in 1 .. Len(t) : t[i] = AsrTextToken}
<1>1. marks \in SUBSET Nat /\ m \in marks
  OBVIOUS
<1>2. \A i \in marks : m <= i
  OBVIOUS
<1>3. TextOf(t, FALSE) = IF marks = {} THEN <<>> ELSE SubSeq(t, Min(marks) + 1, Len(t))
  BY DEF TextOf
<1>4. TextStarted(t, FALSE) = TRUE
  BY Zenon DEF TextStarted
<1> HIDE DEF marks
<1>5. Min(marks) \in marks /\ \A y \in marks : Min(marks) <= y
  BY <1>1, Smallest
<1>6. Min(marks) = m
  <2>1. Min(marks) \in Nat /\ m \in Nat /\ m <= Min(marks) /\ Min(marks) <= m
    BY <1>1, <1>2, <1>5
  <2> QED BY <2>1
<1> QED BY <1>1, <1>3, <1>4, <1>6

\* Without a separator there is no text.
LEMMA NoText ==
  ASSUME NEW t \in Seq(Tokens), \A i \in 1 .. Len(t) : t[i] # AsrTextToken
  PROVE  TextOf(t, FALSE) = <<>> /\ TextStarted(t, FALSE) = FALSE
<1>1. {i \in 1 .. Len(t) : t[i] = AsrTextToken} = {}
  OBVIOUS
<1>2. TextOf(t, FALSE) = <<>>
  BY <1>1, Zenon DEF TextOf
<1>3. TextStarted(t, FALSE) = FALSE
  BY Zenon DEF TextStarted
<1> QED BY <1>2, <1>3

\* There is none, or a first one.
LEMMA FirstMark ==
  ASSUME NEW t \in Seq(Tokens)
  PROVE  \/ \A i \in 1 .. Len(t) : t[i] # AsrTextToken
         \/ \E m \in 1 .. Len(t) : t[m] = AsrTextToken /\ \A i \in 1 .. m - 1 : t[i] # AsrTextToken
<1> DEFINE marks == {i \in 1 .. Len(t) : t[i] = AsrTextToken}
<1>1. CASE marks = {}
  BY <1>1
<1>2. CASE marks # {}
  <2>1. marks \in SUBSET Nat
    OBVIOUS
  <2>2. PICK m \in marks : \A y \in marks : m <= y
    <3> HIDE DEF marks
    <3> QED BY <1>2, <2>1, Smallest
  <2>3. \A i \in 1 .. m - 1 : t[i] # AsrTextToken
    BY <2>2
  <2> QED BY <2>2, <2>3
<1> QED BY <1>1, <1>2

\* What is left after the first m tokens.
LEMMA Suffix ==
  ASSUME NEW t \in Seq(Tokens), NEW m \in 0 .. Len(t)
  PROVE  /\ SubSeq(t, m + 1, Len(t)) \in Seq(Tokens)
         /\ Len(SubSeq(t, m + 1, Len(t))) = Len(t) - m
         /\ \A i \in 1 .. Len(t) - m : SubSeq(t, m + 1, Len(t))[i] = t[m + i]
<1> DEFINE s == SubSeq(t, m + 1, Len(t))
<1>1. m + 1 \in Int /\ Len(t) \in Nat /\ m + 1 <= Len(t) + 1
  OBVIOUS
<1>2. /\ s \in Seq(Tokens)
      /\ Len(s) = IF m + 1 <= Len(t) THEN Len(t) - (m + 1) + 1 ELSE 0
      /\ \A i \in 1 .. Len(t) - (m + 1) + 1 : s[i] = t[m + 1 + i - 1]
  BY <1>1, SubSeqProperties
<1> HIDE DEF s
<1>3. Len(s) = Len(t) - m
  BY <1>1, <1>2
<1>4. ASSUME NEW i \in 1 .. Len(t) - m PROVE s[i] = t[m + i]
  <2>1. i \in 1 .. Len(t) - (m + 1) + 1 /\ m + 1 + i - 1 = m + i
    BY <1>1
  <2> QED BY <1>2, <2>1
<1> QED BY <1>2, <1>3, <1>4 DEF s

\* What a concatenation of tokens is made of.
LEMMA Joined ==
  ASSUME NEW a \in Seq(Tokens), NEW b \in Seq(Tokens)
  PROVE  /\ a \o b \in Seq(Tokens) /\ Len(a \o b) = Len(a) + Len(b)
         /\ Len(a) \in Nat /\ Len(b) \in Nat
         /\ \A i \in 1 .. Len(a) : (a \o b)[i] = a[i]
         /\ \A i \in 1 .. Len(b) : (a \o b)[Len(a) + i] = b[i]
<1>1. /\ a \o b \in Seq(Tokens) /\ Len(a \o b) = Len(a) + Len(b)
      /\ \A i \in 1 .. Len(a) + Len(b) : (a \o b)[i] = IF i <= Len(a) THEN a[i] ELSE b[i - Len(a)]
  BY ConcatProperties
<1>2. Len(a) \in Nat /\ Len(b) \in Nat
  OBVIOUS
<1>3. ASSUME NEW i \in 1 .. Len(b) PROVE (a \o b)[Len(a) + i] = b[i]
  <2>1. Len(a) + i \in 1 .. Len(a) + Len(b) /\ ~(Len(a) + i <= Len(a)) /\ Len(a) + i - Len(a) = i
    BY <1>2
  <2> QED BY <1>1, <2>1
<1> QED BY <1>1, <1>2, <1>3

\* A suffix that begins in the first part of a concatenation has the whole second part.
LEMMA SuffixOfFirst ==
  ASSUME NEW a \in Seq(Tokens), NEW b \in Seq(Tokens), NEW m \in 0 .. Len(a)
  PROVE  SubSeq(a \o b, m + 1, Len(a \o b)) = SubSeq(a, m + 1, Len(a)) \o b
<1> DEFINE ab == a \o b
           l == SubSeq(ab, m + 1, Len(ab))
           s == SubSeq(a, m + 1, Len(a))
<1>1. /\ ab \in Seq(Tokens) /\ Len(ab) = Len(a) + Len(b) /\ Len(a) \in Nat /\ Len(b) \in Nat
      /\ \A i \in 1 .. Len(a) : ab[i] = a[i]
      /\ \A i \in 1 .. Len(b) : ab[Len(a) + i] = b[i]
  BY Joined
<1> HIDE DEF ab
<1>2. m \in 0 .. Len(ab)
  BY <1>1
<1>3. /\ l \in Seq(Tokens) /\ Len(l) = Len(ab) - m
      /\ \A i \in 1 .. Len(ab) - m : l[i] = ab[m + i]
  BY <1>1, <1>2, Suffix
<1>4. /\ s \in Seq(Tokens) /\ Len(s) = Len(a) - m
      /\ \A i \in 1 .. Len(a) - m : s[i] = a[m + i]
  BY Suffix
<1> HIDE DEF l, s
<1>5. /\ s \o b \in Seq(Tokens) /\ Len(s \o b) = Len(s) + Len(b)
      /\ \A i \in 1 .. Len(s) : (s \o b)[i] = s[i]
      /\ \A i \in 1 .. Len(b) : (s \o b)[Len(s) + i] = b[i]
  BY <1>4, Joined
<1>6. Len(l) = Len(s \o b)
  BY <1>1, <1>3, <1>4, <1>5
<1>7. ASSUME NEW i \in 1 .. Len(l) PROVE l[i] = (s \o b)[i]
  <2>1. l[i] = ab[m + i]
    BY <1>3
  <2>2. CASE i <= Len(s)
    <3>1. i \in 1 .. Len(s) /\ i \in 1 .. Len(a) - m /\ m + i \in 1 .. Len(a)
      BY <1>1, <1>4, <2>2
    <3> QED BY <1>1, <1>4, <1>5, <2>1, <3>1
  <2>3. CASE i > Len(s)
    <3>1. PICK j \in 1 .. Len(b) : i = Len(s) + j
      <4>1. i - Len(s) \in 1 .. Len(b) /\ i = Len(s) + (i - Len(s))
        BY <1>1, <1>3, <1>4, <2>3
      <4> QED BY <4>1
    <3>2. m + i = Len(a) + j
      BY <1>1, <1>4, <3>1
    <3> QED BY <1>1, <1>5, <2>1, <3>1, <3>2
  <2> QED BY <1>1, <1>3, <1>4, <2>2, <2>3
<1> QED BY <1>3, <1>5, <1>6, <1>7, SeqEqual DEF ab, l, s

\* One that begins in the second part has nothing of the first.
LEMMA SuffixOfSecond ==
  ASSUME NEW a \in Seq(Tokens), NEW b \in Seq(Tokens), NEW m \in 0 .. Len(b)
  PROVE  SubSeq(a \o b, Len(a) + m + 1, Len(a \o b)) = SubSeq(b, m + 1, Len(b))
<1> DEFINE ab == a \o b
           n == Len(a) + m
           l == SubSeq(ab, n + 1, Len(ab))
           s == SubSeq(b, m + 1, Len(b))
<1>1. /\ ab \in Seq(Tokens) /\ Len(ab) = Len(a) + Len(b) /\ Len(a) \in Nat /\ Len(b) \in Nat
      /\ \A i \in 1 .. Len(b) : ab[Len(a) + i] = b[i]
  BY Joined
<1> HIDE DEF ab
<1>2. n \in 0 .. Len(ab) /\ Len(ab) - n = Len(b) - m
  BY <1>1
<1>3. \A i \in 1 .. Len(b) - m : n + i = Len(a) + (m + i) /\ m + i \in 1 .. Len(b)
  BY <1>1
<1> HIDE DEF n
<1>4. /\ l \in Seq(Tokens) /\ Len(l) = Len(ab) - n
      /\ \A i \in 1 .. Len(ab) - n : l[i] = ab[n + i]
  BY <1>1, <1>2, Suffix
<1>5. /\ s \in Seq(Tokens) /\ Len(s) = Len(b) - m
      /\ \A i \in 1 .. Len(b) - m : s[i] = b[m + i]
  BY Suffix
<1> HIDE DEF l, s
<1>6. ASSUME NEW i \in 1 .. Len(l) PROVE l[i] = s[i]
  <2>1. i \in 1 .. Len(ab) - n /\ i \in 1 .. Len(b) - m
    BY <1>2, <1>4
  <2>2. PICK j \in 1 .. Len(b) : j = m + i
    BY <1>3, <2>1
  <2>3. n + i = Len(a) + j
    BY <1>3, <2>1, <2>2
  <2> QED BY <1>1, <1>4, <1>5, <2>1, <2>2, <2>3
<1>7. l = s
  BY <1>2, <1>4, <1>5, <1>6, SeqEqual
<1> QED BY <1>7 DEF ab, n, l, s

\* What decode_asr_text gives for tokens in two parts is what it gives for the first and,
\* told whether the text began there, for the second.
LEMMA TextOfParts ==
  ASSUME NEW a \in Seq(Tokens), NEW b \in Seq(Tokens)
  PROVE  /\ TextOf(a \o b, FALSE) = TextOf(a, FALSE) \o TextOf(b, TextStarted(a, FALSE))
         /\ TextStarted(a \o b, FALSE) = TextStarted(b, TextStarted(a, FALSE))
<1> DEFINE ab == a \o b
<1>1. /\ ab \in Seq(Tokens) /\ Len(ab) = Len(a) + Len(b) /\ Len(a) \in Nat /\ Len(b) \in Nat
      /\ \A i \in 1 .. Len(a) : ab[i] = a[i]
      /\ \A i \in 1 .. Len(b) : ab[Len(a) + i] = b[i]
  BY Joined
<1> HIDE DEF ab
<1>2. CASE \E m \in 1 .. Len(a) : a[m] = AsrTextToken /\ \A i \in 1 .. m - 1 : a[i] # AsrTextToken
  <2>1. PICK m \in 1 .. Len(a) : a[m] = AsrTextToken /\ \A i \in 1 .. m - 1 : a[i] # AsrTextToken
    BY <1>2
  <2>2. TextOf(a, FALSE) = SubSeq(a, m + 1, Len(a)) /\ TextStarted(a, FALSE) = TRUE
    BY <2>1, TextFrom
  <2>3. m \in 1 .. Len(ab) /\ ab[m] = AsrTextToken
    BY <1>1, <2>1
  <2>4. \A i \in 1 .. m - 1 : ab[i] # AsrTextToken
    <3>1. \A i \in 1 .. m - 1 : i \in 1 .. Len(a)
      BY <1>1
    <3> QED BY <1>1, <2>1, <3>1
  <2>5. TextOf(ab, FALSE) = SubSeq(ab, m + 1, Len(ab)) /\ TextStarted(ab, FALSE) = TRUE
    BY <1>1, <2>3, <2>4, TextFrom
  <2>6. TextOf(b, TRUE) = b /\ TextStarted(b, TRUE) = TRUE
    BY Zenon DEF TextOf, TextStarted
  <2>7. SubSeq(ab, m + 1, Len(ab)) = SubSeq(a, m + 1, Len(a)) \o b
    <3>1. m \in 0 .. Len(a)
      OBVIOUS
    <3> QED BY <3>1, SuffixOfFirst DEF ab
  <2> QED BY <2>2, <2>5, <2>6, <2>7 DEF ab
<1>3. CASE \A i \in 1 .. Len(a) : a[i] # AsrTextToken
  <2>1. TextOf(a, FALSE) = <<>> /\ TextStarted(a, FALSE) = FALSE
    BY <1>3, NoText
  <2>2. CASE \A i \in 1 .. Len(b) : b[i] # AsrTextToken
    <3>1. TextOf(b, FALSE) = <<>> /\ TextStarted(b, FALSE) = FALSE
      BY <2>2, NoText
    <3>2. ASSUME NEW i \in 1 .. Len(ab) PROVE ab[i] # AsrTextToken
      <4>1. CASE i \in 1 .. Len(a)
        BY <1>1, <1>3, <4>1
      <4>2. CASE i > Len(a)
        <5>1. PICK j \in 1 .. Len(b) : i = Len(a) + j
          <6>1. i - Len(a) \in 1 .. Len(b) /\ i = Len(a) + (i - Len(a))
            BY <1>1, <4>2
          <6> QED BY <6>1
        <5> QED BY <1>1, <2>2, <5>1
      <4> QED BY <1>1, <4>1, <4>2
    <3>3. TextOf(ab, FALSE) = <<>> /\ TextStarted(ab, FALSE) = FALSE
      BY <1>1, <3>2, NoText
    <3>4. <<>> \o <<>> = <<>>
      OBVIOUS
    <3> QED BY <2>1, <3>1, <3>3, <3>4 DEF ab
  <2>3. CASE \E m \in 1 .. Len(b) : b[m] = AsrTextToken /\ \A i \in 1 .. m - 1 : b[i] # AsrTextToken
    <3>1. PICK m \in 1 .. Len(b) : b[m] = AsrTextToken /\ \A i \in 1 .. m - 1 : b[i] # AsrTextToken
      BY <2>3
    <3>2. TextOf(b, FALSE) = SubSeq(b, m + 1, Len(b)) /\ TextStarted(b, FALSE) = TRUE
      BY <3>1, TextFrom
    <3> DEFINE n == Len(a) + m
    <3>3. n \in 1 .. Len(ab) /\ ab[n] = AsrTextToken
      BY <1>1, <3>1
    <3>4. ASSUME NEW i \in 1 .. n - 1 PROVE ab[i] # AsrTextToken
      <4>1. CASE i \in 1 .. Len(a)
        BY <1>1, <1>3, <4>1
      <4>2. CASE i > Len(a)
        <5>1. PICK j \in 1 .. m - 1 : i = Len(a) + j
          <6>1. i - Len(a) \in 1 .. m - 1 /\ i = Len(a) + (i - Len(a))
            BY <1>1, <4>2
          <6> QED BY <6>1
        <5>2. j \in 1 .. Len(b)
          BY <1>1
        <5> QED BY <1>1, <3>1, <5>1, <5>2
      <4> QED BY <1>1, <4>1, <4>2
    <3> HIDE DEF n
    <3>5. TextOf(ab, FALSE) = SubSeq(ab, n + 1, Len(ab)) /\ TextStarted(ab, FALSE) = TRUE
      BY <1>1, <3>3, <3>4, TextFrom
    <3>6. SubSeq(ab, n + 1, Len(ab)) = SubSeq(b, m + 1, Len(b))
      <4>1. m \in 0 .. Len(b)
        OBVIOUS
      <4> QED BY <4>1, SuffixOfSecond DEF ab, n
    <3>7. SubSeq(b, m + 1, Len(b)) \in Seq(Tokens)
      <4>1. m \in 0 .. Len(b)
        OBVIOUS
      <4> QED BY <4>1, Suffix
    <3>8. <<>> \o SubSeq(b, m + 1, Len(b)) = SubSeq(b, m + 1, Len(b))
      BY <3>7, ConcatEmptySeq
    <3> QED BY <2>1, <3>2, <3>5, <3>6, <3>8 DEF ab
  <2> QED BY <2>2, <2>3, FirstMark
<1> QED BY <1>2, <1>3, FirstMark

-----------------------------------------------------------------------------

LEMMA InvInit == Init => Inv
<1> SUFFICES ASSUME Init PROVE Inv
  OBVIOUS
<1>1. <<>> \in Seq(Tokens) /\ \A i \in 1 .. Len(<<>>) : <<>>[i] # AsrTextToken
  OBVIOUS
<1>2. TextOf(<<>>, FALSE) = <<>> /\ TextStarted(<<>>, FALSE) = FALSE
  BY <1>1, NoText
<1>3. Types
  BY <1>1, AsrAssumption DEF Init, Types
<1>4. Pieces
  BY <1>2 DEF Init, Pieces
<1> QED BY <1>3, <1>4 DEF Init, Inv, Flushed

\* A round cuts the tokens in two.
LEMMA Cut ==
  ASSUME NEW t \in Seq(Tokens), NEW n \in 0 .. Len(t)
  PROVE  /\ SubSeq(t, 1, n) \in Seq(Tokens)
         /\ SubSeq(t, n + 1, Len(t)) \in Seq(Tokens)
         /\ n = Len(t) => SubSeq(t, n + 1, Len(t)) = <<>>
<1>1. Len(t) \in Nat /\ \A i \in 1 .. n : t[i] \in Tokens
  OBVIOUS
<1>2. SubSeq(t, 1, n) \in Seq(Tokens)
  BY <1>1, SubSeqProperties
<1>3. n = Len(t) => SubSeq(t, n + 1, Len(t)) = <<>>
  BY <1>1, SubSeqEmpty
<1> QED BY <1>2, <1>3, Suffix

LEMMA InvRound ==
  ASSUME Inv, NEW tokens \in Answers, Round(tokens)
  PROVE  Inv'
<1> DEFINE last == round + 1 = Chunks
           n == StableCount(tokens, last)
           stable == SubSeq(tokens, 1, n)
<1>1. tokens \in Seq(Tokens) /\ Len(tokens) \in Nat
  BY DEF Answers
<1>2. n \in 0 .. Len(tokens) /\ (last => n = Len(tokens))
  BY <1>1, AsrAssumption DEF StableCount
<1>3. /\ stable \in Seq(Tokens) /\ rollback' \in Seq(Tokens)
      /\ last => rollback' = <<>>
  <2>1. rollback' = SubSeq(tokens, n + 1, Len(tokens))
    BY DEF Round
  <2> HIDE DEF last, n
  <2> QED BY <1>1, <1>2, <2>1, Cut
<1>4. committed' = committed \o stable
  BY DEF Round
<1>5. /\ printed' = printed \o TextOf(stable, started)
      /\ started' = TextStarted(stable, started)
      /\ unfix' = TextOf(rollback', TextStarted(committed', FALSE))
  BY DEF Round, PrintPieces
<1>6. Types'
  <2>1. committed' \in Seq(Tokens)
    <3> HIDE DEF stable
    <3> QED BY <1>3, <1>4, Joined DEF Inv, Types
  <2>2. pc' = "round" /\ round' \in 0 .. Chunks
    BY AsrAssumption DEF Round, Inv, Types
  <2>3. remaining' \in Nat
    BY DEF Round, RoundsLeft, Inv, Types
  <2> QED BY <1>3, <2>1, <2>2, <2>3 DEF Types
<1>7. Pieces'
  <2> HIDE DEF stable
  <2>1. /\ TextOf(committed', FALSE) = TextOf(committed, FALSE) \o TextOf(stable, TextStarted(committed, FALSE))
        /\ TextStarted(committed', FALSE) = TextStarted(stable, TextStarted(committed, FALSE))
    BY <1>3, <1>4, TextOfParts DEF Inv, Types
  <2>2. started = TextStarted(committed, FALSE) /\ printed = TextOf(committed, FALSE)
    BY DEF Inv, Pieces
  <2>3. started' = TextStarted(committed', FALSE) /\ printed' = TextOf(committed', FALSE)
    BY <1>5, <2>1, <2>2
  <2> QED BY <1>5, <2>3 DEF Pieces
<1>8. Flushed'
  BY <1>3, AsrAssumption DEF Round, Inv, Types, Flushed
<1> QED BY <1>6, <1>7, <1>8 DEF Inv

LEMMA InvNext == Inv /\ [Next]_vars => Inv'
<1> SUFFICES ASSUME Inv, [Next]_vars PROVE Inv'
  OBVIOUS
<1>1. ASSUME NEW tokens \in Answers, Round(tokens) PROVE Inv'
  BY <1>1, InvRound
<1>2. CASE RoundFails
  BY <1>2 DEF RoundFails, Inv, Types, Pieces, Flushed, TextOf, TextStarted
<1>3. CASE Finish
  BY <1>3 DEF Finish, Inv, Types, Pieces, Flushed, TextOf, TextStarted
<1>4. CASE UNCHANGED vars
  BY <1>4 DEF vars, Inv, Types, Pieces, Flushed, TextOf, TextStarted
<1> QED BY <1>1, <1>2, <1>3, <1>4 DEF Next

\* The invariant holds in every state.
LEMMA Invariance == Spec => []Inv
BY InvInit, InvNext, PTL DEF Spec

-----------------------------------------------------------------------------

\* The text shown as committed, piece by piece, and the unconfirmed rest are the text of
\* all tokens recognised, wherever a round cut them: the separator may be committed, rolled
\* back or be between the two (the three decodings of online_main.cc).
THEOREM PiecesMakeTheText == Spec => []DisplayIsWhole
<1>1. Inv => DisplayIsWhole
  <2> SUFFICES ASSUME Inv PROVE DisplayIsWhole
    OBVIOUS
  <2>1. TextOf(committed \o rollback, FALSE)
          = TextOf(committed, FALSE) \o TextOf(rollback, TextStarted(committed, FALSE))
    BY TextOfParts DEF Inv, Types
  <2> QED BY <2>1 DEF Inv, Pieces, DisplayIsWhole
<1> QED BY <1>1, Invariance, PTL

\* The final result is what was printed before, and nothing stays rolled back.
THEOREM FinalIsPrinted == Spec => []FinalIsWhole
<1>1. Inv => FinalIsWhole
  BY DEF Inv, Pieces, Flushed, FinalIsWhole
<1> QED BY <1>1, Invariance, PTL
=============================================================================
