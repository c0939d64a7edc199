---------------------------- MODULE ChunkProofs ----------------------------
(***************************************************************************)
(* Proofs about how keystrokes are cut for tmux (_split_keys and its       *)
(* binary search _find_max_chunk_size), for every command and every limit. *)
(* The recursive functions of Terminal are shown to exist and to be what   *)
(* they should (RecursionDefined); an induction over the measure of a      *)
(* round of the search, and over the characters left, then gives what they *)
(* compute: chunks that follow each other, each the longest that fits.     *)
(***************************************************************************)
EXTENDS Terminal, InductionLemmas, SequenceTheorems, FiniteSetTheorems

-----------------------------------------------------------------------------
(* The sum of the widths (Bytes).                                          *)

(* FoldSeq takes the elements away one by one, in an order CHOOSE decides; *)
(* the function that does exists.                                          *)
LEMMA BytesFolds ==
  ASSUME NEW w \in Seq(Nat)
  PROVE  \E iter \in [SUBSET (1 .. Len(w)) -> Nat] :
           /\ \A s \in SUBSET (1 .. Len(w)) :
                iter[s] = IF s = {} THEN 0
                          ELSE LET x == CHOOSE x \in s : TRUE
                               IN w[x] + iter[s \ {x}]
           /\ Bytes(w) = iter[1 .. Len(w)]
<1> DEFINE S == 1 .. Len(w)
           D == SUBSET S
           pick == [s \in D |-> CHOOSE x \in s : TRUE]
           next == [s \in D |-> s \ {pick[s]}]
           measure == [s \in D |-> Cardinality(s)]
           empty == {{}}
           out == [s \in D |-> 0]
           combine == [p \in D \X Nat |->
                         IF p[1] = {} THEN 0 ELSE w[pick[p[1]]] + p[2]]
           IsFold(f) == f = [s \in D |->
                               IF s = {} THEN 0
                               ELSE LET x == CHOOSE x \in s : TRUE
                                    IN w[x] + f[s \ {x}]]
<1>1. ASSUME NEW s \in D PROVE IsFiniteSet(s) /\ Cardinality(s) \in Nat
  <2>1. Len(w) \in Int /\ 1 \in Int
    OBVIOUS
  <2>2. IsFiniteSet(S)
    BY <2>1, FS_Interval
  <2> QED BY <2>2, FS_Subset, FS_CardinalityType
<1>2. ASSUME NEW s \in D, s # {}
      PROVE  /\ pick[s] \in s /\ pick[s] \in S
             /\ next[s] \in D /\ measure[next[s]] < measure[s]
  <2>1. pick[s] \in s /\ pick[s] \in S /\ next[s] = s \ {pick[s]} /\ next[s] \in D
    BY <1>2
  <2>2. Cardinality(s \ {pick[s]}) = Cardinality(s) - 1
    <3> HIDE DEF pick
    <3> QED BY <1>1, <2>1, FS_RemoveElement
  <2>3. measure[next[s]] = Cardinality(s) - 1 /\ measure[s] = Cardinality(s)
    <3> HIDE DEF pick, next
    <3> QED BY <2>1, <2>2
  <2> HIDE DEF pick, next, measure
  <2> QED BY <1>1, <2>1, <2>3
<1>3. measure \in [D -> Nat]
  BY <1>1
<1>4. out \in [D -> Nat] /\ combine \in [D \X Nat -> Nat]
  <2>1. ASSUME NEW s \in D, s # {} PROVE w[pick[s]] \in Nat
    <3> HIDE DEF pick
    <3> QED BY <1>2, <2>1, ElementOfSeq
  <2> HIDE DEF pick
  <2> QED BY <2>1
<1>5. PICK f \in [D -> Nat] : Recurs(f, D, empty, next, out, combine)
  <2>1. Decreases(D, empty, next, measure)
    BY <1>2, <1>3 DEF Decreases
  <2> HIDE DEF D, measure, next, out, combine, empty
  <2> QED BY <1>4, <2>1, RecursionDefined
<1>6. ASSUME NEW s \in D
      PROVE  f[s] = IF s = {} THEN 0
                    ELSE LET x == CHOOSE x \in s : TRUE IN w[x] + f[s \ {x}]
  <2>1. CASE s = {}
    BY <1>5, <2>1 DEF Recurs
  <2>2. CASE s # {}
    <3>1. next[s] \in D /\ next[s] = s \ {pick[s]} /\ f[next[s]] \in Nat
      BY <1>2, <1>5, <2>2
    <3>2. f[s] = combine[<<s, f[next[s]]>>]
      BY <1>5, <2>2 DEF Recurs
    <3>3. combine[<<s, f[next[s]]>>] = w[pick[s]] + f[next[s]]
      <4> HIDE DEF pick, next
      <4> QED BY <2>2, <3>1
    <3> QED BY <2>2, <3>1, <3>2, <3>3
  <2> QED BY <2>1, <2>2
<1>7. IsFold(f)
  <2>1. f = [s \in D |-> f[s]]
    BY <1>5
  <2> QED BY <1>6, <2>1
<1> DEFINE iter == CHOOSE g : IsFold(g)
<1>8. IsFold(iter)
  <2> HIDE DEF IsFold
  <2> QED BY <1>7
<1>9. Bytes(w) = iter[S]
  <2>1. DOMAIN w = S
    OBVIOUS
  <2> QED BY <2>1 DEF Bytes, FoldSeq, FoldFunction, FoldFunctionOnSet, MapThenFoldSet
<1> HIDE DEF iter
<1>10. \A s \in D : iter[s] = IF s = {} THEN 0
                    ELSE LET x == CHOOSE x \in s : TRUE IN w[x] + iter[s \ {x}]
  BY <1>8
<1>11. ASSUME NEW s \in D,
              \A t \in D : measure[t] < measure[s] => iter[t] \in Nat
       PROVE  iter[s] \in Nat
  <2>1. CASE s = {}
    <3>1. iter[s] = 0
      BY <1>10, <2>1
    <3> QED BY <3>1
  <2>2. CASE s # {}
    <3>1. iter[next[s]] \in Nat /\ pick[s] \in S
      BY <1>2, <1>11, <2>2
    <3>2. w[pick[s]] \in Nat
      <4> HIDE DEF pick
      <4> QED BY <3>1, ElementOfSeq
    <3>3. iter[s] = w[pick[s]] + iter[next[s]]
      BY <1>10, <2>2
    <3> HIDE DEF pick, next
    <3> QED BY <3>1, <3>2, <3>3
  <2> QED BY <2>1, <2>2
<1> DEFINE Good == {s \in D : iter[s] \in Nat}
<1>12. D \subseteq Good
  <2>1. ASSUME NEW s \in D,
               \A t \in D : measure[t] < measure[s] => t \in Good
        PROVE  s \in Good
    BY <1>11, <2>1
  <2> HIDE DEF Good, D, measure
  <2> QED BY <1>3, <2>1, MeasureInduction
<1>13. iter \in [D -> Nat]
  BY <1>8, <1>12
<1> QED BY <1>9, <1>10, <1>13

(* What the cut needs of a sum: it is a number, nothing for no character,  *)
(* and the widths themselves for one or two.                               *)
LEMMA BytesFacts ==
  ASSUME NEW w \in Seq(Nat)
  PROVE  /\ Bytes(w) \in Nat
         /\ Len(w) = 0 => Bytes(w) = 0
         /\ Len(w) = 1 => Bytes(w) = w[1]
         /\ Len(w) = 2 => Bytes(w) = w[1] + w[2]
<1>1. PICK iter \in [SUBSET (1 .. Len(w)) -> Nat] :
        /\ \A s \in SUBSET (1 .. Len(w)) :
             iter[s] = IF s = {} THEN 0
                       ELSE LET x == CHOOSE x \in s : TRUE
                            IN w[x] + iter[s \ {x}]
        /\ Bytes(w) = iter[1 .. Len(w)]
  BY BytesFolds
<1>2. \A i \in 1 .. Len(w) : w[i] \in Nat
  BY ElementOfSeq
<1>3. ASSUME NEW x \in 1 .. Len(w) PROVE iter[{x}] = w[x]
  <2>1. iter[{x}] = w[x] + iter[{}]
    <3>1. (CHOOSE y \in {x} : TRUE) = x
      OBVIOUS
    <3>2. {x} \ {x} = {}
      OBVIOUS
    <3> QED BY <1>1, <3>1, <3>2
  <2>2. iter[{}] = 0
    BY <1>1
  <2>3. w[x] \in Nat
    BY <1>2
  <2> QED BY <2>1, <2>2, <2>3
<1>4. CASE Len(w) = 0
  <2>1. 1 .. Len(w) = {}
    BY <1>4
  <2> QED BY <1>1, <1>4, <2>1
<1>5. CASE Len(w) = 1
  <2>1. 1 .. Len(w) = {1}
    BY <1>5
  <2> QED BY <1>1, <1>3, <1>5, <2>1
<1>6. CASE Len(w) = 2
  <2>1. 1 .. Len(w) = {1, 2}
    BY <1>6
  <2> DEFINE x == CHOOSE x \in {1, 2} : TRUE
  <2>2. x \in {1, 2}
    OBVIOUS
  <2>3. iter[{1, 2}] = w[x] + iter[{1, 2} \ {x}]
    BY <1>1, <2>1
  <2> HIDE DEF x
  <2>4. \/ x = 1 /\ {1, 2} \ {x} = {2}
        \/ x = 2 /\ {1, 2} \ {x} = {1}
    BY <2>2
  <2>5. iter[{1, 2}] = w[1] + w[2]
    <3>1. w[1] \in Nat /\ w[2] \in Nat
      BY <1>2, <2>1
    <3>2. iter[{1}] = w[1] /\ iter[{2}] = w[2]
      BY <1>3, <2>1
    <3>3. CASE x = 1
      BY <2>3, <2>4, <3>1, <3>2, <3>3
    <3>4. CASE x = 2
      <4>1. iter[{1, 2} \ {x}] = w[1]
        BY <2>4, <3>2, <3>4
      <4> QED BY <2>3, <3>1, <3>4, <4>1
    <3> QED BY <2>2, <3>3, <3>4
  <2> QED BY <1>1, <1>6, <2>1, <2>5
<1> QED BY <1>1, <1>4, <1>5, <1>6

-----------------------------------------------------------------------------
(* The binary search.                                                      *)

\* The first n characters fit one chunk.
Fits(w, n) == Bytes(SubSeq(w, 1, n)) <= MaxLength

(* What holds of <<low, high, result>> in every round.                     *)
SpanInv(w, span) ==
  /\ span[1] <= span[2] + 1
  /\ span[3] = IF span[1] > 0 THEN span[1] - 1 ELSE 0
  /\ span[3] = 0 \/ Fits(w, span[3])
  /\ span[2] = Len(w) \/ ~Fits(w, span[2] + 1)

\* The size the search is for.
Largest(w, size) ==
  /\ size \in 0 .. Len(w)
  /\ size = 0 \/ Fits(w, size)
  /\ size < Len(w) => ~Fits(w, size + 1)

(* A round of the search leaves less to search and keeps the invariant.    *)
LEMMA NarrowFacts ==
  ASSUME NEW w \in Seq(Nat), NEW span \in Spans(Len(w)), span[1] <= span[2]
  PROVE  /\ Narrow(w, span) \in Spans(Len(w))
         /\ Narrow(w, span)[2] - Narrow(w, span)[1] < span[2] - span[1]
         /\ SpanInv(w, span) => SpanInv(w, Narrow(w, span))
<1> DEFINE mid == (span[1] + span[2]) \div 2
<1>1. /\ span[1] \in 0 .. Len(w) + 1 /\ span[2] \in -1 .. Len(w)
      /\ span[3] \in 0 .. Len(w) /\ Len(w) \in Nat
  BY DEF Spans
<1>2. mid \in span[1] .. span[2] /\ mid \in 0 .. Len(w)
  BY <1>1
<1>3. Narrow(w, span) = IF Fits(w, mid) THEN <<mid + 1, span[2], mid>>
                        ELSE <<span[1], mid - 1, span[3]>>
  BY DEF Narrow, Fits
<1> HIDE DEF mid
<1>4. CASE Fits(w, mid)
  <2> DEFINE new == <<mid + 1, span[2], mid>>
  <2>1. Narrow(w, span) = new
    BY <1>3, <1>4
  <2>2. new \in Spans(Len(w)) /\ new[2] - new[1] < span[2] - span[1]
    BY <1>1, <1>2 DEF Spans
  <2>3. SpanInv(w, span) => SpanInv(w, new)
    BY <1>1, <1>2, <1>4 DEF SpanInv
  <2> HIDE DEF new
  <2> QED BY <2>1, <2>2, <2>3
<1>5. CASE ~Fits(w, mid)
  <2> DEFINE new == <<span[1], mid - 1, span[3]>>
  <2>1. Narrow(w, span) = new
    BY <1>3, <1>5
  <2>2. new \in Spans(Len(w)) /\ new[2] - new[1] < span[2] - span[1]
    BY <1>1, <1>2 DEF Spans
  <2>3. ASSUME SpanInv(w, span) PROVE SpanInv(w, new)
    <3>1. span[1] <= new[2] + 1 /\ new[2] + 1 = mid
      BY <1>1, <1>2
    <3>2. ~Fits(w, new[2] + 1)
      BY <1>5, <3>1
    <3> QED BY <2>3, <3>1, <3>2 DEF SpanInv
  <2> HIDE DEF new
  <2> QED BY <2>1, <2>2, <2>3
<1> QED BY <1>4, <1>5

(* The search ends, and finds the largest size that fits, 0 if none does   *)
(* (_find_max_chunk_size).                                                 *)
THEOREM LargestIsFound ==
  ASSUME NEW w \in Seq(Nat)
  PROVE  Largest(w, FindMaxChunkSize(w))
<1> DEFINE D == Spans(Len(w))
           Over == {span \in D : span[1] > span[2]}
           next == [span \in D |-> Narrow(w, span)]
           measure == [span \in D |-> IF span[1] > span[2] THEN 0
                                      ELSE span[2] - span[1] + 1]
           out == [span \in D |-> span[3]]
           V == 0 .. Len(w)
           combine == [p \in D \X V |-> p[2]]
           IsSearch(f) == f = [span \in D |->
                                 IF span[1] > span[2] THEN span[3]
                                 ELSE f[Narrow(w, span)]]
<1>1. \A span \in D : /\ span[1] \in 0 .. Len(w) + 1
                      /\ span[2] \in -1 .. Len(w)
                      /\ span[3] \in V
  BY DEF Spans
<1>2. Len(w) \in Nat
  OBVIOUS
<1>3. Decreases(D, Over, next, measure)
  <2>1. measure \in [D -> Nat]
    BY <1>1, <1>2
  <2>2. ASSUME NEW span \in D \ Over
        PROVE  next[span] \in D /\ measure[next[span]] < measure[span]
    <3> DEFINE new == Narrow(w, span)
    <3>1. span[1] <= span[2]
      BY <1>1
    <3>2. new \in D /\ new[2] - new[1] < span[2] - span[1]
      BY <3>1, NarrowFacts
    <3> HIDE DEF new
    <3>3. measure[new] < measure[span]
      BY <1>1, <1>2, <3>1, <3>2
    <3> QED BY <3>2, <3>3 DEF new
  <2> QED BY <2>1, <2>2 DEF Decreases
<1>4. out \in [D -> V] /\ combine \in [D \X V -> V]
  BY <1>1
<1>5. PICK f \in [D -> V] : Recurs(f, D, Over, next, out, combine)
  <2> HIDE DEF D, Over, next, measure, out, combine, V
  <2> QED BY <1>3, <1>4, RecursionDefined
<1>6. \E g : IsSearch(g)
  <2>1. ASSUME NEW span \in D
        PROVE  f[span] = IF span[1] > span[2] THEN span[3]
                         ELSE f[Narrow(w, span)]
    <3>1. CASE span \in Over
      BY <1>5, <3>1 DEF Recurs
    <3>2. CASE span \notin Over
      <4>1. next[span] \in D /\ next[span] = Narrow(w, span)
        BY <1>3, <3>2 DEF Decreases
      <4>2. f[span] = combine[<<span, f[next[span]]>>]
        BY <1>5, <3>2 DEF Recurs
      <4>3. combine[<<span, f[next[span]]>>] = f[next[span]]
        BY <1>5, <4>1
      <4> QED BY <3>2, <4>1, <4>2, <4>3
    <3> QED BY <3>1, <3>2
  <2>2. f = [span \in D |-> f[span]]
    BY <1>5
  <2>3. IsSearch(f)
    BY <2>1, <2>2
  <2> QED BY <2>3
<1> DEFINE search == CHOOSE g : IsSearch(g)
<1>7. IsSearch(search)
  <2> HIDE DEF IsSearch
  <2> QED BY <1>6
<1>8. FindMaxChunkSize(w) = search[<<0, Len(w), 0>>]
  BY DEF FindMaxChunkSize
<1> HIDE DEF search
<1>9. \A span \in D : search[span] = IF span[1] > span[2] THEN span[3]
                                     ELSE search[Narrow(w, span)]
  BY <1>7
<1>10. Fits(w, 0)
  <2>1. SubSeq(w, 1, 0) = <<>>
    BY <1>2
  <2>2. Bytes(<<>>) = 0
    <3>1. <<>> \in Seq(Nat) /\ Len(<<>>) = 0
      BY EmptySeq
    <3> QED BY <3>1, BytesFacts
  <2>3. 0 <= MaxLength
    BY TerminalAssumption
  <2> QED BY <2>1, <2>2, <2>3, Zenon DEF Fits
<1> DEFINE Good == {span \in D : SpanInv(w, span) => Largest(w, search[span])}
<1>11. D \subseteq Good
  <2>1. ASSUME NEW span \in D,
               \A t \in D : measure[t] < measure[span] => t \in Good
        PROVE  span \in Good
    <3> SUFFICES ASSUME SpanInv(w, span) PROVE Largest(w, search[span])
      OBVIOUS
    <3>1. CASE span[1] > span[2]
      <4>1. search[span] = span[3]
        BY <1>9, <3>1
      <4>2. /\ span[1] = span[2] + 1
            /\ span[2] \in -1 .. Len(w) /\ span[3] \in 0 .. Len(w)
            /\ span[3] = IF span[1] > 0 THEN span[1] - 1 ELSE 0
            /\ span[3] = 0 \/ Fits(w, span[3])
            /\ span[2] = Len(w) \/ ~Fits(w, span[2] + 1)
        BY <1>1, <1>2, <3>1 DEF SpanInv
      <4>3. CASE span[2] = -1
        <5>1. span[2] + 1 = 0 /\ span[2] # Len(w)
          BY <1>2, <4>3
        <5> QED BY <1>10, <4>2, <5>1
      <4>4. CASE span[2] # -1
        <5>1. span[3] = span[2]
          BY <1>2, <4>2, <4>4
        <5> QED BY <1>2, <4>1, <4>2, <5>1 DEF Largest
      <4> QED BY <4>3, <4>4
    <3>2. CASE ~(span[1] > span[2])
      <4>1. span \notin Over /\ span[1] <= span[2]
        BY <1>1, <3>2
      <4>2. search[span] = search[Narrow(w, span)] /\ next[span] = Narrow(w, span)
        BY <1>9, <3>2
      <4>3. Narrow(w, span) \in Good
        BY <1>3, <2>1, <4>1, <4>2 DEF Decreases
      <4>4. SpanInv(w, Narrow(w, span))
        BY <4>1, NarrowFacts
      <4> QED BY <4>2, <4>3, <4>4
    <3> QED BY <3>1, <3>2
  <2> HIDE DEF Good, D, measure
  <2> QED BY <1>3, <2>1, MeasureInduction DEF Decreases
<1>12. <<0, Len(w), 0>> \in D /\ SpanInv(w, <<0, Len(w), 0>>)
  BY <1>2 DEF Spans, SpanInv
<1> QED BY <1>8, <1>11, <1>12

-----------------------------------------------------------------------------
(* The pieces of a command.                                                *)

\* The place of a chunk's first character in its command.
First(chunk) == chunk[1].place

\* k characters of a command, from its p-th on, fit one chunk.
SliceFits(w, p, k) == Bytes(SubSeq(w, p, p + k - 1)) <= MaxLength

\* A chunk is characters of command no in a row that fit, or one that does not.
ChunkOf(chunk, no, w) ==
  /\ chunk # <<>>
  /\ First(chunk) \in 1 .. Len(w)
  /\ First(chunk) + Len(chunk) - 1 <= Len(w)
  /\ \A j \in 1 .. Len(chunk) :
       chunk[j] = Chars(no, w)[First(chunk) + j - 1]
  /\ Len(chunk) = 1 \/ SliceFits(w, First(chunk), Len(chunk))

\* The chunks are all the characters of command no from its p-th on, cut where
\* one more would not fit.
CutFrom(chunks, no, w, p) ==
  /\ chunks \in Seq(Seq(Char))
  /\ \A i \in 1 .. Len(chunks) : ChunkOf(chunks[i], no, w)
  /\ \A i \in 1 .. Len(chunks) - 1 :
       /\ First(chunks[i + 1]) = First(chunks[i]) + Len(chunks[i])
       /\ ~SliceFits(w, First(chunks[i]), Len(chunks[i]) + 1)
  /\ IF chunks = <<>> THEN p = Len(w) + 1
     ELSE /\ p = First(chunks[1])
          /\ LET last == chunks[Len(chunks)]
             IN First(last) + Len(last) - 1 = Len(w)

(* The characters of a command are numbered from 1 on.                     *)
LEMMA CharsFacts ==
  ASSUME NEW no \in Nat, NEW w \in Seq(Nat)
  PROVE  /\ Chars(no, w) \in Seq(Char) /\ Len(Chars(no, w)) = Len(w)
         /\ \A i \in 1 .. Len(w) :
              Chars(no, w)[i] =
                [command |-> no, place |-> i, final |-> i = Len(w)]
<1>1. Len(w) \in Nat
  OBVIOUS
<1>2. \A i \in 1 .. Len(w) :
        [command |-> no, place |-> i, final |-> i = Len(w)] \in Char
  BY <1>1 DEF Char
<1> QED BY <1>1, <1>2 DEF Chars

(* A slice of what is left is a slice of the whole.                        *)
LEMMA SliceFacts ==
  ASSUME NEW w \in Seq(Nat), NEW p \in 1 .. Len(w),
         NEW k \in 0 .. Len(w) - p + 1
  PROVE  /\ SubSeq(SubSeq(w, p, Len(w)), 1, k) = SubSeq(w, p, p + k - 1)
         /\ SubSeq(w, p, p + k - 1) \in Seq(Nat)
         /\ Len(SubSeq(w, p, p + k - 1)) = k
         /\ \A i \in 1 .. k : SubSeq(w, p, p + k - 1)[i] = w[p + i - 1]
<1>1. Len(w) \in Nat /\ \A i \in 1 .. Len(w) : w[i] \in Nat
  BY ElementOfSeq
<1>2. /\ SubSeq(w, p, Len(w)) \in Seq(Nat)
      /\ Len(SubSeq(w, p, Len(w))) = Len(w) - p + 1
      /\ \A i \in 1 .. Len(w) - p + 1 : SubSeq(w, p, Len(w))[i] = w[p + i - 1]
  BY <1>1, SubSeqProperties
<1> DEFINE s == SubSeq(w, p, p + k - 1)
           t == SubSeq(SubSeq(w, p, Len(w)), 1, k)
<1>3. /\ s \in Seq(Nat) /\ Len(s) = k
      /\ \A i \in 1 .. k : s[i] = w[p + i - 1]
  <2>1. p \in Int /\ p + k - 1 \in Int /\ \A i \in p .. p + k - 1 : w[i] \in Nat
    BY <1>1
  <2>2. /\ s \in Seq(Nat)
        /\ Len(s) = IF p <= p + k - 1 THEN (p + k - 1) - p + 1 ELSE 0
        /\ \A i \in 1 .. (p + k - 1) - p + 1 : s[i] = w[p + i - 1]
    BY <2>1, SubSeqProperties
  <2> HIDE DEF s
  <2> QED BY <1>1, <2>2
<1>4. /\ t \in Seq(Nat) /\ Len(t) = k
      /\ \A i \in 1 .. k : t[i] = w[p + i - 1]
  <2> DEFINE v == SubSeq(w, p, Len(w))
  <2>1. /\ v \in Seq(Nat) /\ Len(v) = Len(w) - p + 1
        /\ \A i \in 1 .. Len(w) - p + 1 : v[i] = w[p + i - 1]
    BY <1>2
  <2> HIDE DEF v
  <2>2. k \in Nat /\ \A i \in 1 .. k : v[i] \in Nat /\ v[i] = w[p + i - 1]
    <3>1. \A i \in 1 .. k : i \in 1 .. Len(v) /\ i \in 1 .. Len(w) - p + 1
      BY <1>1, <2>1
    <3> QED BY <2>1, <3>1, ElementOfSeq
  <2>3. /\ SubSeq(v, 1, k) \in Seq(Nat)
        /\ Len(SubSeq(v, 1, k)) = IF 1 <= k THEN k - 1 + 1 ELSE 0
        /\ \A i \in 1 .. k - 1 + 1 : SubSeq(v, 1, k)[i] = v[1 + i - 1]
    BY <2>2, SubSeqProperties
  <2>4. \A i \in 1 .. k : SubSeq(v, 1, k)[i] = v[i]
    BY <2>3
  <2>5. Len(SubSeq(v, 1, k)) = k
    BY <2>2, <2>3
  <2>6. \A i \in 1 .. k : SubSeq(v, 1, k)[i] = w[p + i - 1]
    BY <2>2, <2>4
  <2> QED BY <2>3, <2>5, <2>6 DEF v
<1>5. s = t
  <2> HIDE DEF s, t
  <2> QED BY <1>3, <1>4, SeqEqual
<1> QED BY <1>3, <1>5

(* What the search makes of the keystrokes left: at least one character,   *)
(* no more than fits, and one more would not fit.                          *)
LEMMA StepFacts ==
  ASSUME NEW w \in Seq(Nat), NEW p \in 1 .. Len(w)
  PROVE  LET size == FindMaxChunkSize(SubSeq(w, p, Len(w)))
             step == IF size = 0 THEN 1 ELSE size
         IN /\ step \in 1 .. Len(w) - p + 1
            /\ step = 1 \/ SliceFits(w, p, step)
            /\ p + step <= Len(w) => ~SliceFits(w, p, step + 1)
<1> DEFINE v == SubSeq(w, p, Len(w))
           size == FindMaxChunkSize(v)
           step == IF size = 0 THEN 1 ELSE size
           n == Len(w) - p + 1
<1>1. Len(w) \in Nat /\ n \in Nat /\ n >= 1
  OBVIOUS
<1>2. v \in Seq(Nat) /\ Len(v) = n
  <2>1. n \in 0 .. Len(w) - p + 1 /\ p + n - 1 = Len(w)
    BY <1>1
  <2> HIDE DEF n
  <2> QED BY <2>1, SliceFacts
<1>3. \A k \in 0 .. n : Fits(v, k) <=> SliceFits(w, p, k)
  BY SliceFacts DEF Fits, SliceFits
<1>4. Largest(v, size)
  <2> HIDE DEF v
  <2> QED BY <1>2, LargestIsFound
<1> HIDE DEF v, size, n
<1>5. CASE size # 0
  <2>1. /\ size \in 1 .. n /\ SliceFits(w, p, size)
        /\ size < n => ~SliceFits(w, p, size + 1)
    BY <1>1, <1>2, <1>3, <1>4, <1>5 DEF Largest
  <2> QED BY <1>1, <1>5, <2>1 DEF n, v, size
<1>6. CASE size = 0
  <2>1. ~SliceFits(w, p, 1)
    <3>1. ~Fits(v, 1)
      BY <1>1, <1>2, <1>4, <1>6 DEF Largest
    <3> QED BY <1>1, <1>3, <3>1
  <2>2. ASSUME p + 1 <= Len(w) PROVE ~SliceFits(w, p, 2)
    <3> DEFINE one == SubSeq(w, p, p + 1 - 1)
               two == SubSeq(w, p, p + 2 - 1)
    <3>1. one \in Seq(Nat) /\ Len(one) = 1 /\ one[1] = w[p + 1 - 1]
      <4>1. 1 \in 0 .. Len(w) - p + 1 /\ 1 \in 1 .. 1
        BY <1>1, <2>2
      <4> QED BY <4>1, SliceFacts
    <3>2. /\ two \in Seq(Nat) /\ Len(two) = 2
          /\ two[1] = w[p + 1 - 1] /\ two[2] = w[p + 2 - 1]
      <4>1. 2 \in 0 .. Len(w) - p + 1 /\ 1 \in 1 .. 2 /\ 2 \in 1 .. 2
        BY <1>1, <2>2
      <4> QED BY <4>1, SliceFacts
    <3>3. one[1] \in Nat /\ two[1] = one[1] /\ two[2] \in Nat
      <4> HIDE DEF one, two
      <4>1. 1 \in 1 .. Len(one) /\ 2 \in 1 .. Len(two)
        BY <3>1, <3>2
      <4> QED BY <3>1, <3>2, <4>1, ElementOfSeq
    <3>4. Bytes(one) = one[1] /\ Bytes(two) = two[1] + two[2]
      <4> HIDE DEF one, two
      <4> QED BY <3>1, <3>2, BytesFacts
    <3>5. ~(Bytes(one) <= MaxLength)
      BY <2>1 DEF SliceFits
    <3>6. ~(Bytes(two) <= MaxLength)
      <4> HIDE DEF one, two
      <4> QED BY <3>3, <3>4, <3>5, TerminalAssumption
    <3> QED BY <3>6 DEF SliceFits
  <2> QED BY <1>1, <1>6, <2>2 DEF n, v, size
<1> QED BY <1>5, <1>6

(* A piece put before what is left of the cut.                             *)
LEMMA CutGrows ==
  ASSUME NEW no \in Nat, NEW w \in Seq(Nat), NEW p \in 1 .. Len(w),
         NEW k \in 1 .. Len(w) - p + 1, NEW rest,
         CutFrom(rest, no, w, p + k),
         k = 1 \/ SliceFits(w, p, k),
         p + k <= Len(w) => ~SliceFits(w, p, k + 1)
  PROVE  CutFrom(<<SubSeq(Chars(no, w), p, p + k - 1)>> \o rest, no, w, p)
<1> DEFINE keys == Chars(no, w)
           piece == SubSeq(keys, p, p + k - 1)
           all == <<piece>> \o rest
<1>1. Len(w) \in Nat /\ p \in Nat /\ k \in Nat /\ p + k - 1 <= Len(w)
  OBVIOUS
<1>2. /\ piece \in Seq(Char) /\ Len(piece) = k
      /\ \A j \in 1 .. k : piece[j] = keys[p + j - 1]
  <2>1. keys \in Seq(Char) /\ Len(keys) = Len(w)
    BY CharsFacts
  <2> HIDE DEF keys
  <2>2. \A i \in p .. p + k - 1 : keys[i] \in Char
    <3>1. \A i \in p .. p + k - 1 : i \in 1 .. Len(keys)
      BY <1>1, <2>1
    <3> QED BY <2>1, <3>1, ElementOfSeq
  <2>3. /\ piece \in Seq(Char)
        /\ Len(piece) = IF p <= p + k - 1 THEN (p + k - 1) - p + 1 ELSE 0
        /\ \A i \in 1 .. (p + k - 1) - p + 1 : piece[i] = keys[p + i - 1]
    BY <1>1, <2>2, SubSeqProperties
  <2>4. (p + k - 1) - p + 1 = k /\ p <= p + k - 1
    BY <1>1
  <2> HIDE DEF piece
  <2> QED BY <2>3, <2>4
<1>3. First(piece) = p
  <2>1. 1 \in 1 .. k /\ p + 1 - 1 = p /\ p \in 1 .. Len(w)
    BY <1>1
  <2>2. piece[1] = keys[p]
    BY <1>2, <2>1
  <2>3. keys[p] = [command |-> no, place |-> p, final |-> p = Len(w)]
    BY <2>1, CharsFacts
  <2> HIDE DEF piece, keys
  <2> QED BY <2>2, <2>3 DEF First
<1>4. ChunkOf(piece, no, w)
  <2> HIDE DEF piece
  <2>1. piece # <<>>
    BY <1>1, <1>2, EmptySeq
  <2> QED BY <1>1, <1>2, <1>3, <2>1 DEF ChunkOf
<1>5. /\ rest \in Seq(Seq(Char)) /\ Len(rest) \in Nat
      /\ \A i \in 1 .. Len(rest) : ChunkOf(rest[i], no, w)
  BY DEF CutFrom
<1>6. /\ all \in Seq(Seq(Char)) /\ Len(all) = Len(rest) + 1
      /\ all[1] = piece
      /\ \A i \in 1 .. Len(rest) : all[i + 1] = rest[i]
  <2> HIDE DEF piece
  <2>1. <<piece>> \in Seq(Seq(Char)) /\ Len(<<piece>>) = 1 /\ <<piece>>[1] = piece
    BY <1>2
  <2>2. /\ all \in Seq(Seq(Char)) /\ Len(all) = 1 + Len(rest)
        /\ \A i \in 1 .. 1 + Len(rest) :
             all[i] = IF i <= 1 THEN <<piece>>[i] ELSE rest[i - 1]
    BY <1>5, <2>1, ConcatProperties
  <2> HIDE DEF all
  <2>3. \A i \in 1 .. Len(rest) : all[i + 1] = rest[i]
    <3>1. \A i \in 1 .. Len(rest) :
            i + 1 \in 1 .. 1 + Len(rest) /\ ~(i + 1 <= 1) /\ (i + 1) - 1 = i
      BY <1>5
    <3> QED BY <2>2, <3>1
  <2>4. all[1] = piece
    BY <1>5, <2>1, <2>2
  <2> QED BY <1>5, <2>2, <2>3, <2>4
<1> HIDE DEF keys, piece, all
<1>7. \A i \in 1 .. Len(all) : ChunkOf(all[i], no, w)
  <2> SUFFICES ASSUME NEW i \in 1 .. Len(all), i # 1
               PROVE  ChunkOf(all[i], no, w)
    BY <1>4, <1>6
  <2>1. i - 1 \in 1 .. Len(rest) /\ (i - 1) + 1 = i
    BY <1>5, <1>6
  <2>2. all[i] = rest[i - 1]
    BY <1>6, <2>1
  <2> QED BY <1>5, <2>1, <2>2
<1>8. ASSUME rest = <<>> PROVE p + k = Len(w) + 1 /\ Len(rest) = 0
  BY <1>8 DEF CutFrom
<1>9. ASSUME rest # <<>>
      PROVE  /\ Len(rest) >= 1 /\ First(rest[1]) = p + k /\ p + k <= Len(w)
             /\ First(rest[Len(rest)]) + Len(rest[Len(rest)]) - 1 = Len(w)
  <2>1. Len(rest) >= 1
    BY <1>5, <1>9, EmptySeq
  <2>2. ChunkOf(rest[1], no, w) /\ First(rest[1]) = p + k
          /\ First(rest[Len(rest)]) + Len(rest[Len(rest)]) - 1 = Len(w)
    BY <1>5, <1>9, <2>1 DEF CutFrom
  <2>3. First(rest[1]) \in 1 .. Len(w)
    BY <2>2 DEF ChunkOf
  <2> QED BY <2>1, <2>2, <2>3
<1>10. ASSUME NEW i \in 1 .. Len(all) - 1
       PROVE  /\ First(all[i + 1]) = First(all[i]) + Len(all[i])
              /\ ~SliceFits(w, First(all[i]), Len(all[i]) + 1)
  <2>1. rest # <<>>
    BY <1>5, <1>6, <1>8
  <2>2. CASE i = 1
    <3>1. all[1] = piece /\ all[2] = rest[1]
      BY <1>6, <1>9, <2>1
    <3>2. i + 1 = 2
      BY <2>2
    <3> QED BY <1>2, <1>3, <1>9, <2>1, <2>2, <3>1, <3>2
  <2>3. CASE i # 1
    <3> DEFINE j == i - 1
    <3>1. j \in 1 .. Len(rest) - 1 /\ j \in 1 .. Len(rest)
            /\ j + 1 \in 1 .. Len(rest) /\ i = j + 1
      BY <1>5, <1>6, <2>3
    <3> HIDE DEF j
    <3>2. all[i] = rest[j] /\ all[i + 1] = rest[j + 1]
      BY <1>6, <3>1
    <3>3. /\ First(rest[j + 1]) = First(rest[j]) + Len(rest[j])
          /\ ~SliceFits(w, First(rest[j]), Len(rest[j]) + 1)
      BY <3>1 DEF CutFrom
    <3> QED BY <3>2, <3>3
  <2> QED BY <2>2, <2>3
<1>11. all # <<>> /\ First(all[1]) = p
  BY <1>3, <1>5, <1>6, EmptySeq
<1>12. First(all[Len(all)]) + Len(all[Len(all)]) - 1 = Len(w)
  <2>1. CASE rest = <<>>
    <3>1. all[Len(all)] = piece /\ p + k = Len(w) + 1
      BY <1>6, <1>8, <2>1
    <3> QED BY <1>1, <1>2, <1>3, <3>1
  <2>2. CASE rest # <<>>
    <3>1. Len(rest) \in 1 .. Len(rest)
      BY <1>5, <1>9, <2>2
    <3>2. all[Len(all)] = rest[Len(rest)]
      BY <1>6, <3>1
    <3> QED BY <1>9, <2>2, <3>2
  <2> QED BY <2>1, <2>2
<1>13. CutFrom(all, no, w, p)
  BY <1>6, <1>7, <1>10, <1>11, <1>12 DEF CutFrom
<1> QED BY <1>13 DEF all, piece, keys

(* The first piece taken off the cut.                                      *)
LEMMA CutShrinks ==
  ASSUME NEW no, NEW w \in Seq(Nat), NEW chunks, NEW p,
         CutFrom(chunks, no, w, p), chunks # <<>>
  PROVE  /\ ChunkOf(Head(chunks), no, w) /\ p = First(Head(chunks))
         /\ Head(chunks) \in Seq(Char)
         /\ CutFrom(Tail(chunks), no, w, p + Len(Head(chunks)))
<1> DEFINE head == Head(chunks)
           tail == Tail(chunks)
<1>1. chunks \in Seq(Seq(Char)) /\ Len(w) \in Nat
  BY DEF CutFrom
<1>2. /\ head = chunks[1] /\ head \in Seq(Char)
      /\ tail \in Seq(Seq(Char)) /\ Len(tail) = Len(chunks) - 1
      /\ \A i \in 1 .. Len(tail) : tail[i] = chunks[i + 1]
      /\ Len(chunks) \in Nat \ {0}
  BY <1>1, HeadTailProperties, EmptySeq
<1> HIDE DEF head, tail
<1>3. ChunkOf(head, no, w) /\ p = First(head)
  BY <1>2 DEF CutFrom
<1>4. \A i \in 1 .. Len(tail) : ChunkOf(tail[i], no, w)
  <2>1. \A i \in 1 .. Len(tail) : i + 1 \in 1 .. Len(chunks)
    BY <1>2
  <2> QED BY <1>2, <2>1 DEF CutFrom
<1>5. ASSUME NEW i \in 1 .. Len(tail) - 1
      PROVE  /\ First(tail[i + 1]) = First(tail[i]) + Len(tail[i])
             /\ ~SliceFits(w, First(tail[i]), Len(tail[i]) + 1)
  <2> DEFINE j == i + 1
  <2>1. j \in 1 .. Len(chunks) - 1 /\ i \in 1 .. Len(tail) /\ i + 1 \in 1 .. Len(tail)
    BY <1>2
  <2>2. tail[i] = chunks[j] /\ tail[i + 1] = chunks[j + 1]
    BY <1>2, <2>1
  <2> HIDE DEF j
  <2>3. /\ First(chunks[j + 1]) = First(chunks[j]) + Len(chunks[j])
        /\ ~SliceFits(w, First(chunks[j]), Len(chunks[j]) + 1)
    BY <2>1 DEF CutFrom
  <2> QED BY <2>2, <2>3
<1>6. CASE tail = <<>>
  <2>1. Len(chunks) = 1
    BY <1>2, <1>6
  <2>2. First(head) + Len(head) - 1 = Len(w)
    BY <1>2, <2>1 DEF CutFrom
  <2>3. p + Len(head) = Len(w) + 1
    <3>1. Len(head) \in Nat /\ First(head) \in Nat
      BY <1>2, <1>3 DEF ChunkOf
    <3>2. p = First(head)
      BY <1>3
    <3>3. \A a, b, c \in Nat : a + b - 1 = c => a + b = c + 1
      OBVIOUS
    <3> QED BY <1>1, <2>2, <3>1, <3>2, <3>3, Zenon
  <2> QED BY <1>2, <1>3, <1>4, <1>5, <1>6, <2>3 DEF CutFrom, head, tail
<1>7. CASE tail # <<>>
  <2>1. Len(tail) \in Nat \ {0}
    BY <1>2, <1>7, EmptySeq
  <2>2. /\ 1 \in 1 .. Len(chunks) - 1 /\ 1 \in 1 .. Len(tail)
        /\ Len(tail) \in 1 .. Len(tail) /\ Len(tail) + 1 = Len(chunks)
    BY <1>2, <2>1
  <2>3. tail[1] = chunks[1 + 1] /\ tail[Len(tail)] = chunks[Len(chunks)]
    BY <1>2, <2>2
  <2>4. First(tail[1]) = p + Len(head)
    BY <1>2, <1>3, <2>2, <2>3 DEF CutFrom
  <2>5. First(tail[Len(tail)]) + Len(tail[Len(tail)]) - 1 = Len(w)
    BY <2>3 DEF CutFrom
  <2> QED BY <1>2, <1>3, <1>4, <1>5, <1>7, <2>4, <2>5 DEF CutFrom, head, tail
<1> QED BY <1>6, <1>7

(* The chunks of a command are all of its characters, each once and in     *)
(* order, cut only where one more would not fit (_split_keys).             *)
THEOREM CutIsTheCommand ==
  ASSUME NEW no \in Nat, NEW w \in Seq(Nat), w # <<>>
  PROVE  CutFrom(SplitKeys(Chars(no, w), w), no, w, 1)
<1> DEFINE keys == Chars(no, w)
           Size(i) == FindMaxChunkSize(SubSeq(w, i, Len(w)))
           Step(i) == IF Size(i) = 0 THEN 1 ELSE Size(i)
           IsFrom(f) == f = [i \in 1 .. Len(keys) + 1 |->
                               IF i > Len(keys) THEN <<>>
                               ELSE <<SubSeq(keys, i, i + Step(i) - 1)>>
                                      \o f[i + Step(i)]]
<1>1. keys \in Seq(Char) /\ Len(keys) = Len(w) /\ Len(w) \in Nat \ {0}
  BY CharsFacts, EmptySeq
<1> HIDE DEF keys
<1>2. CASE Bytes(w) <= MaxLength
  <2>1. SplitKeys(keys, w) = <<keys>>
    BY <1>2 DEF SplitKeys
  <2>2. SubSeq(keys, 1, 1 + Len(w) - 1) = keys
    <3>1. 1 + Len(w) - 1 = Len(keys)
      BY <1>1
    <3> QED BY <1>1, <3>1, SubSeqFull
  <2>3. SliceFits(w, 1, Len(w))
    <3>1. 1 + Len(w) - 1 = Len(w)
      BY <1>1
    <3>2. SubSeq(w, 1, 1 + Len(w) - 1) = w
      BY <3>1, SubSeqFull
    <3> QED BY <1>2, <3>2 DEF SliceFits
  <2>4. CutFrom(<<>>, no, w, 1 + Len(w))
    <3>1. <<>> \in Seq(Seq(Char)) /\ Len(<<>>) = 0
      BY EmptySeq
    <3>2. 1 + Len(w) = Len(w) + 1
      BY <1>1
    <3> QED BY <3>1, <3>2 DEF CutFrom
  <2>5. CutFrom(<<SubSeq(keys, 1, 1 + Len(w) - 1)>> \o <<>>, no, w, 1)
    <3>1. 1 \in 1 .. Len(w) /\ Len(w) \in 1 .. Len(w) - 1 + 1
            /\ ~(1 + Len(w) <= Len(w))
      BY <1>1
    <3> QED BY <2>3, <2>4, <3>1, CutGrows DEF keys
  <2>6. <<keys>> \o <<>> = <<keys>>
    BY <1>1
  <2> QED BY <2>1, <2>2, <2>5, <2>6 DEF keys
<1>3. CASE ~(Bytes(w) <= MaxLength)
  <2> DEFINE D == 1 .. Len(keys) + 1
             V == Seq(Seq(Char))
             End == {Len(keys) + 1}
             piece == [i \in D |-> IF i \in End THEN <<>>
                                   ELSE SubSeq(keys, i, i + Step(i) - 1)]
             next == [i \in D |-> i + Step(i)]
             measure == [i \in D |-> Len(keys) + 1 - i]
             out == [i \in D |-> <<>>]
             combine == [e \in D \X V |-> <<piece[e[1]]>> \o e[2]]
  <2>1. ASSUME NEW i \in 1 .. Len(w)
        PROVE  /\ Step(i) \in 1 .. Len(w) - i + 1
               /\ Step(i) = 1 \/ SliceFits(w, i, Step(i))
               /\ i + Step(i) <= Len(w) => ~SliceFits(w, i, Step(i) + 1)
    BY StepFacts
  <2> HIDE DEF Step
  <2>2. ASSUME NEW i \in D \ End
        PROVE  /\ i \in 1 .. Len(w) /\ ~(i > Len(keys))
               /\ i + Step(i) \in D /\ next[i] = i + Step(i)
               /\ measure[i + Step(i)] < measure[i]
    <3>1. i \in 1 .. Len(w) /\ ~(i > Len(keys))
      BY <1>1
    <3>2. Step(i) \in 1 .. Len(w) - i + 1
      BY <2>1, <3>1
    <3> QED BY <1>1, <3>1, <3>2
  <2>3. Decreases(D, End, next, measure)
    <3>1. measure \in [D -> Nat]
      BY <1>1
    <3> HIDE DEF D, End, next, measure
    <3> QED BY <2>2, <3>1 DEF Decreases
  <2>4. ASSUME NEW i \in D PROVE piece[i] \in Seq(Char)
    <3>1. CASE i \in End
      <4>1. piece[i] = <<>>
        BY <3>1
      <4> QED BY <4>1, EmptySeq
    <3>2. CASE i \notin End
      <4>1. piece[i] = SubSeq(keys, i, i + Step(i) - 1)
        BY <3>2
      <4>2. i \in 1 .. Len(w) /\ i + Step(i) - 1 \in 1 .. Len(w)
        BY <1>1, <2>1, <2>2, <3>2
      <4>3. \A j \in i .. i + Step(i) - 1 : j \in 1 .. Len(keys)
        BY <1>1, <4>2
      <4>4. \A j \in i .. i + Step(i) - 1 : keys[j] \in Char
        BY <1>1, <4>3, ElementOfSeq
      <4>5. SubSeq(keys, i, i + Step(i) - 1) \in Seq(Char)
        BY <4>2, <4>4, SubSeqProperties
      <4> QED BY <4>1, <4>5
    <3> QED BY <3>1, <3>2
  <2>5. out \in [D -> V] /\ combine \in [D \X V -> V]
    <3>1. out \in [D -> V]
      BY EmptySeq
    <3>2. ASSUME NEW i \in D, NEW v \in V PROVE <<piece[i]>> \o v \in V
      <4> HIDE DEF piece, D
      <4> QED BY <2>4
    <3> HIDE DEF piece, D, V
    <3> QED BY <3>1, <3>2
  <2>6. PICK f \in [D -> V] : Recurs(f, D, End, next, out, combine)
    <3> HIDE DEF D, V, End, next, measure, out, combine
    <3> QED BY <2>3, <2>5, RecursionDefined
  <2>7. \E g : IsFrom(g)
    <3>1. ASSUME NEW i \in D
          PROVE  f[i] = IF i > Len(keys) THEN <<>>
                        ELSE <<SubSeq(keys, i, i + Step(i) - 1)>>
                               \o f[i + Step(i)]
      <4>1. CASE i \in End
        <5>1. i > Len(keys)
          BY <1>1, <4>1
        <5>2. f[i] = out[i] /\ out[i] = <<>>
          BY <2>6, <4>1 DEF Recurs
        <5> QED BY <5>1, <5>2
      <4>2. CASE i \notin End
        <5>1. ~(i > Len(keys)) /\ i + Step(i) \in D /\ next[i] = i + Step(i)
          BY <2>2, <4>2
        <5>2. f[i] = combine[<<i, f[next[i]]>>]
          BY <2>6, <4>2 DEF Recurs
        <5>3. combine[<<i, f[next[i]]>>] = <<piece[i]>> \o f[next[i]]
          <6> HIDE DEF piece, next, D, V
          <6> QED BY <2>6, <5>1
        <5>4. piece[i] = SubSeq(keys, i, i + Step(i) - 1)
          BY <4>2
        <5> QED BY <5>1, <5>2, <5>3, <5>4, Zenon
      <4> QED BY <4>1, <4>2
    <3>2. f = [i \in D |-> f[i]]
      BY <2>6
    <3>3. IsFrom(f)
      BY <3>1, <3>2
    <3> HIDE DEF IsFrom
    <3> QED BY <3>3
  <2> DEFINE from == CHOOSE g : IsFrom(g)
  <2>8. IsFrom(from)
    <3> HIDE DEF IsFrom
    <3> QED BY <2>7
  <2>9. SplitKeys(keys, w) = from[1]
    BY <1>3 DEF SplitKeys, Step
  <2> HIDE DEF from
  <2>10. \A i \in D : from[i] = IF i > Len(keys) THEN <<>>
                                ELSE <<SubSeq(keys, i, i + Step(i) - 1)>>
                                       \o from[i + Step(i)]
    BY <2>8
  <2> DEFINE Good == {i \in D : CutFrom(from[i], no, w, i)}
  <2>11. ASSUME NEW i \in D, \A j \in D : measure[j] < measure[i] => j \in Good
         PROVE  i \in Good
    <3>1. CASE i \in End
      <4>1. from[i] = <<>> /\ i = Len(w) + 1
        <5>1. i > Len(keys) /\ i = Len(w) + 1
          BY <1>1, <3>1
        <5> QED BY <2>10, <5>1
      <4>2. <<>> \in Seq(Seq(Char)) /\ Len(<<>>) = 0
        BY EmptySeq
      <4>3. CutFrom(<<>>, no, w, i)
        BY <4>1, <4>2 DEF CutFrom
      <4> QED BY <4>1, <4>3
    <3>2. CASE i \notin End
      <4>1. i + Step(i) \in Good /\ i \in 1 .. Len(w) /\ ~(i > Len(keys))
        BY <2>2, <2>11, <3>2
      <4>2. from[i] = <<SubSeq(keys, i, i + Step(i) - 1)>> \o from[i + Step(i)]
        BY <2>10, <4>1
      <4>3. CutFrom(from[i + Step(i)], no, w, i + Step(i))
        BY <4>1
      <4>4. CutFrom(<<SubSeq(keys, i, i + Step(i) - 1)>> \o from[i + Step(i)],
                    no, w, i)
        BY <2>1, <4>1, <4>3, CutGrows DEF keys
      <4> QED BY <4>2, <4>4
    <3> QED BY <3>1, <3>2
  <2>12. D \subseteq Good
    <3> HIDE DEF D, Good, measure
    <3> QED BY <2>3, <2>11, MeasureInduction DEF Decreases
  <2>13. 1 \in D
    BY <1>1
  <2> QED BY <2>9, <2>12, <2>13 DEF keys
<1> QED BY <1>2, <1>3

-----------------------------------------------------------------------------
(* The cut is tight.                                                       *)

\* k characters in a row, from the p-th on.
Places(chunk, p, k) ==
  /\ Len(chunk) = k
  /\ \A j \in 1 .. k : chunk[j].place = p + j - 1

\* How many bytes each character of a chunk takes (ChunkBytes).
WidthsAt(w, chunk) == [i \in 1 .. Len(chunk) |-> w[chunk[i].place]]

(* The widths of a chunk that has k characters in a row.                   *)
LEMMA WidthsOfPlaces ==
  ASSUME NEW w \in Seq(Nat), NEW p \in 1 .. Len(w),
         NEW k \in 0 .. Len(w) - p + 1, NEW chunk, Places(chunk, p, k)
  PROVE  WidthsAt(w, chunk) = SubSeq(w, p, p + k - 1)
<1> USE DEF Places, WidthsAt
<1> DEFINE s == [i \in 1 .. k |-> w[chunk[i].place]]
           t == SubSeq(w, p, p + k - 1)
<1>1. Len(w) \in Nat /\ k \in Nat
  OBVIOUS
<1>2. t \in Seq(Nat) /\ Len(t) = k /\ \A i \in 1 .. k : t[i] = w[p + i - 1]
  BY SliceFacts
<1>3. \A i \in 1 .. k : w[chunk[i].place] \in Nat
  <2>1. \A i \in 1 .. k : chunk[i].place \in 1 .. Len(w)
    BY <1>1
  <2> QED BY <2>1, ElementOfSeq
<1>4. s \in Seq(Nat) /\ Len(s) = k /\ \A i \in 1 .. k : s[i] = w[p + i - 1]
  BY <1>1, <1>3
<1>5. s = t
  <2> HIDE DEF s, t
  <2> QED BY <1>2, <1>4, SeqEqual
<1> QED BY <1>5

(* A cut is tight: its pieces fit, and none could take another character.  *)
LEMMA CutIsTight ==
  ASSUME command.no \in Nat, command.widths \in Seq(Nat), NEW p,
         CutFrom(command.chunks, command.no, command.widths, p)
  PROVE  ChunksAreTight
<1> DEFINE chunks == command.chunks
           w == command.widths
<1>0. w \in Seq(Nat)
  OBVIOUS
<1>1. ASSUME NEW chunk \in Seq(Char), ChunkOf(chunk, command.no, w)
      PROVE  /\ First(chunk) \in 1 .. Len(w) /\ Len(chunk) \in Nat \ {0}
             /\ First(chunk) + Len(chunk) - 1 <= Len(w)
             /\ \A j \in 1 .. Len(chunk) : chunk[j].place = First(chunk) + j - 1
             /\ Len(chunk) = 1 \/ SliceFits(w, First(chunk), Len(chunk))
  <2>1. Len(w) \in Nat /\ Len(chunk) \in Nat \ {0}
    BY <1>1, EmptySeq DEF ChunkOf
  <2>2. /\ First(chunk) \in 1 .. Len(w)
        /\ First(chunk) + Len(chunk) - 1 <= Len(w)
        /\ \A j \in 1 .. Len(chunk) :
             chunk[j] = Chars(command.no, w)[First(chunk) + j - 1]
        /\ Len(chunk) = 1 \/ SliceFits(w, First(chunk), Len(chunk))
    BY <1>1 DEF ChunkOf
  <2>3. ASSUME NEW j \in 1 .. Len(chunk)
        PROVE  chunk[j].place = First(chunk) + j - 1
    <3> DEFINE i == First(chunk) + j - 1
    <3>1. i \in 1 .. Len(w)
      BY <2>1, <2>2
    <3> HIDE DEF i
    <3>2. Chars(command.no, w)[i].place = i
      <4>1. Chars(command.no, w)[i] =
              [command |-> command.no, place |-> i, final |-> i = Len(w)]
        BY <3>1, CharsFacts
      <4> QED BY <4>1
    <3> QED BY <2>2, <3>2 DEF i
  <2> QED BY <2>1, <2>2, <2>3
<1>2. /\ chunks \in Seq(Seq(Char)) /\ Len(chunks) \in Nat
      /\ \A i \in 1 .. Len(chunks) :
           chunks[i] \in Seq(Char) /\ ChunkOf(chunks[i], command.no, w)
  BY ElementOfSeq DEF CutFrom
<1>3. ASSUME NEW i \in 1 .. Len(chunks)
      PROVE  Len(chunks[i]) = 1 \/ ChunkBytes(chunks[i]) <= MaxLength
  <2> DEFINE chunk == chunks[i]
  <2>1. /\ chunk \in Seq(Char) /\ ChunkOf(chunk, command.no, w)
    BY <1>2
  <2> HIDE DEF chunk
  <2> SUFFICES ASSUME Len(chunk) # 1 PROVE ChunkBytes(chunk) <= MaxLength
    BY DEF chunk
  <2> DEFINE from == First(chunk)
             k == Len(chunk)
  <2>2. /\ from \in 1 .. Len(w) /\ k \in 0 .. Len(w) - from + 1
        /\ \A j \in 1 .. k : chunk[j].place = from + j - 1
        /\ SliceFits(w, from, k)
    BY <1>1, <2>1
  <2>3. WidthsAt(w, chunk) = SubSeq(w, from, from + k - 1)
    <3>1. Places(chunk, from, k)
      BY <2>2 DEF Places
    <3> HIDE DEF w, from, k
    <3> QED BY <1>0, <2>2, <3>1, WidthsOfPlaces
  <2> QED BY <2>2, <2>3 DEF ChunkBytes, SliceFits, WidthsAt
<1>4. ASSUME NEW i \in 1 .. Len(chunks) - 1
      PROVE  ChunkBytes(Append(chunks[i], chunks[i + 1][1])) > MaxLength
  <2> DEFINE chunk == chunks[i]
             after == chunks[i + 1]
             more == Append(chunk, after[1])
             from == First(chunk)
             k == Len(chunk) + 1
  <2>1. /\ chunk \in Seq(Char) /\ ChunkOf(chunk, command.no, w)
        /\ after \in Seq(Char) /\ ChunkOf(after, command.no, w)
        /\ First(after) = from + Len(chunk)
        /\ ~SliceFits(w, from, k)
    <3>1. i \in 1 .. Len(chunks) /\ i + 1 \in 1 .. Len(chunks)
      BY <1>2
    <3> QED BY <1>2, <3>1 DEF CutFrom
  <2> HIDE DEF chunk, after, w
  <2>2. /\ from \in 1 .. Len(w) /\ Len(chunk) \in Nat
        /\ from + Len(chunk) \in 1 .. Len(w)
        /\ \A j \in 1 .. Len(chunk) : chunk[j].place = from + j - 1
    BY <1>1, <2>1
  <2>3. after[1] \in Char
    <3>1. Len(after) \in Nat \ {0}
      BY <1>1, <2>1
    <3>2. 1 \in 1 .. Len(after)
      BY <3>1
    <3> QED BY <2>1, <3>2, ElementOfSeq
  <2>4. /\ Len(more) = k
        /\ \A j \in 1 .. Len(chunk) : more[j] = chunk[j]
        /\ more[Len(chunk) + 1] = after[1]
    BY <2>1, <2>3, AppendProperties
  <2> HIDE DEF more
  <2>5. \A j \in 1 .. k : more[j].place = from + j - 1
    <3>1. more[k].place = from + k - 1
      <4>1. more[k].place = First(after)
        BY <2>4 DEF First
      <4>2. from + k - 1 = from + Len(chunk)
        BY <2>2
      <4> QED BY <2>1, <4>1, <4>2
    <3>2. \A j \in 1 .. k : j = k \/ j \in 1 .. Len(chunk)
      BY <2>2
    <3> QED BY <2>2, <2>4, <3>1, <3>2
  <2>6. k \in 0 .. Len(w) - from + 1
    BY <2>2
  <2> HIDE DEF from, k
  <2>7. /\ SubSeq(w, from, from + k - 1) \in Seq(Nat)
        /\ WidthsAt(w, more) = SubSeq(w, from, from + k - 1)
    <3>1. Places(more, from, k)
      BY <2>4, <2>5 DEF Places
    <3>2. WidthsAt(w, more) = SubSeq(w, from, from + k - 1)
      BY <1>0, <2>2, <2>6, <3>1, WidthsOfPlaces
    <3> QED BY <1>0, <2>2, <2>6, <3>2, SliceFacts
  <2>8. Bytes(SubSeq(w, from, from + k - 1)) \in Nat
    BY <2>7, BytesFacts
  <2>9. Bytes(SubSeq(w, from, from + k - 1)) > MaxLength
    BY <2>1, <2>8, TerminalAssumption DEF SliceFits
  <2>10. ChunkBytes(more) = Bytes(SubSeq(w, from, from + k - 1))
    BY <2>7 DEF ChunkBytes, WidthsAt, w
  <2>11. ChunkBytes(more) > MaxLength
    BY <2>9, <2>10
  <2> QED BY <2>11 DEF more, chunk, after
<1> QED BY <1>3, <1>4 DEF ChunksAreTight
============================================================================
