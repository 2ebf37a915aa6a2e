------------------------- MODULE CommandLineProofs -------------------------
(***************************************************************************)
(* Proofs about CommandLine, for texts, rows and buffers of any length:    *)
(* the tokens that tokenize_cmd finds are the words of the line, on the    *)
(* server and, in spite of the line's end, on the client.                  *)
(* Recursive functions are dealt with by the least number for which they   *)
(* would go wrong, which exists because finite sets are well-founded.      *)
(***************************************************************************)
EXTENDS CommandLine, SequenceTheorems, FiniteSetTheorems, TLAPS

Characters == Letters \cup {" ", "\n"}

LEMMA Sizes ==
  /\ MAX_ARG_SIZE \in Nat \ {0} /\ MAX_TOKENS \in Nat \ {0}
  /\ MAX_FILENAME_SIZE \in Nat \ {0} /\ MAX_INPUT_SIZE \in Nat /\ MAX_INPUT_SIZE > 3
<1>1. {MAX_ARG_SIZE, MAX_TOKENS, MAX_FILENAME_SIZE, MaxText} \subseteq Nat \ {0}
  BY ConstantsAssumption
<1> QED
  BY <1>1, ConstantsAssumption

-----------------------------------------------------------------------------
(* Recursion.                                                              *)

(* A set of numbers that is not empty has a least one.                     *)
LEMMA Smallest ==
  ASSUME NEW T, T \subseteq Nat, T # {}
  PROVE  \E n \in T : \A m \in T : n <= m
<1> DEFINE F == {0..n : n \in T}
<1>1. F \subseteq FiniteSubsetsOf(Nat)
  <2> SUFFICES ASSUME NEW n \in T PROVE 0..n \in FiniteSubsetsOf(Nat)
    OBVIOUS
  <2>1. IsFiniteSet(0..n)
    BY FS_Interval
  <2> QED
    BY <2>1 DEF FiniteSubsetsOf
<1>2. F # {}
  OBVIOUS
<1>3. PICK A \in F : \A B \in F : ~(<<B, A>> \in StrictSubsetOrdering(Nat))
  BY <1>1, <1>2, FS_StrictSubsetOrderingWellFounded, WFMin
<1>4. PICK n \in T : A = 0..n
  OBVIOUS
<1>5. \A m \in T : n <= m
  <2> SUFFICES ASSUME NEW m \in T, m < n PROVE FALSE
    OBVIOUS
  <2>1. 0..m \subseteq 0..n /\ 0..m # 0..n /\ 0..m \in SUBSET Nat /\ 0..n \in SUBSET Nat
    OBVIOUS
  <2>2. <<0..m, 0..n>> \in StrictSubsetOrdering(Nat)
    BY <2>1 DEF StrictSubsetOrdering
  <2>3. 0..m \in F
    OBVIOUS
  <2> HIDE DEF F
  <2> QED
    BY <2>2, <2>3, <1>3, <1>4
<1> QED
  BY <1>5

(* Spans is what its recursive definition says it is.                      *)
SpanOf(s, f, i) == SpanBehind(s, IF i = 1 THEN 0 ELSE f[i - 1][2])

LEMMA SpansExist ==
  ASSUME NEW s, NEW n \in Nat
  PROVE  \E f : f = [i \in 1..n |-> SpanOf(s, f, i)]
<1> DEFINE T == {m \in Nat : ~ \E f : f = [i \in 1..m |-> SpanOf(s, f, i)]}
<1> SUFFICES ASSUME T # {} PROVE FALSE
  OBVIOUS
<1>1. PICK m \in T : \A k \in T : m <= k
  BY Smallest
<1>2. m # 0
  <2> SUFFICES ASSUME m = 0 PROVE FALSE
    OBVIOUS
  <2>1. [i \in 1..0 |-> 0] = [i \in 1..0 |-> SpanOf(s, [j \in 1..0 |-> 0], i)]
    OBVIOUS
  <2> QED
    BY <2>1
<1>3. m - 1 \in Nat /\ m - 1 \notin T
  BY <1>1, <1>2
<1>4. PICK f : f = [i \in 1..(m - 1) |-> SpanOf(s, f, i)]
  BY <1>3
<1> DEFINE g == [i \in 1..m |-> IF i = m THEN SpanOf(s, f, m) ELSE f[i]]
<1>5. \A i \in 1..m : SpanOf(s, g, i) = g[i]
  <2> TAKE i \in 1..m
  <2>1. i # 1 => g[i - 1] = f[i - 1]
    OBVIOUS
  <2>2. SpanOf(s, g, i) = SpanOf(s, f, i)
    BY <2>1 DEF SpanOf
  <2> QED
    BY <2>2, <1>4
<1>6. g = [i \in 1..m |-> SpanOf(s, g, i)]
  BY <1>5
<1> QED
  BY <1>6

LEMMA SpansAre ==
  ASSUME NEW s, NEW i \in 1..TokensRead
  PROVE  Spans(s)[i] = SpanBehind(s, IF i = 1 THEN 0 ELSE Spans(s)[i - 1][2])
<1>1. TokensRead \in Nat
  BY Sizes DEF TokensRead
<1>2. \E f : f = [j \in 1..TokensRead |-> SpanOf(s, f, j)]
  BY <1>1, SpansExist
<1>3. Spans(s) = CHOOSE f : f = [j \in 1..TokensRead |-> SpanOf(s, f, j)]
  BY DEF Spans, SpanOf
<1>4. Spans(s) = [j \in 1..TokensRead |-> SpanOf(s, Spans(s), j)]
  BY <1>2, <1>3
<1>5. Spans(s)[i] = SpanOf(s, Spans(s), i)
  BY <1>4
<1> QED
  BY <1>5 DEF SpanOf

(* So is String, whose recursion goes upwards: string[j] is settled by the *)
(* rows from the j-th on.                                                  *)
Piece(table, f, j) ==
  IF j > MAX_TOKENS THEN <<"?">>
  ELSE IF Len(table[j]) < MAX_ARG_SIZE THEN table[j]
  ELSE table[j] \o f[j + 1]

Top == MAX_TOKENS + 1
Settled(table, m) ==
  \E f : f = [j \in (Top - m)..Top |-> Piece(table, f, j)]

LEMMA StringsExist ==
  ASSUME NEW table, NEW n \in 0..MAX_TOKENS
  PROVE  Settled(table, n)
<1> DEFINE T == {m \in 0..MAX_TOKENS : ~Settled(table, m)}
<1>0. MAX_TOKENS \in Nat /\ Top \in Nat /\ Top > MAX_TOKENS
  BY Sizes DEF Top
<1> SUFFICES ASSUME T # {} PROVE FALSE
  OBVIOUS
<1>1. PICK m \in T : \A k \in T : m <= k
  <2>1. T \subseteq Nat
    BY <1>0
  <2> QED
    BY <2>1, Smallest
<1>2. m # 0
  <2> SUFFICES Settled(table, 0)
    BY <1>1
  <2> DEFINE f == [j \in Top..Top |-> <<"?">>]
  <2>1. Piece(table, f, Top) = <<"?">>
    BY <1>0 DEF Piece
  <2>2. Top..Top = {Top} /\ Top - 0 = Top
    BY <1>0
  <2>3. f = [j \in Top..Top |-> Piece(table, f, j)]
    BY <2>1, <2>2
  <2> QED
    BY <2>2, <2>3 DEF Settled
<1>3. m - 1 \in 0..MAX_TOKENS
  BY <1>0, <1>2
<1>4. Settled(table, m - 1)
  BY <1>0, <1>1, <1>3
<1>5. PICK f : f = [j \in (Top - (m - 1))..Top |-> Piece(table, f, j)]
  BY <1>4 DEF Settled
<1> DEFINE g == [j \in (Top - m)..Top |-> IF j = Top - m THEN Piece(table, f, j) ELSE f[j]]
<1>6. \A j \in (Top - m)..Top : Piece(table, g, j) = g[j]
  <2> TAKE j \in (Top - m)..Top
  <2>1. j < Top => g[j + 1] = f[j + 1]
    BY <1>0, <1>1
  <2>2. Piece(table, g, j) = Piece(table, f, j)
    BY <2>1, <1>0 DEF Piece, Top
  <2>3. j # Top - m => j \in (Top - (m - 1))..Top
    BY <1>0, <1>1
  <2> QED
    BY <2>2, <2>3, <1>5
<1>7. g = [j \in (Top - m)..Top |-> Piece(table, g, j)]
  BY <1>6
<1>8. Settled(table, m)
  BY <1>7 DEF Settled
<1> QED
  BY <1>1, <1>8

(* A string that is shorter than its row is all that is in the row.        *)
LEMMA StringIsRow ==
  ASSUME NEW table, NEW i \in 1..MAX_TOKENS, Len(table[i]) < MAX_ARG_SIZE
  PROVE  String(table, i) = table[i]
<1> DEFINE strings == CHOOSE f : f = [j \in 1..(MAX_TOKENS + 1) |-> Piece(table, f, j)]
<1>0. MAX_TOKENS \in Nat /\ MAX_TOKENS \in 0..MAX_TOKENS /\ Top - MAX_TOKENS = 1
  BY Sizes DEF Top
<1>1. \E f : f = [j \in 1..(MAX_TOKENS + 1) |-> Piece(table, f, j)]
  <2>1. Settled(table, MAX_TOKENS)
    BY <1>0, StringsExist
  <2> QED
    BY <1>0, <2>1 DEF Settled, Top
<1>2. strings = [j \in 1..(MAX_TOKENS + 1) |-> Piece(table, strings, j)]
  BY <1>1
<1>3. String(table, i) = strings[i]
  BY DEF String, Piece
<1>4. strings[i] = Piece(table, strings, i)
  <2> HIDE DEF strings
  <2> QED
    BY <1>2, <1>0
<1> QED
  BY <1>3, <1>4, <1>0 DEF Piece

-----------------------------------------------------------------------------
(* Positions in a string.                                                  *)

(* First finds what it looks for, or the position behind the end.          *)
IsFirst(s, i, chars, j) ==
  /\ j \in i..(Len(s) + 1)
  /\ j = Len(s) + 1 \/ s[j] \in chars
  /\ \A k \in i..(j - 1) : s[k] \notin chars

LEMMA FirstIsFound ==
  ASSUME NEW s, Len(s) \in Nat, NEW i \in 1..(Len(s) + 1), NEW chars
  PROVE  IsFirst(s, i, chars, First(s, i, chars))
<1> DEFINE T == {j \in i..(Len(s) + 1) : j = Len(s) + 1 \/ s[j] \in chars}
<1>1. Len(s) + 1 \in T
  OBVIOUS
<1>2. T \subseteq Nat
  OBVIOUS
<1>3. PICK j \in T : \A m \in T : j <= m
  <2> HIDE DEF T
  <2> QED
    BY <1>1, <1>2, Smallest
<1>4. \A k \in i..(j - 1) : s[k] \notin chars
  BY <1>3
<1>5. IsFirst(s, i, chars, j)
  BY <1>4 DEF IsFirst
<1>6. First(s, i, chars) = CHOOSE m \in i..(Len(s) + 1) : IsFirst(s, i, chars, m)
  BY DEF First, IsFirst
<1>7. j \in i..(Len(s) + 1)
  OBVIOUS
<1> QED
  BY <1>5, <1>6, <1>7

LEMMA FirstIsUnique ==
  ASSUME NEW s, Len(s) \in Nat, NEW i \in 1..(Len(s) + 1), NEW chars, NEW j,
         IsFirst(s, i, chars, j)
  PROVE  First(s, i, chars) = j
<1> DEFINE f == First(s, i, chars)
<1>1. IsFirst(s, i, chars, f)
  BY FirstIsFound
<1> HIDE DEF f
<1>2. ~(f < j) /\ ~(j < f)
  BY <1>1 DEF IsFirst
<1>3. f \in Nat /\ j \in Nat
  BY <1>1 DEF IsFirst
<1> QED
  BY <1>2, <1>3 DEF f

LEMMA Typed ==
  ASSUME NEW s \in Seq(Characters)
  PROVE  Len(s) \in Nat /\ \A k \in 1..Len(s) : s[k] \in Characters
  BY LenProperties, ElementOfSeq

Blank(s, k) == s[k] = " "

LEMMA WordStartsAre ==
  ASSUME NEW s, NEW k
  PROVE  k \in WordStarts(s) <=>
           k \in 1..Len(s) /\ ~Blank(s, k) /\ (k > 1 => Blank(s, k - 1))
  BY DEF WordStarts, Blank

(* A character is blank or of a token, never both.                         *)
LEMMA BlankOrNot ==
  ASSUME NEW s \in Seq(Characters), NEW k \in 1..Len(s)
  PROVE  /\ s[k] \in NoSpace <=> ~Blank(s, k)
         /\ s[k] \in Space <=> Blank(s, k)
<1>1. s[k] \in Letters \cup {" ", "\n"}
  BY Typed DEF Characters
<1>2. " " \notin Letters
  BY ConstantsAssumption
<1> QED
  BY <1>1, <1>2 DEF NoSpace, Space, Blank

(* The span behind a blank, or from the beginning on, is the next word, if *)
(* there is one.                                                           *)
LEMMA SpanIsNextWord ==
  ASSUME NEW s \in Seq(Characters), NEW last \in 0..(Len(s) + 1),
         last = 0 \/ last = Len(s) + 1 \/ Blank(s, last)
  PROVE  LET start == SpanBehind(s, last)[1]
             end == SpanBehind(s, last)[2]
         IN /\ start \in 1..(Len(s) + 1) /\ end \in start..(Len(s) + 1)
            /\ \A k \in start..(end - 1) : ~Blank(s, k)
            /\ end = Len(s) + 1 \/ Blank(s, end)
            /\ start <= Len(s) => start \in WordStarts(s) /\ start > last
            /\ last >= Len(s) => start = Len(s) + 1
            /\ \A k \in WordStarts(s) : k > last => k >= start
<1>a. PICK start, end : start = SpanBehind(s, last)[1] /\ end = SpanBehind(s, last)[2]
  OBVIOUS
<1>0. Len(s) \in Nat
  BY Typed
<1>1. /\ start = IF last >= Len(s) THEN Len(s) + 1 ELSE First(s, last + 1, NoSpace)
      /\ end = First(s, start, Space)
  BY <1>a DEF SpanBehind, SkipSpaces
<1>2. last < Len(s) => IsFirst(s, last + 1, NoSpace, start)
  BY <1>0, <1>1, FirstIsFound
<1>3. start \in 1..(Len(s) + 1)
  BY <1>0, <1>1, <1>2 DEF IsFirst
<1>4. IsFirst(s, start, Space, end)
  BY <1>0, <1>1, <1>3, FirstIsFound
<1>5. end \in start..(Len(s) + 1)
  BY <1>4 DEF IsFirst
<1>6. \A k \in start..(end - 1) : ~Blank(s, k)
  <2> TAKE k \in start..(end - 1)
  <2>1. s[k] \notin Space
    BY <1>4 DEF IsFirst
  <2> QED
    BY <2>1 DEF Space, Blank
<1>7. end = Len(s) + 1 \/ Blank(s, end)
  BY <1>4 DEF IsFirst, Space, Blank
<1>8. ASSUME start <= Len(s) PROVE start \in WordStarts(s) /\ start > last
  <2>1. last < Len(s) /\ start > last
    BY <1>0, <1>1, <1>2, <1>8 DEF IsFirst
  <2>2. ~Blank(s, start)
    <3>1. s[start] \in NoSpace /\ start \in 1..Len(s)
      BY <1>0, <1>2, <1>3, <1>8, <2>1 DEF IsFirst
    <3> QED
      BY <3>1, BlankOrNot
  <2>3. ASSUME start > 1 PROVE Blank(s, start - 1)
    <3>1. CASE start - 1 = last
      BY <3>1, <2>1, <2>3, <1>0, <1>3
    <3>2. CASE start - 1 # last
      <4>1. start - 1 \in (last + 1)..(start - 1) /\ start - 1 \in 1..Len(s)
        BY <1>0, <1>3, <2>1, <2>3, <3>2
      <4>2. s[start - 1] \notin NoSpace
        BY <4>1, <1>2, <2>1 DEF IsFirst
      <4> QED
        BY <4>1, <4>2, BlankOrNot
    <3> QED
      BY <3>1, <3>2
  <2> QED
    BY <2>1, <2>2, <2>3, <1>3, <1>8, <1>0, WordStartsAre
<1>9. last >= Len(s) => start = Len(s) + 1
  BY <1>1
<1>10. ASSUME NEW k \in WordStarts(s), k > last, k < start PROVE FALSE
  <2>1. k \in 1..Len(s) /\ ~Blank(s, k)
    BY WordStartsAre
  <2>2. k \in (last + 1)..(start - 1) /\ last < Len(s)
    BY <2>1, <1>0, <1>3, <1>10
  <2>3. s[k] \notin NoSpace
    BY <2>2, <1>2 DEF IsFirst
  <2> QED
    BY <2>1, <2>3, BlankOrNot
<1>11. \A k \in WordStarts(s) : k \in Nat
  BY <1>0, WordStartsAre
<1>12. \A k \in WordStarts(s) : k > last => k >= start
  BY <1>10, <1>11, <1>3
<1> QED
  BY <1>3, <1>5, <1>6, <1>7, <1>8, <1>9, <1>12, <1>a

(* The i-th span of tokenize_cmd is the i-th word, if there are as many.   *)
Start(s, i) == Spans(s)[i][1]
End(s, i) == Spans(s)[i][2]
Before(s, p) == {k \in WordStarts(s) : k < p}

IsSpan(s, i) ==
  /\ Start(s, i) \in 1..(Len(s) + 1) /\ End(s, i) \in Start(s, i)..(Len(s) + 1)
  /\ \A k \in Start(s, i)..(End(s, i) - 1) : ~Blank(s, k)
  /\ End(s, i) = Len(s) + 1 \/ Blank(s, End(s, i))
  /\ Start(s, i) <= Len(s) =>
       Start(s, i) \in WordStarts(s) /\ Cardinality(Before(s, Start(s, i))) = i - 1
  /\ Start(s, i) = Len(s) + 1 => Cardinality(WordStarts(s)) < i

LEMMA WordStartsFinite ==
  ASSUME NEW s, Len(s) \in Nat, NEW T \in SUBSET WordStarts(s)
  PROVE  /\ IsFiniteSet(T) /\ IsFiniteSet(WordStarts(s))
         /\ Cardinality(T) \in Nat /\ Cardinality(WordStarts(s)) \in Nat
         /\ Cardinality(T) <= Cardinality(WordStarts(s))
         /\ Cardinality(T) = Cardinality(WordStarts(s)) => T = WordStarts(s)
<1>1. IsFiniteSet(1..Len(s))
  BY FS_Interval
<1>2. WordStarts(s) \in SUBSET (1..Len(s))
  BY WordStartsAre
<1>3. IsFiniteSet(WordStarts(s))
  BY <1>1, <1>2, FS_Subset
<1> QED
  BY <1>3, FS_Subset, FS_CardinalityType

(* Behind one word, from a to z, starts the next, at b, with one more word *)
(* before it.                                                              *)
Follows(s, a, z, b) ==
  /\ a \in WordStarts(s) /\ z \in a..(Len(s) + 1)
  /\ b \in 1..(Len(s) + 1) /\ b > a
  /\ \A k \in a..(z - 1) : ~Blank(s, k)
  /\ z = Len(s) + 1 \/ Blank(s, z)
  /\ \A k \in WordStarts(s) : k > z => k >= b

LEMMA NextSpan ==
  ASSUME NEW s \in Seq(Characters), NEW a, NEW z, NEW b, Follows(s, a, z, b)
  PROVE  Cardinality(Before(s, b)) = Cardinality(Before(s, a)) + 1
<1>0. Len(s) \in Nat /\ a \in 1..Len(s)
  BY Typed, WordStartsAre DEF Follows
<1>1. ASSUME NEW k \in WordStarts(s), k > a PROVE k > z
  <2>1. k \in 1..Len(s) /\ ~Blank(s, k) /\ Blank(s, k - 1)
    BY <1>0, <1>1, WordStartsAre
  <2>2. k - 1 \notin a..(z - 1)
    BY <2>1 DEF Follows
  <2>3. k # z
    BY <2>1, <1>0 DEF Follows
  <2> QED
    BY <2>1, <2>2, <2>3, <1>0, <1>1 DEF Follows
<1>2. \A k \in WordStarts(s) : k \in 1..Len(s)
  BY WordStartsAre
<1>3. Before(s, b) = Before(s, a) \cup {a}
  <2>1. ASSUME NEW k \in WordStarts(s) PROVE k < b <=> k < a \/ k = a
    BY <1>0, <1>1, <1>2 DEF Follows
  <2>2. a \in WordStarts(s)
    BY DEF Follows
  <2> QED
    BY <2>1, <2>2 DEF Before
<1>4. a \notin Before(s, a) /\ Before(s, a) \in SUBSET WordStarts(s)
  BY <1>0 DEF Before, Follows
<1>5. IsFiniteSet(Before(s, a))
  BY <1>0, <1>4, WordStartsFinite
<1> QED
  BY <1>3, <1>4, <1>5, FS_AddElement

LEMMA AllAreBefore ==
  ASSUME NEW s \in Seq(Characters)
  PROVE  Before(s, Len(s) + 1) = WordStarts(s)
<1>1. Len(s) \in Nat /\ \A k \in WordStarts(s) : k \in 1..Len(s)
  BY Typed, WordStartsAre
<1>2. \A k \in WordStarts(s) : k < Len(s) + 1
  BY <1>1
<1> QED
  BY <1>2 DEF Before

LEMMA SpanAfterSpan ==
  ASSUME NEW s \in Seq(Characters), NEW i \in 1..TokensRead,
         i = 1 \/ (i - 1 \in 1..TokensRead /\ IsSpan(s, i - 1))
  PROVE  IsSpan(s, i)
<1>0. Len(s) \in Nat /\ i \in Nat
  BY Typed, Sizes DEF TokensRead
<1>a. PICK last : last = IF i = 1 THEN 0 ELSE End(s, i - 1)
  OBVIOUS
<1>b. PICK start, end : start = Start(s, i) /\ end = End(s, i)
  OBVIOUS
<1>1. last \in 0..(Len(s) + 1) /\ (last = 0 \/ last = Len(s) + 1 \/ Blank(s, last))
  BY <1>0, <1>a DEF IsSpan
<1>2. start = SpanBehind(s, last)[1] /\ end = SpanBehind(s, last)[2]
  BY <1>a, <1>b, SpansAre DEF Start, End
<1>3. /\ start \in 1..(Len(s) + 1) /\ end \in start..(Len(s) + 1)
      /\ \A k \in start..(end - 1) : ~Blank(s, k)
      /\ end = Len(s) + 1 \/ Blank(s, end)
      /\ start <= Len(s) => start \in WordStarts(s) /\ start > last
      /\ last >= Len(s) => start = Len(s) + 1
      /\ \A k \in WordStarts(s) : k > last => k >= start
  BY <1>1, <1>2, SpanIsNextWord
<1>4. \/ Cardinality(Before(s, start)) = i - 1
      \/ start = Len(s) + 1 /\ Cardinality(WordStarts(s)) < i
  <2>1. CASE i = 1
    <3>1. \A k \in WordStarts(s) : k \in 1..Len(s)
      BY WordStartsAre
    <3>2. \A k \in WordStarts(s) : ~(k < start)
      BY <1>0, <1>3, <1>a, <2>1, <3>1
    <3>3. Before(s, start) = {}
      BY <3>2 DEF Before
    <3> QED
      BY <2>1, <3>3, FS_EmptySet
  <2>2. CASE i > 1 /\ Start(s, i - 1) <= Len(s)
    <3>1. PICK a : a = Start(s, i - 1)
      OBVIOUS
    <3>2. /\ a \in WordStarts(s) /\ a \in 1..Len(s) /\ last \in a..(Len(s) + 1)
          /\ \A k \in a..(last - 1) : ~Blank(s, k)
          /\ last = Len(s) + 1 \/ Blank(s, last)
          /\ Cardinality(Before(s, a)) = i - 2
      BY <1>0, <1>a, <2>2, <3>1 DEF IsSpan
    <3>3. start > a
      BY <1>0, <1>3, <3>2
    <3>4. Follows(s, a, last, start)
      BY <1>3, <3>2, <3>3 DEF Follows
    <3>5. Cardinality(Before(s, start)) = Cardinality(Before(s, a)) + 1
      BY <3>4, NextSpan
    <3> QED
      BY <1>0, <3>2, <3>5
  <2>3. CASE i > 1 /\ ~(Start(s, i - 1) <= Len(s))
    <3>1. Start(s, i - 1) = Len(s) + 1 /\ last = Len(s) + 1
          /\ Cardinality(WordStarts(s)) < i - 1
      BY <1>0, <1>a, <2>3 DEF IsSpan
    <3>2. Cardinality(WordStarts(s)) \in Nat
      BY <1>0, WordStartsFinite
    <3> QED
      BY <1>0, <1>3, <3>1, <3>2
  <2> QED
    BY <1>0, <2>1, <2>2, <2>3
<1>5. start = Len(s) + 1 => Cardinality(WordStarts(s)) < i
  <2>1. Cardinality(Before(s, Len(s) + 1)) = Cardinality(WordStarts(s))
    BY AllAreBefore
  <2> QED
    BY <1>0, <1>4, <2>1
<1>6. start <= Len(s) => Cardinality(Before(s, start)) = i - 1
  BY <1>0, <1>3, <1>4
<1> QED
  BY <1>3, <1>5, <1>6, <1>b DEF IsSpan

LEMMA EverySpanIsAWord ==
  ASSUME NEW s \in Seq(Characters)
  PROVE  \A i \in 1..TokensRead : IsSpan(s, i)
<1> DEFINE T == {i \in 1..TokensRead : ~IsSpan(s, i)}
<1> SUFFICES ASSUME T # {} PROVE FALSE
  OBVIOUS
<1>0. TokensRead \in Nat
  BY Sizes DEF TokensRead
<1>1. PICK m \in T : \A k \in T : m <= k
  <2>1. T \subseteq Nat
    BY <1>0
  <2> QED
    BY <2>1, Smallest
<1>2. m = 1 \/ (m - 1 \in 1..TokensRead /\ m - 1 \notin T)
  BY <1>0, <1>1
<1>3. m = 1 \/ (m - 1 \in 1..TokensRead /\ IsSpan(s, m - 1))
  BY <1>2
<1> QED
  BY <1>1, <1>3, SpanAfterSpan

(* Words counts the words in the same order.                               *)
UpTo(s, p) == {k \in WordStarts(s) : k <= p}

LEMMA RankIsUnique ==
  ASSUME NEW s, Len(s) \in Nat, NEW p \in WordStarts(s), NEW q \in WordStarts(s),
         Cardinality(UpTo(s, p)) = Cardinality(UpTo(s, q))
  PROVE  p = q
<1>0. /\ p \in 1..Len(s) /\ q \in 1..Len(s)
      /\ \A k \in WordStarts(s) : k \in 1..Len(s)
  BY WordStartsAre
<1>1. IsFiniteSet(UpTo(s, p)) /\ IsFiniteSet(UpTo(s, q))
  <2>1. UpTo(s, p) \in SUBSET WordStarts(s) /\ UpTo(s, q) \in SUBSET WordStarts(s)
    BY DEF UpTo
  <2> QED
    BY <2>1, WordStartsFinite
<1>2. ASSUME p <= q PROVE p = q
  <2>0. (\A k \in WordStarts(s) : k <= p => k <= q) /\ q <= q
    BY <1>0, <1>2
  <2>1. UpTo(s, p) \in SUBSET UpTo(s, q) /\ q \in UpTo(s, q)
    BY <2>0 DEF UpTo
  <2>2. UpTo(s, p) = UpTo(s, q)
    BY <1>1, <2>1, FS_Subset
  <2>3. q \in UpTo(s, p)
    BY <2>1, <2>2
  <2> QED
    BY <1>0, <1>2, <2>3 DEF UpTo
<1>3. ASSUME q <= p PROVE p = q
  <2>0. (\A k \in WordStarts(s) : k <= q => k <= p) /\ p <= p
    BY <1>0, <1>3
  <2>1. UpTo(s, q) \in SUBSET UpTo(s, p) /\ p \in UpTo(s, p)
    BY <2>0 DEF UpTo
  <2>2. UpTo(s, p) = UpTo(s, q)
    BY <1>1, <2>1, FS_Subset
  <2>3. p \in UpTo(s, q)
    BY <2>1, <2>2
  <2> QED
    BY <1>0, <1>3, <2>3 DEF UpTo
<1> QED
  BY <1>0, <1>2, <1>3

LEMMA UpToIsOneMore ==
  ASSUME NEW s, Len(s) \in Nat, NEW p \in WordStarts(s)
  PROVE  Cardinality(UpTo(s, p)) = Cardinality(Before(s, p)) + 1
<1>1. \A k \in WordStarts(s) : k \in 1..Len(s)
  BY WordStartsAre
<1>2. (\A k \in WordStarts(s) : k <= p <=> k < p \/ k = p) /\ ~(p < p)
  BY <1>1
<1>3. UpTo(s, p) = Before(s, p) \cup {p} /\ p \notin Before(s, p)
  BY <1>2 DEF UpTo, Before
<1>4. Before(s, p) \in SUBSET WordStarts(s)
  BY DEF Before
<1>5. IsFiniteSet(Before(s, p))
  BY <1>4, WordStartsFinite
<1> QED
  BY <1>3, <1>5, FS_AddElement

LEMMA PlaceIsUnique ==
  ASSUME NEW s, Len(s) \in Nat, NEW p \in WordStarts(s), NEW q \in WordStarts(s),
         Cardinality(Before(s, p)) = Cardinality(Before(s, q))
  PROVE  p = q
  BY UpToIsOneMore, RankIsUnique

LEMMA LengthOfWords ==
  ASSUME NEW s, Len(s) \in Nat
  PROVE  Len(Words(s)) = Cardinality(WordStarts(s))
<1>0. PICK n \in Nat : n = Cardinality(WordStarts(s))
  BY WordStartsFinite
<1>1. Words(s) \in [1..n -> {Words(s)[k] : k \in 1..n}]
  BY <1>0 DEF Words
<1>2. Words(s) \in Seq({Words(s)[k] : k \in 1..n})
  BY <1>1, SeqDef
<1>3. DOMAIN Words(s) = 1..n /\ DOMAIN Words(s) = 1..Len(Words(s)) /\ Len(Words(s)) \in Nat
  BY <1>1, <1>2, LenProperties
<1> QED
  BY <1>0, <1>3

LEMMA TokenIsWord ==
  ASSUME NEW s \in Seq(Characters), NEW i \in 1..TokensRead, Start(s, i) <= Len(s)
  PROVE  /\ i <= Cardinality(WordStarts(s))
         /\ SubSeq(s, Start(s, i), End(s, i) - 1) = Words(s)[i]
<1>0. Len(s) \in Nat /\ i \in Nat /\ i >= 1
  BY Typed, Sizes DEF TokensRead
<1>1. PICK a, z : a = Start(s, i) /\ z = End(s, i)
  OBVIOUS
<1>2. /\ a \in WordStarts(s) /\ a \in 1..Len(s) /\ z \in a..(Len(s) + 1)
      /\ \A k \in a..(z - 1) : ~Blank(s, k)
      /\ z = Len(s) + 1 \/ Blank(s, z)
      /\ Cardinality(Before(s, a)) = i - 1
  BY <1>1, EverySpanIsAWord, WordStartsAre DEF IsSpan
<1>3. \A k \in WordStarts(s) : k \in 1..Len(s)
  BY WordStartsAre
<1>4. Cardinality(UpTo(s, a)) = i
  BY <1>0, <1>2, UpToIsOneMore
<1>5. i <= Cardinality(WordStarts(s))
  <2>1. UpTo(s, a) \in SUBSET WordStarts(s)
    BY DEF UpTo
  <2> QED
    BY <1>0, <1>4, <2>1, WordStartsFinite
<1>6. a = CHOOSE w \in WordStarts(s) : Cardinality({k \in WordStarts(s) : k <= w}) = i
  <2>1. a = CHOOSE w \in WordStarts(s) : Cardinality(UpTo(s, w)) = i
    BY <1>0, <1>2, <1>4, RankIsUnique
  <2> QED
    BY <2>1 DEF UpTo
<1>7. {j \in a..Len(s) : \A k \in a..j : s[k] # " "} = a..(z - 1)
  <2>1. ASSUME NEW j \in a..Len(s) PROVE (\A k \in a..j : ~Blank(s, k)) <=> j < z
    BY <1>0, <1>2
  <2>2. \A j : j \in a..(z - 1) <=> j \in a..Len(s) /\ j < z
    BY <1>0, <1>2
  <2>3. \A j : j \in a..(z - 1) <=> j \in a..Len(s) /\ \A k \in a..j : ~Blank(s, k)
    BY <2>1, <2>2
  <2> QED
    BY <2>3 DEF Blank
<1>8. a + Cardinality(a..(z - 1)) - 1 = z - 1
  <2>1. a \in Int /\ z - 1 \in Int /\ a <= z - 1
    BY <1>0, <1>2, WordStartsAre
  <2>2. Cardinality(a..(z - 1)) = (z - 1) - a + 1
    BY <2>1, FS_Interval
  <2> QED
    BY <2>1, <2>2, <1>2
<1>9. i \in 1..Cardinality(WordStarts(s))
  BY <1>0, <1>5, WordStartsFinite
<1>10. Words(s)[i] = SubSeq(s, a, a + Cardinality(a..(z - 1)) - 1)
  BY <1>6, <1>7, <1>9 DEF Words
<1> QED
  BY <1>1, <1>5, <1>8, <1>10

LEMMA SmallerIs ==
  ASSUME NEW m \in Nat, NEW n \in Nat
  PROVE  /\ Smaller(m, n) \in Nat /\ Smaller(m, n) <= m /\ Smaller(m, n) <= n
         /\ Smaller(m, n) \in {m, n}
  BY DEF Smaller

LEMMA TokensAreCounted ==
  ASSUME NEW s \in Seq(Characters)
  PROVE  LET n == Smaller(Len(Words(s)), MAX_TOKENS)
         IN /\ n \in Nat
            /\ Tokenize(s).num = n
            /\ \A i \in 1..TokensRead : Start(s, i) <= Len(s) <=> i <= n
<1>0. Len(s) \in Nat /\ MAX_TOKENS \in Nat /\ TokensRead = MAX_TOKENS
  BY Typed, Sizes DEF TokensRead
<1>1. PICK c \in Nat : c = Cardinality(WordStarts(s)) /\ c = Len(Words(s))
  BY <1>0, WordStartsFinite, LengthOfWords
<1>2. PICK n \in Nat : /\ n = Smaller(c, MAX_TOKENS) /\ n <= c /\ n <= MAX_TOKENS
                       /\ n \in {c, MAX_TOKENS}
  BY <1>0, SmallerIs
<1>3. ASSUME NEW i \in 1..TokensRead PROVE Start(s, i) <= Len(s) <=> i <= n
  <2>1. Start(s, i) <= Len(s) => i <= c
    BY <1>1, TokenIsWord
  <2>2. ~(Start(s, i) <= Len(s)) => c < i
    <3>1. IsSpan(s, i)
      BY EverySpanIsAWord
    <3> QED
      BY <3>1, <1>0, <1>1 DEF IsSpan
  <2> QED
    BY <1>0, <1>2, <2>1, <2>2
<1>4. {i \in 1..TokensRead : Start(s, i) <= Len(s)} = 1..n
  BY <1>0, <1>2, <1>3
<1>5. Cardinality(1..n) = n
  BY FS_Interval
<1>6. Tokenize(s).num = n
  BY <1>4, <1>5 DEF Tokenize, Start
<1> QED
  BY <1>1, <1>2, <1>3, <1>6

-----------------------------------------------------------------------------
(* The line with its end, as the client splits it, and without, as the     *)
(* server does.                                                            *)
EndsLine(s, k) == s[k] = "\n"
IsBody(b) == b \in Seq(Characters) /\ \A k \in 1..Len(b) : ~EndsLine(b, k)

LEMMA Cutting ==
  ASSUME NEW s \in Seq(Characters), NEW m \in 1..(Len(s) + 1), NEW n \in 0..Len(s)
  PROVE  /\ SubSeq(s, m, n) \in Seq(Characters)
         /\ Len(SubSeq(s, m, n)) = IF m <= n THEN n - m + 1 ELSE 0
         /\ \A k \in 1..Len(SubSeq(s, m, n)) : SubSeq(s, m, n)[k] = s[m + k - 1]
<1>0. Len(s) \in Nat /\ m \in Int /\ n \in Int /\ \A k \in m..n : s[k] \in Characters
  BY Typed
<1>1. /\ SubSeq(s, m, n) \in Seq(Characters)
      /\ Len(SubSeq(s, m, n)) = IF m <= n THEN n - m + 1 ELSE 0
      /\ \A k \in 1..(n - m + 1) : SubSeq(s, m, n)[k] = s[m + k - 1]
  BY <1>0, SubSeqProperties
<1>2. 1..Len(SubSeq(s, m, n)) \subseteq 1..(n - m + 1)
  BY <1>0, <1>1
<1> QED
  BY <1>1, <1>2

LEMMA ChompKeeps ==
  ASSUME NEW t \in Seq(Characters), Len(t) > 0 => ~EndsLine(t, Len(t))
  PROVE  Chomp(t) = t
<1>1. t # <<>> => Len(t) > 0
  BY EmptySeq
<1> QED
  BY <1>1 DEF Chomp, EndsLine

LEMMA ChompCuts ==
  ASSUME NEW t \in Seq(Characters), Len(t) > 0, EndsLine(t, Len(t))
  PROVE  Chomp(t) = SubSeq(t, 1, Len(t) - 1)
<1>1. t # <<>>
  BY EmptySeq
<1> QED
  BY <1>1 DEF Chomp, EndsLine

(* On the server, a token of a line without its end stays as it is.        *)
LEMMA BodyTokens ==
  ASSUME NEW b, IsBody(b), NEW i \in 1..TokensRead
  PROVE  LET token == SubSeq(b, Start(b, i), End(b, i) - 1)
         IN token \in Seq(Characters) /\ Chomp(token) = token
<1>0. b \in Seq(Characters) /\ Len(b) \in Nat
  BY Typed DEF IsBody
<1>1. PICK a, z : a = Start(b, i) /\ z = End(b, i)
  OBVIOUS
<1>2. a \in 1..(Len(b) + 1) /\ z \in a..(Len(b) + 1)
  BY <1>0, <1>1, EverySpanIsAWord DEF IsSpan
<1>3. z - 1 \in 0..Len(b)
  BY <1>0, <1>2
<1>4. PICK t : t = SubSeq(b, a, z - 1)
  OBVIOUS
<1>5. /\ t \in Seq(Characters) /\ Len(t) = IF a <= z - 1 THEN (z - 1) - a + 1 ELSE 0
      /\ \A k \in 1..Len(t) : t[k] = b[a + k - 1]
  BY <1>0, <1>2, <1>3, <1>4, Cutting
<1>6. ASSUME Len(t) > 0 PROVE ~EndsLine(t, Len(t))
  <2>1. Len(t) \in 1..Len(t) /\ a + Len(t) - 1 \in 1..Len(b)
    BY <1>0, <1>2, <1>5, <1>6
  <2>2. ~EndsLine(b, a + Len(t) - 1)
    BY <2>1 DEF IsBody
  <2> QED
    BY <1>5, <2>1, <2>2 DEF EndsLine
<1> QED
  BY <1>1, <1>4, <1>5, <1>6, ChompKeeps

LEMMA WithItsEnd ==
  ASSUME NEW b, IsBody(b)
  PROVE  LET s == Append(b, "\n")
         IN /\ s \in Seq(Characters) /\ Len(s) = Len(b) + 1
            /\ \A k \in 1..Len(b) : s[k] = b[k] /\ (Blank(s, k) <=> Blank(b, k))
            /\ ~Blank(s, Len(s)) /\ EndsLine(s, Len(s))
<1>0. b \in Seq(Characters) /\ Len(b) \in Nat /\ "\n" \in Characters
  BY Typed DEF IsBody, Characters
<1>1. /\ Append(b, "\n") \in Seq(Characters) /\ Len(Append(b, "\n")) = Len(b) + 1
      /\ \A k \in 1..Len(b) : Append(b, "\n")[k] = b[k]
      /\ Append(b, "\n")[Len(b) + 1] = "\n"
  BY <1>0, AppendProperties
<1>2. \A k \in 1..Len(b) : Blank(Append(b, "\n"), k) <=> Blank(b, k)
  BY <1>1 DEF Blank
<1>3. ~Blank(Append(b, "\n"), Len(b) + 1) /\ EndsLine(Append(b, "\n"), Len(b) + 1)
  BY <1>1 DEF Blank, EndsLine
<1> QED
  BY <1>1, <1>2, <1>3

LEMMA WordsWithTheEnd ==
  ASSUME NEW b, IsBody(b), NEW s, s = Append(b, "\n")
  PROVE  /\ \A p \in 1..Len(b) : p \in WordStarts(s) <=> p \in WordStarts(b)
         /\ WordStarts(b) \subseteq WordStarts(s)
         /\ Cardinality(WordStarts(b)) <= Cardinality(WordStarts(s))
<1>0. /\ b \in Seq(Characters) /\ Len(b) \in Nat /\ Len(s) = Len(b) + 1
      /\ \A k \in 1..Len(b) : Blank(s, k) <=> Blank(b, k)
  BY Typed, WithItsEnd DEF IsBody
<1>1. ASSUME NEW p \in 1..Len(b) PROVE p \in WordStarts(s) <=> p \in WordStarts(b)
  <2>1. p \in 1..Len(s) /\ (p > 1 => p - 1 \in 1..Len(b))
    BY <1>0
  <2> QED
    BY <1>0, <2>1, WordStartsAre
<1>2. WordStarts(b) \subseteq WordStarts(s)
  BY <1>1, WordStartsAre
<1>3. Cardinality(WordStarts(b)) <= Cardinality(WordStarts(s))
  BY <1>0, <1>2, WordStartsFinite
<1> QED
  BY <1>1, <1>2, <1>3

(* A word starts at the same place with the line's end behind it, and ends *)
(* there too, unless it is the last and takes the line's end with it.      *)
LEMMA SpansWithTheEnd ==
  ASSUME NEW b, IsBody(b), NEW s, s = Append(b, "\n"), NEW i \in 1..TokensRead
  PROVE  /\ Start(b, i) <= Len(b) =>
              /\ Start(s, i) = Start(b, i)
              /\ End(s, i) = IF End(b, i) <= Len(b) THEN End(b, i) ELSE Len(b) + 2
         /\ Start(b, i) > Len(b) => Start(s, i) > Len(b)
<1>0. /\ b \in Seq(Characters) /\ Len(b) \in Nat /\ Len(s) = Len(b) + 1
      /\ s \in Seq(Characters) /\ ~Blank(s, Len(b) + 1)
      /\ \A k \in 1..Len(b) : Blank(s, k) <=> Blank(b, k)
      /\ i \in Nat
  BY Typed, WithItsEnd, Sizes DEF IsBody, TokensRead
<1>1. /\ \A p \in 1..Len(b) : p \in WordStarts(s) <=> p \in WordStarts(b)
      /\ WordStarts(b) \subseteq WordStarts(s)
      /\ Cardinality(WordStarts(b)) <= Cardinality(WordStarts(s))
  BY WordsWithTheEnd
<1>2. /\ Cardinality(WordStarts(b)) \in Nat /\ Cardinality(WordStarts(s)) \in Nat
      /\ \A p \in WordStarts(b) : p \in 1..Len(b)
  BY <1>0, WordStartsFinite, WordStartsAre
<1>a. PICK a, z, c, y : /\ a = Start(b, i) /\ z = End(b, i)
                        /\ c = Start(s, i) /\ y = End(s, i)
  OBVIOUS
<1>3. /\ a \in 1..(Len(b) + 1) /\ z \in a..(Len(b) + 1)
      /\ \A k \in a..(z - 1) : ~Blank(b, k)
      /\ z = Len(b) + 1 \/ Blank(b, z)
      /\ a <= Len(b) => a \in WordStarts(b) /\ Cardinality(Before(b, a)) = i - 1
      /\ a = Len(b) + 1 => Cardinality(WordStarts(b)) < i
  BY <1>0, <1>a, EverySpanIsAWord DEF IsSpan
<1>4. /\ c \in 1..(Len(b) + 2) /\ y \in c..(Len(b) + 2)
      /\ \A k \in c..(y - 1) : ~Blank(s, k)
      /\ y = Len(b) + 2 \/ Blank(s, y)
      /\ c <= Len(b) + 1 => c \in WordStarts(s) /\ Cardinality(Before(s, c)) = i - 1
      /\ c = Len(b) + 2 => Cardinality(WordStarts(s)) < i
  <2>1. Len(s) + 1 = Len(b) + 2 /\ (c <= Len(b) + 1 <=> c <= Len(s))
    BY <1>0
  <2>2. IsSpan(s, i)
    BY <1>0, EverySpanIsAWord
  <2>3. /\ c \in 1..(Len(s) + 1) /\ y \in c..(Len(s) + 1)
        /\ \A k \in c..(y - 1) : ~Blank(s, k)
        /\ y = Len(s) + 1 \/ Blank(s, y)
        /\ c <= Len(s) => c \in WordStarts(s) /\ Cardinality(Before(s, c)) = i - 1
        /\ c = Len(s) + 1 => Cardinality(WordStarts(s)) < i
    BY <1>a, <2>2 DEF IsSpan
  <2> QED
    BY <2>1, <2>3
<1>5. ASSUME NEW p \in 1..Len(b) PROVE Before(s, p) = Before(b, p)
  <2>1. \A k \in WordStarts(s) : k < p => k \in WordStarts(b)
    BY <1>0, <1>1, WordStartsAre
  <2> QED
    BY <1>1, <2>1 DEF Before
<1>6. ASSUME a <= Len(b) PROVE c = a /\ y = IF z <= Len(b) THEN z ELSE Len(b) + 2
  <2>1. a \in WordStarts(s) /\ Cardinality(Before(s, a)) = i - 1
    BY <1>1, <1>3, <1>5, <1>6, <1>2
  <2>2. i <= Cardinality(WordStarts(b))
    BY <1>a, <1>0, <1>6, TokenIsWord
  <2>3. c \in WordStarts(s) /\ Cardinality(Before(s, c)) = i - 1
    BY <1>0, <1>1, <1>2, <1>4, <2>2
  <2>4. c = a
    BY <1>0, <2>1, <2>3, PlaceIsUnique
  <2>5. CASE z <= Len(b)
    <3>1. Blank(s, z) /\ z \in 1..Len(b)
      BY <1>0, <1>3, <2>5
    <3>2. y <= z
      BY <1>0, <1>3, <1>4, <2>4, <3>1
    <3>3. ~(y < z)
      BY <1>0, <1>3, <1>4, <2>4, <2>5
    <3> QED
      BY <1>0, <1>3, <1>4, <2>4, <2>5, <3>2, <3>3
  <2>6. CASE ~(z <= Len(b))
    <3>1. \A k \in a..Len(b) : ~Blank(s, k)
      BY <1>0, <1>3, <2>6
    <3>2. y > Len(b)
      BY <1>0, <1>3, <1>4, <2>4, <3>1
    <3> QED
      BY <1>0, <1>3, <1>4, <2>4, <2>6, <3>2
  <2> QED
    BY <2>4, <2>5, <2>6
<1>7. ASSUME a > Len(b), c <= Len(b) PROVE FALSE
  <2>1. c \in WordStarts(b) /\ Cardinality(Before(b, c)) = i - 1
    BY <1>0, <1>1, <1>4, <1>5, <1>7
  <2>2. Before(b, c) \in SUBSET WordStarts(b) /\ c \notin Before(b, c)
    BY <1>2, <2>1 DEF Before
  <2>3. Cardinality(Before(b, c)) < Cardinality(WordStarts(b))
    BY <1>0, <2>1, <2>2, WordStartsFinite
  <2> QED
    BY <1>0, <1>2, <1>3, <1>7, <2>1, <2>3
<1> QED
  BY <1>0, <1>3, <1>4, <1>6, <1>7, <1>a

(* A token of the line without its end, and the same token of the line     *)
(* with it.                                                                *)
Token(s, i) == SubSeq(s, Start(s, i), End(s, i) - 1)

LEMMA TokenizeIs ==
  ASSUME NEW s
  PROVE  /\ Tokenize(s).long <=> \E i \in 1..TokensRead : Len(Token(s, i)) > MAX_ARG_SIZE
         /\ \A i \in 1..TokensRead : Tokenize(s).rows[i] = Chomp(Token(s, i))
<1>1. \A i \in 1..TokensRead :
        [k \in 1..TokensRead |-> SubSeq(s, Spans(s)[k][1], Spans(s)[k][2] - 1)][i] = Token(s, i)
  BY DEF Token, Start, End
<1> QED
  BY <1>1 DEF Tokenize

LEMMA SameToken ==
  ASSUME NEW b, IsBody(b), NEW s, s = Append(b, "\n"), NEW i \in 1..TokensRead,
         Start(b, i) <= Len(b)
  PROVE  /\ Len(Token(s, i)) <= Len(Token(b, i)) + 1
         /\ Chomp(Token(s, i)) = Token(b, i)
<1>0. /\ b \in Seq(Characters) /\ Len(b) \in Nat /\ Len(s) = Len(b) + 1
      /\ s \in Seq(Characters) /\ EndsLine(s, Len(b) + 1)
      /\ \A k \in 1..Len(b) : s[k] = b[k]
  BY Typed, WithItsEnd DEF IsBody
<1>1. PICK a, z : a = Start(b, i) /\ z = End(b, i)
  OBVIOUS
<1>2. a \in 1..Len(b) /\ z \in a..(Len(b) + 1) /\ z # a
  <2>1. IsSpan(b, i)
    BY <1>0, EverySpanIsAWord
  <2>2. /\ a \in 1..(Len(b) + 1) /\ z \in a..(Len(b) + 1) /\ a <= Len(b)
        /\ z = Len(b) + 1 \/ Blank(b, z)
        /\ a \in WordStarts(b)
    BY <1>1, <2>1 DEF IsSpan
  <2>3. ~Blank(b, a)
    BY <2>2, WordStartsAre
  <2> QED
    BY <1>0, <2>2, <2>3
<1>3. Start(s, i) = a /\ End(s, i) = IF z <= Len(b) THEN z ELSE Len(b) + 2
  BY <1>1, <1>2, SpansWithTheEnd
<1>4. PICK t : t = SubSeq(b, a, z - 1)
  OBVIOUS
<1>5. t = Token(b, i)
  BY <1>1, <1>4 DEF Token
<1>6. /\ t \in Seq(Characters) /\ Len(t) = z - a
      /\ \A k \in 1..Len(t) : t[k] = b[a + k - 1]
  <2>1. a \in 1..(Len(b) + 1) /\ z - 1 \in 0..Len(b) /\ a <= z - 1
    BY <1>0, <1>2
  <2>2. (z - 1) - a + 1 = z - a
    BY <1>0, <1>2
  <2> QED
    BY <1>0, <1>4, <2>1, <2>2, Cutting
<1>7. Chomp(t) = t
  BY <1>5, BodyTokens DEF Token
<1>8. CASE z <= Len(b)
  <2>1. PICK u : u = SubSeq(s, a, z - 1)
    OBVIOUS
  <2>2. u = Token(s, i)
    BY <1>3, <1>8, <2>1 DEF Token
  <2>3. /\ u \in Seq(Characters) /\ Len(u) = z - a
        /\ \A k \in 1..Len(u) : u[k] = s[a + k - 1]
    <3>1. PICK e : e = z - 1
      OBVIOUS
    <3>2. a \in 1..(Len(s) + 1) /\ e \in 0..Len(s) /\ a <= e /\ e - a + 1 = z - a
      BY <1>0, <1>2, <3>1
    <3>3. u = SubSeq(s, a, e)
      BY <2>1, <3>1
    <3>4. /\ u \in Seq(Characters) /\ Len(u) = IF a <= e THEN e - a + 1 ELSE 0
          /\ \A k \in 1..Len(u) : u[k] = s[a + k - 1]
      BY <1>0, <3>2, <3>3, Cutting
    <3> QED
      BY <3>2, <3>4
  <2>4. \A k \in 1..Len(t) : a + k - 1 \in 1..Len(b)
    BY <1>0, <1>2, <1>6
  <2>5. \A k \in 1..Len(t) : u[k] = t[k]
    BY <1>0, <1>6, <2>3, <2>4
  <2>6. u = t
    BY <1>6, <2>3, <2>5, SeqEqual
  <2> QED
    BY <1>0, <1>2, <1>5, <1>6, <1>7, <2>2, <2>6
<1>9. CASE z = Len(b) + 1
  <2>1. PICK u : u = SubSeq(s, a, z)
    OBVIOUS
  <2>2. End(s, i) - 1 = z /\ ~(z <= Len(b))
    BY <1>0, <1>3, <1>9
  <2>3. u = Token(s, i)
    BY <1>3, <2>1, <2>2 DEF Token
  <2>4. /\ u \in Seq(Characters) /\ Len(u) = z - a + 1
        /\ \A k \in 1..Len(u) : u[k] = s[a + k - 1]
    <3>1. a \in 1..(Len(s) + 1) /\ z \in 0..Len(s) /\ a <= z
      BY <1>0, <1>2, <1>9
    <3> QED
      BY <1>0, <2>1, <3>1, Cutting
  <2>5. EndsLine(u, Len(u)) /\ Len(u) > 0
    <3>1. Len(u) \in 1..Len(u) /\ a + Len(u) - 1 = Len(b) + 1
      BY <1>0, <1>2, <1>9, <2>4
    <3> QED
      BY <1>0, <2>4, <3>1 DEF EndsLine
  <2>6. PICK v : v = SubSeq(u, 1, Len(u) - 1)
    OBVIOUS
  <2>7. Chomp(u) = v
    BY <2>4, <2>5, <2>6, ChompCuts
  <2>8. /\ v \in Seq(Characters) /\ Len(v) = z - a
        /\ \A k \in 1..Len(v) : v[k] = u[k]
    <3>1. /\ 1 \in 1..(Len(u) + 1) /\ Len(u) - 1 \in 0..Len(u) /\ 1 <= Len(u) - 1
          /\ (Len(u) - 1) - 1 + 1 = z - a
      BY <1>0, <1>2, <2>4
    <3>2. /\ v \in Seq(Characters) /\ Len(v) = z - a
          /\ \A k \in 1..Len(v) : v[k] = u[1 + k - 1]
      BY <2>4, <2>6, <3>1, Cutting
    <3>3. \A k \in 1..Len(v) : 1 + k - 1 = k
      OBVIOUS
    <3> QED
      BY <3>2, <3>3
  <2>9. \A k \in 1..Len(t) : k \in 1..Len(u) /\ k \in 1..Len(v) /\ a + k - 1 \in 1..Len(b)
    BY <1>0, <1>2, <1>6, <1>9, <2>4, <2>8
  <2>10. \A k \in 1..Len(t) : v[k] = t[k]
    BY <1>0, <1>6, <2>4, <2>8, <2>9
  <2>11. v = t
    BY <1>6, <2>8, <2>10, SeqEqual
  <2>12. Len(u) = Len(t) + 1
    BY <1>0, <1>2, <1>6, <2>4
  <2> QED
    BY <1>0, <1>2, <1>5, <1>6, <2>3, <2>7, <2>11, <2>12
<1> QED
  BY <1>0, <1>2, <1>8, <1>9

(* Behind the last word, the client finds no more than the line's end.     *)
LEMMA NoToken ==
  ASSUME NEW b, IsBody(b), NEW s, s = Append(b, "\n"), NEW i \in 1..TokensRead,
         Start(b, i) > Len(b)
  PROVE  Len(Token(s, i)) \in {0, 1}
<1>0. /\ Len(b) \in Nat /\ Len(s) = Len(b) + 1 /\ s \in Seq(Characters)
  BY Typed, WithItsEnd DEF IsBody
<1>1. PICK c, y : c = Start(s, i) /\ y = End(s, i)
  OBVIOUS
<1>2. c > Len(b)
  BY <1>1, SpansWithTheEnd
<1>3. c \in 1..(Len(s) + 1) /\ y \in c..(Len(s) + 1)
  <2>1. IsSpan(s, i)
    BY <1>0, EverySpanIsAWord
  <2> QED
    BY <1>1, <2>1 DEF IsSpan
<1>4. y - 1 \in 0..Len(s)
  BY <1>0, <1>3
<1>5. Len(SubSeq(s, c, y - 1)) = IF c <= y - 1 THEN (y - 1) - c + 1 ELSE 0
  BY <1>0, <1>3, <1>4, Cutting
<1>6. Len(SubSeq(s, c, y - 1)) \in {0, 1}
  BY <1>0, <1>2, <1>3, <1>5
<1> QED
  BY <1>1, <1>6 DEF Token

(* The words of a line fit in their rows.                                  *)
Fit(b) == \A i \in 1..Len(Words(b)) :
            i <= MAX_TOKENS => Len(Words(b)[i]) < MAX_ARG_SIZE

(* tokenize_cmd finds the words of a line without its end, as many as it   *)
(* looks for, whatever blanks there are before, between and behind them.   *)
THEOREM ServerTokens ==
  ASSUME NEW b, IsBody(b)
  PROVE  LET n == Tokenize(b).num
         IN /\ n \in Nat /\ n = Smaller(Len(Words(b)), MAX_TOKENS)
            /\ \A i \in 1..n :
                 /\ i \in 1..TokensRead /\ i \in 1..Len(Words(b)) /\ i <= MAX_TOKENS
                 /\ Start(b, i) <= Len(b)
                 /\ Token(b, i) = Words(b)[i]
                 /\ Tokenize(b).rows[i] = Words(b)[i]
            /\ \A i \in 1..TokensRead : Start(b, i) <= Len(b) => i \in 1..n
<1>0. /\ b \in Seq(Characters) /\ Len(b) \in Nat
      /\ MAX_TOKENS \in Nat /\ TokensRead = MAX_TOKENS
  BY Typed, Sizes DEF IsBody, TokensRead
<1>1. PICK n : n = Tokenize(b).num
  OBVIOUS
<1>2. /\ n \in Nat /\ n = Smaller(Len(Words(b)), MAX_TOKENS)
      /\ \A i \in 1..TokensRead : Start(b, i) <= Len(b) <=> i <= n
  BY <1>0, <1>1, TokensAreCounted
<1>3. n <= Len(Words(b)) /\ n <= MAX_TOKENS /\ Len(Words(b)) \in Nat
  <2>1. Len(Words(b)) \in Nat
    BY <1>0, LengthOfWords, WordStartsFinite
  <2> QED
    BY <1>0, <1>2, <2>1, SmallerIs
<1>4. ASSUME NEW i \in 1..n
      PROVE  /\ i \in 1..TokensRead /\ i \in 1..Len(Words(b)) /\ i <= MAX_TOKENS
             /\ Start(b, i) <= Len(b)
             /\ Token(b, i) = Words(b)[i]
             /\ Tokenize(b).rows[i] = Words(b)[i]
  <2>1. i \in 1..TokensRead /\ i \in 1..Len(Words(b)) /\ i <= MAX_TOKENS /\ i <= n
    BY <1>0, <1>2, <1>3
  <2>2. Start(b, i) <= Len(b)
    BY <1>2, <2>1
  <2>3. Token(b, i) = Words(b)[i]
    BY <1>0, <2>1, <2>2, TokenIsWord DEF Token
  <2>4. Chomp(Token(b, i)) = Token(b, i)
    BY <2>1, BodyTokens DEF Token
  <2>5. Tokenize(b).rows[i] = Chomp(Token(b, i))
    BY <2>1, TokenizeIs
  <2> QED
    BY <2>1, <2>2, <2>3, <2>4, <2>5
<1>5. ASSUME NEW i \in 1..TokensRead, Start(b, i) <= Len(b) PROVE i \in 1..n
  BY <1>0, <1>2, <1>5
<1> QED
  BY <1>1, <1>2, <1>4, <1>5

(* In the line with its end, with words that fit, tokenize_cmd finds the   *)
(* same words, and perhaps one token more.                                 *)
THEOREM ClientTokens ==
  ASSUME NEW b, IsBody(b), Fit(b), NEW s, s = Append(b, "\n")
  PROVE  LET n == Tokenize(b).num
         IN /\ ~Tokenize(s).long
            /\ Tokenize(s).num \in Nat /\ Tokenize(s).num >= n
            /\ \A i \in 1..n : Tokenize(s).rows[i] = Words(b)[i]
<1>0. /\ b \in Seq(Characters) /\ Len(b) \in Nat
      /\ s \in Seq(Characters) /\ Len(s) = Len(b) + 1
      /\ MAX_TOKENS \in Nat \ {0} /\ MAX_ARG_SIZE \in Nat \ {0}
      /\ TokensRead = MAX_TOKENS
  BY Typed, WithItsEnd, Sizes DEF IsBody, TokensRead
<1>1. PICK n : n = Tokenize(b).num
  OBVIOUS
<1>2. /\ n \in Nat /\ n = Smaller(Len(Words(b)), MAX_TOKENS)
      /\ \A i \in 1..n :
           /\ i \in 1..TokensRead /\ i \in 1..Len(Words(b)) /\ i <= MAX_TOKENS
           /\ Start(b, i) <= Len(b)
           /\ Token(b, i) = Words(b)[i]
      /\ \A i \in 1..TokensRead : Start(b, i) <= Len(b) => i \in 1..n
  BY <1>1, ServerTokens
<1>3. ~Tokenize(s).long
  <2>1. ASSUME NEW i \in 1..TokensRead PROVE ~(Len(Token(s, i)) > MAX_ARG_SIZE)
    <3>1. CASE Start(b, i) <= Len(b)
      <4>1. i \in 1..Len(Words(b)) /\ i <= MAX_TOKENS /\ Token(b, i) = Words(b)[i]
        BY <1>2, <3>1
      <4>2. Len(Token(b, i)) < MAX_ARG_SIZE
        BY <4>1 DEF Fit
      <4>3. Len(Token(s, i)) <= Len(Token(b, i)) + 1
        BY <3>1, SameToken
      <4>4. Len(Token(b, i)) \in Nat /\ Len(Token(s, i)) \in Nat
        <5>1. IsSpan(b, i) /\ IsSpan(s, i)
          BY <1>0, EverySpanIsAWord
        <5>2. /\ Start(b, i) \in 1..(Len(b) + 1) /\ End(b, i) - 1 \in 0..Len(b)
              /\ Start(s, i) \in 1..(Len(s) + 1) /\ End(s, i) - 1 \in 0..Len(s)
          BY <1>0, <5>1 DEF IsSpan
        <5> QED
          BY <1>0, <5>2, Cutting, LenProperties DEF Token
      <4> QED
        BY <1>0, <4>2, <4>3, <4>4
    <3>2. CASE ~(Start(b, i) <= Len(b))
      <4>1. Start(b, i) > Len(b)
        <5>1. IsSpan(b, i)
          BY <1>0, EverySpanIsAWord
        <5> QED
          BY <1>0, <3>2, <5>1 DEF IsSpan
      <4>2. Len(Token(s, i)) \in {0, 1}
        BY <4>1, NoToken
      <4>3. PICK l : l = Len(Token(s, i))
        OBVIOUS
      <4>4. ~(l > MAX_ARG_SIZE)
        <5>1. l = 0 \/ l = 1
          BY <4>2, <4>3
        <5> QED
          BY <1>0, <5>1
      <4> QED
        BY <4>3, <4>4
    <3> QED
      BY <3>1, <3>2
  <2> QED
    BY <2>1, TokenizeIs
<1>4. Tokenize(s).num \in Nat /\ Tokenize(s).num >= n
  <2>1. PICK c, d : c = Len(Words(b)) /\ d = Len(Words(s))
    OBVIOUS
  <2>2. c \in Nat /\ d \in Nat /\ c <= d
    <3>1. Len(s) \in Nat
      BY <1>0
    <3>2. c = Cardinality(WordStarts(b)) /\ d = Cardinality(WordStarts(s))
      BY <1>0, <2>1, <3>1, LengthOfWords
    <3>3. Cardinality(WordStarts(b)) \in Nat /\ Cardinality(WordStarts(s)) \in Nat
      BY <1>0, <3>1, WordStartsFinite
    <3>4. Cardinality(WordStarts(b)) <= Cardinality(WordStarts(s))
      BY WordsWithTheEnd
    <3> QED
      BY <3>2, <3>3, <3>4
  <2>3. Tokenize(s).num = Smaller(d, MAX_TOKENS)
    BY <1>0, <2>1, TokensAreCounted
  <2>4. n = Smaller(c, MAX_TOKENS)
    BY <1>2, <2>1
  <2> QED
    BY <1>0, <2>2, <2>3, <2>4 DEF Smaller
<1>5. ASSUME NEW i \in 1..n PROVE Tokenize(s).rows[i] = Words(b)[i]
  <2>1. i \in 1..TokensRead /\ Start(b, i) <= Len(b) /\ Token(b, i) = Words(b)[i]
    BY <1>2
  <2>2. Chomp(Token(s, i)) = Token(b, i)
    BY <2>1, SameToken
  <2> QED
    BY <2>1, <2>2, TokenizeIs
<1> QED
  BY <1>1, <1>3, <1>4, <1>5

(* The strings in the rows of both are the words.                          *)
LEMMA StringsAreWords ==
  ASSUME NEW b, IsBody(b), Fit(b), NEW s, s = Append(b, "\n"),
         NEW i \in 1..Tokenize(b).num
  PROVE  /\ String(Tokenize(b).rows, i) = Words(b)[i]
         /\ String(Tokenize(s).rows, i) = Words(b)[i]
<1>1. /\ i \in 1..Len(Words(b)) /\ i <= MAX_TOKENS /\ i \in 1..MAX_TOKENS
      /\ Tokenize(b).rows[i] = Words(b)[i]
  BY ServerTokens DEF TokensRead
<1>2. Tokenize(s).rows[i] = Words(b)[i]
  BY ClientTokens
<1>3. Len(Words(b)[i]) < MAX_ARG_SIZE
  BY <1>1 DEF Fit
<1> QED
  BY <1>1, <1>2, <1>3, StringIsRow

-----------------------------------------------------------------------------
(* The inductive invariant.                                                *)

(* The line's end is the last character of a text, and of a line that      *)
(* fitted in the buffer.                                                   *)
TextIsLine ==
  /\ text \in Seq(Characters)
  /\ \A k \in 1..Len(text) : EndsLine(text, k) <=> k = Len(text)
EndsOnce ==
  /\ line \in Seq(Characters)
  /\ \A k \in 1..Len(line) : EndsLine(line, k) => k = Len(line)

(* The client has prepared the file that its tokens name.                  *)
IsPrepared(t, files) ==
  /\ files = [kind \in {"put", "get"} |-> files[kind]]
  /\ ~t.long /\ t.num > 2 /\ String(t.rows, 1) = <<"p">> =>
       files["put"] = [name |-> Cut(String(t.rows, 2)), size |-> String(t.rows, 3)]
  /\ ~t.long /\ t.num > 1 /\ String(t.rows, 1) = <<"g">> =>
       files["get"].name = Cut(String(t.rows, 2))
PreparedIsNamed ==
  /\ prepared = [kind \in {"put", "get"} |-> prepared[kind]]
  /\ step \in {"server", "run"} => IsPrepared(Tokenize(line), prepared)

(* A command that runs is the one that the server has split the line into, *)
(* and a line that ends in silence without one has no tokens.              *)
RunsItsLine ==
  /\ step \in {"type", "check", "server"} => running = "none"
  /\ step = "run" =>
       /\ rows = Tokenize(Input(line)).rows
       /\ num_tokens = Tokenize(Input(line)).num
       /\ \E c \in cmds : /\ c.name = String(rows, 1)
                         /\ num_tokens - 1 = c.num_params /\ running = c.kind
  /\ step = "silent" /\ running = "none" => Tokenize(Input(line)).num = 0

LineInvariant == TextIsLine /\ EndsOnce /\ PreparedIsNamed /\ RunsItsLine

LEMMA TypedText ==
  ASSUME NEW t \in Texts
  PROVE  LET s == Append(t, "\n")
         IN /\ s \in Seq(Characters)
            /\ \A k \in 1..Len(s) : EndsLine(s, k) <=> k = Len(s)
<1>1. PICK n \in 0..MaxText : t \in [1..n -> Letters \cup {" "}]
  BY DEF Texts
<1>2. n \in Nat
  OBVIOUS
<1>3. t \in Seq(Letters \cup {" "}) /\ Len(t) = n
  <2>1. t \in Seq(Letters \cup {" "})
    BY <1>1, <1>2, SeqDef
  <2>2. DOMAIN t = 1..n /\ DOMAIN t = 1..Len(t) /\ Len(t) \in Nat
    BY <1>1, <2>1, LenProperties
  <2>3. Len(t) = n
    BY <1>2, <2>2
  <2> QED
    BY <2>1, <2>3
<1>4. \A k \in 1..n : t[k] \in Letters \cup {" "}
  BY <1>1
<1>5. \A k \in 1..n : ~EndsLine(t, k)
  <2>1. "\n" \notin Letters \cup {" "}
    BY ConstantsAssumption
  <2> QED
    BY <1>4, <2>1 DEF EndsLine
<1>6. Letters \cup {" "} \in SUBSET Characters
  BY DEF Characters
<1>7. t \in Seq(Characters)
  <2>1. t \in [1..n -> Characters]
    BY <1>1, <1>6
  <2> QED
    BY <1>2, <2>1, SeqDef
<1>8. IsBody(t)
  BY <1>3, <1>5, <1>7 DEF IsBody
<1>9. PICK s : s = Append(t, "\n")
  OBVIOUS
<1>10. /\ s \in Seq(Characters) /\ Len(s) = n + 1
       /\ \A k \in 1..n : s[k] = t[k]
       /\ EndsLine(s, n + 1)
  BY <1>2, <1>3, <1>8, <1>9, WithItsEnd
<1>11. \A k \in 1..n : ~EndsLine(s, k)
  BY <1>5, <1>10 DEF EndsLine
<1>12. \A k \in 1..Len(s) : EndsLine(s, k) <=> k = Len(s)
  BY <1>2, <1>10, <1>11
<1> QED
  BY <1>9, <1>10, <1>12

LEMMA InitLine == Init => LineInvariant
<1> SUFFICES ASSUME Init PROVE LineInvariant
  OBVIOUS
<1>1. TextIsLine
  BY TypedText DEF Init, TextIsLine
<1>2. EndsOnce
  <2>1. line = <<>>
    BY DEF Init
  <2>2. line \in Seq(Characters) /\ Len(line) = 0
    BY <2>1, EmptySeq
  <2> QED
    BY <2>2 DEF EndsOnce
<1>3. PreparedIsNamed
  BY DEF Init, PreparedIsNamed
<1>4. RunsItsLine
  BY DEF Init, RunsItsLine
<1> QED
  BY <1>1, <1>2, <1>3, <1>4 DEF LineInvariant

(* fgets cuts a line from the text, and leaves the rest of it.             *)
LEMMA CutFromText ==
  ASSUME TextIsLine, text # <<>>, NEW n,
         n = Smaller(First(text, 1, {"\n"}), MAX_INPUT_SIZE - 2)
  PROVE  n \in 0..Len(text)
<1>0. /\ Len(text) \in Nat /\ Len(text) > 0 /\ text \in Seq(Characters)
      /\ MAX_INPUT_SIZE - 2 \in Nat
  <2>1. text \in Seq(Characters)
    BY DEF TextIsLine
  <2>2. Len(text) \in Nat
    BY <2>1, LenProperties
  <2>3. Len(text) # 0
    BY <2>1, EmptySeq
  <2> QED
    BY <2>1, <2>2, <2>3, Sizes
<1>1. PICK f : f = First(text, 1, {"\n"})
  OBVIOUS
<1>2. IsFirst(text, 1, {"\n"}, f)
  BY <1>0, <1>1, FirstIsFound
<1>3. f \in 1..(Len(text) + 1) /\ \A k \in 1..(f - 1) : ~EndsLine(text, k)
  BY <1>2 DEF IsFirst, EndsLine
<1>4. EndsLine(text, Len(text))
  BY <1>0 DEF TextIsLine
<1>5. f <= Len(text)
  BY <1>0, <1>3, <1>4
<1>6. n \in Nat /\ n <= f
  <2>1. f \in Nat
    BY <1>0, <1>3
  <2> QED
    BY <1>0, <1>1, <2>1, SmallerIs
<1> QED
  BY <1>0, <1>3, <1>5, <1>6

LEMMA LineIsCut ==
  ASSUME TextIsLine, NEW n \in 0..Len(text)
  PROVE  LET l == SubSeq(text, 1, n)
             r == SubSeq(text, n + 1, Len(text))
         IN /\ l \in Seq(Characters) /\ \A k \in 1..Len(l) : EndsLine(l, k) => k = Len(l)
            /\ r \in Seq(Characters) /\ \A k \in 1..Len(r) : EndsLine(r, k) <=> k = Len(r)
<1>0. /\ text \in Seq(Characters) /\ Len(text) \in Nat
      /\ \A k \in 1..Len(text) : EndsLine(text, k) <=> k = Len(text)
  BY Typed DEF TextIsLine
<1>1. PICK l, r : l = SubSeq(text, 1, n) /\ r = SubSeq(text, n + 1, Len(text))
  OBVIOUS
<1>2. /\ l \in Seq(Characters) /\ Len(l) = n
      /\ \A k \in 1..Len(l) : l[k] = text[k]
  <2>1. 1 \in 1..(Len(text) + 1)
    BY <1>0
  <2>2. /\ l \in Seq(Characters) /\ Len(l) = IF 1 <= n THEN n - 1 + 1 ELSE 0
        /\ \A k \in 1..Len(l) : l[k] = text[1 + k - 1]
    BY <1>0, <1>1, <2>1, Cutting
  <2>3. \A k \in 1..Len(l) : 1 + k - 1 = k
    OBVIOUS
  <2>4. Len(l) = n
    BY <1>0, <2>2
  <2> QED
    BY <2>2, <2>3, <2>4
<1>3. /\ r \in Seq(Characters) /\ Len(r) = Len(text) - n
      /\ \A k \in 1..Len(r) : r[k] = text[n + k]
  <2>1. n + 1 \in 1..(Len(text) + 1) /\ Len(text) \in 0..Len(text)
    BY <1>0
  <2>2. /\ r \in Seq(Characters)
        /\ Len(r) = IF n + 1 <= Len(text) THEN Len(text) - (n + 1) + 1 ELSE 0
        /\ \A k \in 1..Len(r) : r[k] = text[(n + 1) + k - 1]
    BY <1>0, <1>1, <2>1, Cutting
  <2>3. \A k \in 1..Len(r) : (n + 1) + k - 1 = n + k
    BY <1>0
  <2>4. Len(r) = Len(text) - n
    BY <1>0, <2>2
  <2> QED
    BY <2>2, <2>3, <2>4
<1>4. ASSUME NEW k \in 1..Len(l), EndsLine(l, k) PROVE k = Len(l)
  <2>1. k \in 1..Len(text) /\ k <= n
    BY <1>0, <1>2
  <2>2. EndsLine(text, k)
    BY <1>2, <1>4 DEF EndsLine
  <2>3. k = Len(text)
    BY <1>0, <2>1, <2>2
  <2> QED
    BY <1>0, <1>2, <2>1, <2>3
<1>5. ASSUME NEW k \in 1..Len(r) PROVE EndsLine(r, k) <=> k = Len(r)
  <2>1. n + k \in 1..Len(text)
    BY <1>0, <1>3
  <2>2. EndsLine(r, k) <=> EndsLine(text, n + k)
    BY <1>3 DEF EndsLine
  <2>3. EndsLine(text, n + k) <=> n + k = Len(text)
    BY <1>0, <2>1
  <2> QED
    BY <1>0, <1>3, <2>2, <2>3
<1> QED
  BY <1>1, <1>2, <1>3, <1>4, <1>5

LEMMA PreparedIs ==
  ASSUME NEW t, prepared = [kind \in {"put", "get"} |-> prepared[kind]]
  PROVE  IsPrepared(t, Prepared(t))
<1>0. PICK file : file = Cut(String(t.rows, 2))
  OBVIOUS
<1>a. PICK put : put <=> ~t.long /\ t.num > 2 /\ String(t.rows, 1) = <<"p">>
  OBVIOUS
<1>b. PICK get : get <=> ~t.long /\ t.num > 1 /\ String(t.rows, 1) = <<"g">>
  OBVIOUS
<1>1. <<"p">> # <<"g">>
  OBVIOUS
<1>2. ~(put /\ get)
  BY <1>1, <1>a, <1>b
<1>3. put => Prepared(t) = [prepared EXCEPT !["put"] =
                               [name |-> file, size |-> String(t.rows, 3)]]
  BY <1>0, <1>a, <1>b, <1>2 DEF Prepared, FileArgument
<1>4. get => Prepared(t) = [prepared EXCEPT !["get"] = [name |-> file, size |-> <<>>]]
  BY <1>0, <1>a, <1>b, <1>2 DEF Prepared, FileArgument
<1>5. ~put /\ ~get => Prepared(t) = prepared
  BY <1>0, <1>a, <1>b DEF Prepared, FileArgument
<1>6. PICK files : files = Prepared(t)
  OBVIOUS
<1>7. /\ files = [kind \in {"put", "get"} |-> files[kind]]
      /\ put => files["put"] = [name |-> file, size |-> String(t.rows, 3)]
      /\ get => files["get"] = [name |-> file, size |-> <<>>]
  BY <1>3, <1>4, <1>5, <1>6
<1> QED
  BY <1>0, <1>a, <1>b, <1>6, <1>7 DEF IsPrepared

(* Each step preserves each part.                                          *)
LEMMA FgetsKeeps == LineInvariant /\ Fgets => LineInvariant'
<1> SUFFICES ASSUME LineInvariant, Fgets PROVE LineInvariant'
  OBVIOUS
<1>1. PICK n : n = Smaller(First(text, 1, {"\n"}), MAX_INPUT_SIZE - 2)
  OBVIOUS
<1>2. line' = SubSeq(text, 1, n) /\ text' = SubSeq(text, n + 1, Len(text))
  BY <1>1 DEF Fgets
<1>3. n \in 0..Len(text)
  BY <1>1, CutFromText DEF LineInvariant, Fgets
<1>4. TextIsLine' /\ EndsOnce'
  BY <1>2, <1>3, LineIsCut DEF LineInvariant, TextIsLine, EndsOnce
<1>5. PreparedIsNamed'
  BY DEF LineInvariant, PreparedIsNamed, Fgets
<1>6. RunsItsLine'
  BY DEF LineInvariant, RunsItsLine, Fgets
<1> QED
  BY <1>4, <1>5, <1>6 DEF LineInvariant

LEMMA CheckInputKeeps == LineInvariant /\ CheckInput => LineInvariant'
<1> SUFFICES ASSUME LineInvariant, CheckInput PROVE LineInvariant'
  OBVIOUS
<1>1. TextIsLine' /\ EndsOnce'
  BY DEF LineInvariant, CheckInput, TextIsLine, EndsOnce
<1>2. PreparedIsNamed'
  <2>1. prepared' = Prepared(Tokenize(line)) /\ line' = line
    BY DEF CheckInput
  <2>2. IsPrepared(Tokenize(line), Prepared(Tokenize(line)))
    BY PreparedIs DEF LineInvariant, PreparedIsNamed
  <2>3. IsPrepared(Tokenize(line'), prepared')
    BY <2>1, <2>2
  <2>4. prepared' = [kind \in {"put", "get"} |-> prepared'[kind]]
    BY <2>3 DEF IsPrepared
  <2> QED
    BY <2>3, <2>4 DEF PreparedIsNamed
<1>3. RunsItsLine'
  BY DEF LineInvariant, RunsItsLine, CheckInput
<1> QED
  BY <1>1, <1>2, <1>3 DEF LineInvariant

LEMMA ProcessCmdKeeps == LineInvariant /\ ProcessCmd => LineInvariant'
<1> SUFFICES ASSUME LineInvariant, ProcessCmd PROVE LineInvariant'
  OBVIOUS
<1>1. TextIsLine' /\ EndsOnce'
  BY DEF LineInvariant, ProcessCmd, TextIsLine, EndsOnce
<1>2. PreparedIsNamed'
  <2>1. IsPrepared(Tokenize(line), prepared) /\ line' = line /\ prepared' = prepared
    BY DEF LineInvariant, PreparedIsNamed, ProcessCmd
  <2> QED
    BY <2>1 DEF LineInvariant, PreparedIsNamed
<1>3. RunsItsLine'
  <2>1. PICK t : t = Tokenize(Input(line))
    OBVIOUS
  <2>2. /\ rows' = t.rows /\ num_tokens' = t.num /\ line' = line
        /\ \/ t.num = 0 /\ step' = "silent"
           \/ step' = "answered"
           \/ step' = "run" /\ \E c \in cmds : /\ c.name = String(t.rows, 1)
                                             /\ t.num - 1 = c.num_params
                                             /\ running' = c.kind
    BY <2>1 DEF ProcessCmd, Matching
  <2>3. Tokenize(Input(line')) = t
    BY <2>1, <2>2
  <2>4. step' = "run" =>
          \E c \in cmds : /\ c.name = String(rows', 1)
                         /\ num_tokens' - 1 = c.num_params /\ running' = c.kind
    BY <2>2
  <2> QED
    BY <2>2, <2>3, <2>4 DEF RunsItsLine
<1> QED
  BY <1>1, <1>2, <1>3 DEF LineInvariant

LEMMA ReturnsKeeps == LineInvariant /\ Returns => LineInvariant'
<1> SUFFICES ASSUME LineInvariant, Returns PROVE LineInvariant'
  OBVIOUS
<1>1. TextIsLine' /\ EndsOnce'
  BY DEF LineInvariant, Returns, TextIsLine, EndsOnce
<1>2. step' \in {"answered", "silent"}
  BY DEF Returns
<1>3. PreparedIsNamed'
  BY <1>2 DEF LineInvariant, PreparedIsNamed, Returns
<1>4. RunsItsLine'
  <2>1. running' \in {"put", "get", "ping", "exit"}
    BY DEF Returns, cmds
  <2> QED
    BY <1>2, <2>1 DEF RunsItsLine
<1> QED
  BY <1>1, <1>3, <1>4 DEF LineInvariant

LEMMA AnsweredKeeps == LineInvariant /\ Answered => LineInvariant'
  BY DEF LineInvariant, Answered, TextIsLine, EndsOnce, PreparedIsNamed, RunsItsLine

LEMMA StutteringKeepsLine == LineInvariant /\ UNCHANGED vars => LineInvariant'
  BY DEF LineInvariant, vars, TextIsLine, EndsOnce, PreparedIsNamed, RunsItsLine

(* What a line becomes on its way through client and server, in every      *)
(* state: the invariant that the theorems about the properties rest on.    *)
THEOREM LineInvariance == Spec => []LineInvariant
<1>1. LineInvariant /\ [Next]_vars => LineInvariant'
  BY FgetsKeeps, CheckInputKeeps, ProcessCmdKeeps, ReturnsKeeps, AnsweredKeeps,
     StutteringKeepsLine DEF Next
<1> QED
  BY InitLine, <1>1, PTL DEF Spec

-----------------------------------------------------------------------------
(* The properties.                                                         *)

(* A line that fitted in the buffer is what the server reads, and its end. *)
LEMMA WholeLine ==
  ASSUME EndsOnce, IsWhole
  PROVE  /\ IsBody(Input(line)) /\ line = Append(Input(line), "\n")
         /\ Body(line) = Input(line)
<1>0. line \in Seq(Characters) /\ Len(line) \in Nat /\ Len(line) > 0
  <2>1. line \in Seq(Characters)
    BY DEF EndsOnce
  <2>2. Len(line) \in Nat /\ Len(line) # 0
    BY <2>1, LenProperties, EmptySeq DEF IsWhole
  <2> QED
    BY <2>1, <2>2
<1>1. PICK b : b = Input(line)
  OBVIOUS
<1>2. b = SubSeq(line, 1, Len(line) - 1)
  BY <1>1 DEF Input
<1>3. /\ b \in Seq(Characters) /\ Len(b) = Len(line) - 1
      /\ \A k \in 1..Len(b) : b[k] = line[k]
  <2>1. 1 \in 1..(Len(line) + 1) /\ Len(line) - 1 \in 0..Len(line)
    BY <1>0
  <2>2. /\ b \in Seq(Characters)
        /\ Len(b) = IF 1 <= Len(line) - 1 THEN (Len(line) - 1) - 1 + 1 ELSE 0
        /\ \A k \in 1..Len(b) : b[k] = line[1 + k - 1]
    BY <1>0, <1>2, <2>1, Cutting
  <2>3. \A k \in 1..Len(b) : 1 + k - 1 = k
    OBVIOUS
  <2>4. Len(b) = Len(line) - 1
    <3>1. PICK l : l = Len(line)
      OBVIOUS
    <3>2. l \in Nat /\ l > 0 /\ Len(b) = IF 1 <= l - 1 THEN (l - 1) - 1 + 1 ELSE 0
      BY <1>0, <2>2, <3>1
    <3>3. PICK m \in Nat : l = m + 1
      BY <3>2
    <3>4. Len(b) = m
      BY <3>2, <3>3
    <3> QED
      BY <3>1, <3>3, <3>4
  <2> QED
    BY <2>2, <2>3, <2>4
<1>4. \A k \in 1..Len(b) : ~EndsLine(line, k)
  <2>1. \A k \in 1..Len(b) : k \in 1..Len(line) /\ k # Len(line)
    BY <1>0, <1>3
  <2> QED
    BY <2>1 DEF EndsOnce
<1>5. IsBody(b)
  BY <1>3, <1>4 DEF IsBody, EndsLine
<1>6. line = Append(b, "\n")
  <2>1. PICK s : s = Append(b, "\n")
    OBVIOUS
  <2>2. /\ s \in Seq(Characters) /\ Len(s) = Len(b) + 1
        /\ \A k \in 1..Len(b) : s[k] = b[k]
        /\ EndsLine(s, Len(s))
    BY <1>5, <2>1, WithItsEnd
  <2>3. s[Len(line)] = line[Len(line)]
    <3>1. Len(s) = Len(line)
      BY <1>0, <1>3, <2>2
    <3> QED
      BY <2>2, <3>1 DEF EndsLine, IsWhole
  <2>4. \A k \in 1..Len(line) : k \in 1..Len(b) \/ k = Len(line)
    BY <1>0, <1>3
  <2>5. \A k \in 1..Len(line) : s[k] = line[k]
    BY <1>3, <2>2, <2>3, <2>4
  <2>6. Len(s) = Len(line)
    BY <1>0, <1>3, <2>2
  <2>7. s = line
    BY <1>0, <2>2, <2>5, <2>6, SeqEqual
  <2> QED
    BY <2>1, <2>7
<1>7. First(line, 1, {"\n"}) = Len(line)
  <2>1. Len(line) \in 1..(Len(line) + 1) /\ 1 \in 1..(Len(line) + 1)
    BY <1>0
  <2>2. 1..(Len(line) - 1) = 1..Len(b)
    BY <1>3
  <2>3. IsFirst(line, 1, {"\n"}, Len(line))
    BY <1>4, <2>1, <2>2 DEF IsFirst, EndsLine, IsWhole
  <2> QED
    BY <1>0, <2>1, <2>3, FirstIsUnique
<1>8. Body(line) = b
  BY <1>2, <1>7 DEF Body
<1> QED
  BY <1>1, <1>5, <1>6, <1>8

(* The server's table of a whole line with words that fit.                 *)
LEMMA RowsAreWords ==
  ASSUME LineInvariant, step = "run", IsWhole, WordsFit
  PROVE  /\ IsBody(Input(line)) /\ Fit(Input(line)) /\ line = Append(Input(line), "\n")
         /\ Body(line) = Input(line)
         /\ num_tokens = Tokenize(Input(line)).num
         /\ num_tokens = Smaller(Len(Words(Input(line))), MAX_TOKENS)
         /\ num_tokens \in Nat
         /\ \A i \in 1..num_tokens :
              /\ String(rows, i) = Words(Input(line))[i]
              /\ String(Tokenize(line).rows, i) = Words(Input(line))[i]
<1>1. PICK b : b = Input(line)
  OBVIOUS
<1>2. IsBody(b) /\ line = Append(b, "\n") /\ Body(line) = b
  BY <1>1, WholeLine DEF LineInvariant
<1>3. Fit(b)
  BY <1>2 DEF WordsFit, Fit
<1>4. rows = Tokenize(b).rows /\ num_tokens = Tokenize(b).num
  BY <1>1 DEF LineInvariant, RunsItsLine
<1>5. /\ Tokenize(b).num \in Nat
      /\ Tokenize(b).num = Smaller(Len(Words(b)), MAX_TOKENS)
  BY <1>2, ServerTokens
<1>6. \A i \in 1..Tokenize(b).num : /\ String(Tokenize(b).rows, i) = Words(b)[i]
                                    /\ String(Tokenize(line).rows, i) = Words(b)[i]
  BY <1>2, <1>3, StringsAreWords
<1> QED
  BY <1>1, <1>2, <1>3, <1>4, <1>5, <1>6

(* ArgumentsAreWords: the command that runs is given the words of its      *)
(* line, for words, lines and tables of any size.                          *)
THEOREM CommandsGetTheirWords == Spec => []ArgumentsAreWords
<1>1. LineInvariant => ArgumentsAreWords
  BY RowsAreWords DEF ArgumentsAreWords
<1> QED
  BY <1>1, LineInvariance, PTL

(* Cut leaves a name that fits as it is.                                   *)
LEMMA CutKeeps ==
  ASSUME NEW b, IsBody(b), NEW i \in 1..Tokenize(b).num,
         Len(Words(b)[i]) <= MAX_FILENAME_SIZE
  PROVE  Cut(Words(b)[i]) = Words(b)[i]
<1>1. PICK w : w = Words(b)[i]
  OBVIOUS
<1>2. w \in Seq(Characters)
  <2>1. i \in 1..TokensRead /\ w = Token(b, i)
    BY <1>1, ServerTokens
  <2> QED
    BY <2>1, BodyTokens DEF Token
<1>3. Len(w) \in Nat
  BY <1>2, LenProperties
<1>4. Smaller(Len(w), MAX_FILENAME_SIZE) = Len(w)
  BY <1>1, <1>3, Sizes DEF Smaller
<1>5. SubSeq(w, 1, Len(w)) = w
  <2>1. PICK v : v = SubSeq(w, 1, Len(w))
    OBVIOUS
  <2>2. 1 \in 1..(Len(w) + 1) /\ Len(w) \in 0..Len(w)
    BY <1>3
  <2>3. /\ v \in Seq(Characters) /\ Len(v) = IF 1 <= Len(w) THEN Len(w) - 1 + 1 ELSE 0
        /\ \A k \in 1..Len(v) : v[k] = w[1 + k - 1]
    BY <1>2, <2>1, <2>2, Cutting
  <2>4. Len(v) = Len(w) /\ \A k \in 1..Len(v) : 1 + k - 1 = k
    BY <1>3, <2>3
  <2> QED
    BY <1>2, <2>1, <2>3, <2>4, SeqEqual
<1> QED
  BY <1>1, <1>4, <1>5 DEF Cut

(* SameTransfer: a put or get that runs moves the file that the client has *)
(* prepared for it.                                                        *)
THEOREM TheSameFileMoves == Spec => []SameTransfer
<1>1. LineInvariant => SameTransfer
  <2> SUFFICES ASSUME LineInvariant, step = "run", IsWhole, WordsFit,
                      running \in {"put", "get"},
                      Len(String(rows, 2)) <= MAX_FILENAME_SIZE
               PROVE  /\ prepared[running].name = String(rows, 2)
                      /\ running = "put" => prepared[running].size = String(rows, 3)
    BY DEF SameTransfer
  <2>1. PICK b : b = Input(line)
    OBVIOUS
  <2>2. /\ IsBody(b) /\ Fit(b) /\ line = Append(b, "\n")
        /\ num_tokens = Tokenize(b).num /\ num_tokens \in Nat
        /\ \A i \in 1..num_tokens : /\ String(rows, i) = Words(b)[i]
                                    /\ String(Tokenize(line).rows, i) = Words(b)[i]
    BY <2>1, RowsAreWords
  <2>3. PICK t : t = Tokenize(line)
    OBVIOUS
  <2>4. ~t.long /\ t.num \in Nat /\ t.num >= num_tokens
    BY <2>2, <2>3, ClientTokens
  <2>5. IsPrepared(t, prepared)
    BY <2>3 DEF LineInvariant, PreparedIsNamed
  <2>6. PICK c \in cmds : /\ c.name = String(rows, 1)
                          /\ num_tokens - 1 = c.num_params /\ running = c.kind
    BY DEF LineInvariant, RunsItsLine
  <2>7. \/ running = "put" /\ c.name = <<"p">> /\ c.num_params = 2
        \/ running = "get" /\ c.name = <<"g">> /\ c.num_params = 1
    BY <2>6 DEF cmds
  <2>8. num_tokens >= 2 /\ (running = "put" => num_tokens = 3)
    BY <2>2, <2>6, <2>7
  <2>9. /\ String(t.rows, 1) = String(rows, 1) /\ String(t.rows, 2) = String(rows, 2)
        /\ running = "put" => String(t.rows, 3) = String(rows, 3)
    BY <2>2, <2>3, <2>8
  <2>10. Cut(String(rows, 2)) = String(rows, 2)
    <3>1. 2 \in 1..Tokenize(b).num /\ String(rows, 2) = Words(b)[2]
      BY <2>2, <2>8
    <3> QED
      BY <2>2, <3>1, CutKeeps
  <2>11. CASE running = "put"
    <3>1. t.num > 2 /\ String(t.rows, 1) = <<"p">>
      BY <2>2, <2>4, <2>6, <2>7, <2>8, <2>9, <2>11
    <3> QED
      BY <2>4, <2>5, <2>9, <2>10, <2>11, <3>1 DEF IsPrepared
  <2>12. CASE running = "get"
    <3>1. t.num > 1 /\ String(t.rows, 1) = <<"g">>
      BY <2>2, <2>4, <2>6, <2>7, <2>8, <2>9, <2>12
    <3> QED
      BY <2>4, <2>5, <2>9, <2>10, <2>12, <3>1 DEF IsPrepared
  <2> QED
    BY <2>11, <2>12
<1> QED
  BY <1>1, LineInvariance, PTL

(* WordsAreAnswered: only a line without any word ends in silence when no  *)
(* command runs.                                                           *)
THEOREM SilenceMeansNoWords == Spec => []WordsAreAnswered
<1>1. LineInvariant => WordsAreAnswered
  <2> SUFFICES ASSUME LineInvariant, step = "silent", IsWhole, running = "none"
               PROVE  Words(Body(line)) = <<>>
    BY DEF WordsAreAnswered
  <2>1. PICK b : b = Input(line)
    OBVIOUS
  <2>2. IsBody(b) /\ Body(line) = b
    BY <2>1, WholeLine DEF LineInvariant
  <2>3. Tokenize(b).num = 0
    BY <2>1 DEF LineInvariant, RunsItsLine
  <2>4. Smaller(Len(Words(b)), MAX_TOKENS) = 0
    BY <2>2, <2>3, ServerTokens
  <2>5. b \in Seq(Characters) /\ Len(b) \in Nat
    BY <2>2, LenProperties DEF IsBody
  <2>6. Len(Words(b)) = 0
    BY <2>4, <2>5, Sizes DEF Smaller
  <2>7. Cardinality(WordStarts(b)) = 0
    BY <2>5, <2>6, LengthOfWords
  <2>8. Words(b) = <<>>
    BY <2>7 DEF Words
  <2> QED
    BY <2>2, <2>8
<1> QED
  BY <1>1, LineInvariance, PTL
=============================================================================
