---------------------------- MODULE InputsProofs ----------------------------
(***************************************************************************)
(* What holds of every page, line, long premise and evaluation: a page's   *)
(* operations are all in its chunks and the cells of its table apart, the  *)
(* windows of a premise leave no sentence out, the words of a line are     *)
(* restored (Extraction), and the grades of an evaluation agree with what  *)
(* was said (Evaluation).                                                  *)
(***************************************************************************)
EXTENDS Extraction, Evaluation, Integers, FiniteSetTheorems, SequenceTheorems,
        WellFoundedInduction, TLAPS

-----------------------------------------------------------------------------
(* Natural numbers *)

\* A set of natural numbers has a least member.
LEMMA Least ==
  ASSUME NEW T, T \subseteq Nat, T # {}
  PROVE  \E m \in T : \A k \in T : m <= k
  <1>1. PICK m \in T : \A k \in T : <<k, m>> \notin OpToRel(<, Nat)
    BY NatLessThanWellFounded, WFMin
  <1>2. ASSUME NEW k \in T PROVE m <= k
    <2>1. m \in Nat /\ k \in Nat
      OBVIOUS
    <2>2. <<k, m>> \notin OpToRel(<, Nat)
      BY <1>1
    <2>3. ~(k < m)
      BY <2>1, <2>2 DEF OpToRel
    <2> HIDE <2>2
    <2> QED BY <2>1, <2>3
  <1> QED BY <1>2

\* Which Min is.
LEMMA LeastIs ==
  ASSUME NEW T, T \subseteq Nat, T # {}
  PROVE  Min(T) \in T
  <1>1. \E m \in T : \A k \in T : m <= k
    BY Least
  <1> QED BY <1>1 DEF Min

\* A bounded one has a greatest, which is Max.
LEMMA Greatest ==
  ASSUME NEW T, NEW n \in Nat, T \subseteq 0 .. n, T # {}
  PROVE  Max(T) \in T /\ \A y \in T : Max(T) >= y
  <1> DEFINE U == {n - x : x \in T}
  <1>1. U \subseteq Nat /\ U # {}
    <2>1. \A x \in T : x \in Int /\ 0 <= x /\ x <= n
      OBVIOUS
    <2>2. \A x \in T : n - x \in Nat
      BY <2>1
    <2> QED BY <2>2
  <1>2. PICK m \in U : \A k \in U : m <= k
    BY <1>1, Least
  <1>3. PICK x \in T : m = n - x
    OBVIOUS
  <1>4. \A y \in T : x >= y
    <2> TAKE y \in T
    <2>1. m <= n - y /\ x \in Nat /\ y \in Nat
      BY <1>2
    <2> QED BY <1>3, <2>1
  <1> QED BY <1>4 DEF Max

\* Induction on the natural numbers, of a set instead of a formula.
LEMMA SetInduction ==
  ASSUME NEW T, 0 \in T, \A n \in Nat : n \in T => n + 1 \in T
  PROVE  Nat \subseteq T
  <1> SUFFICES ASSUME Nat \ T # {} PROVE FALSE
    OBVIOUS
  <1>1. PICK m \in Nat \ T : \A k \in Nat \ T : m <= k
    BY Least
  <1>2. m # 0 /\ m - 1 \in Nat
    BY <1>1
  <1>3. m - 1 \in T
    BY <1>1, <1>2
  <1> QED BY <1>1, <1>2, <1>3

-----------------------------------------------------------------------------
(* FlattenSeq *)

(* g says which sequence of seqs each member of t comes from. *)
Origin(S, seqs, n, t, g) ==
  /\ t \in Seq(S) /\ g \in [1 .. Len(t) -> 1 .. n]
  /\ \A i \in 1 .. Len(t), k \in 1 .. Len(t) : i <= k => g[i] <= g[k]
  /\ \A k \in 1 .. Len(t) : \E j \in DOMAIN seqs[g[k]] : t[k] = seqs[g[k]][j]
  /\ \A m \in 1 .. n : \A j \in DOMAIN seqs[m] :
       \E k \in 1 .. Len(t) : g[k] = m /\ t[k] = seqs[m][j]

\* One more sequence, and the members of the longer result still come from theirs, in order.
LEMMA OriginStep ==
  ASSUME NEW S, NEW seqs \in Seq(Seq(S)), NEW n \in Nat, n + 1 <= Len(seqs),
         NEW t, NEW g, Origin(S, seqs, n, t, g)
  PROVE  \E h : Origin(S, seqs, n + 1, t \o seqs[n + 1], h)
  <1> DEFINE s == seqs[n + 1]
             a == Len(t)
             u == t \o s
             h == [k \in 1 .. Len(u) |-> IF k <= a THEN g[k] ELSE n + 1]
  <1>1. n + 1 \in 1 .. Len(seqs) /\ s \in Seq(S) /\ t \in Seq(S)
    BY DEF Origin
  <1>2. /\ u \in Seq(S) /\ Len(u) = a + Len(s) /\ a \in Nat /\ Len(s) \in Nat
        /\ \A i \in 1 .. Len(u) : u[i] = IF i <= a THEN t[i] ELSE s[i - a]
        /\ DOMAIN s = 1 .. Len(s)
    BY <1>1, ConcatProperties
  <1> HIDE DEF s, a, u
  <1>3. \A k \in 1 .. Len(u) : h[k] = IF k <= a THEN g[k] ELSE n + 1
    OBVIOUS
  <1>5. \A k \in 1 .. Len(u) : k <= a => k \in 1 .. a /\ g[k] \in 1 .. n
    <2>1. \A k \in 1 .. Len(u) : k <= a => k \in 1 .. a
      BY <1>2
    <2>2. \A k \in 1 .. a : g[k] \in 1 .. n
      BY DEF Origin, a
    <2> QED BY <2>1, <2>2
  <1>4. h \in [1 .. Len(u) -> 1 .. n + 1]
    <2>1. \A k \in 1 .. Len(u) : (IF k <= a THEN g[k] ELSE n + 1) \in 1 .. n + 1
      BY <1>5
    <2> QED BY <2>1
  <1> HIDE DEF h
  <1>6. \A i \in 1 .. Len(u), k \in 1 .. Len(u) : i <= k => h[i] <= h[k]
    <2> TAKE i \in 1 .. Len(u), k \in 1 .. Len(u)
    <2> HAVE i <= k
    <2>1. CASE k <= a
      <3>1. i <= a
        BY <1>2, <2>1
      <3>2. g[i] <= g[k]
        BY <1>5, <2>1, <3>1 DEF Origin, a
      <3> QED BY <1>3, <2>1, <3>1, <3>2
    <2>2. CASE ~(k <= a)
      <3>1. h[k] = n + 1 /\ h[i] \in 1 .. n + 1
        BY <1>3, <1>4, <2>2
      <3> QED BY <3>1
    <2> QED BY <2>1, <2>2
  <1>7. \A k \in 1 .. Len(u) : \E j \in DOMAIN seqs[h[k]] : u[k] = seqs[h[k]][j]
    <2> TAKE k \in 1 .. Len(u)
    <2>1. CASE k <= a
      <3>1. h[k] = g[k] /\ u[k] = t[k] /\ k \in 1 .. Len(t)
        BY <1>2, <1>3, <1>5, <2>1 DEF a
      <3> QED BY <3>1 DEF Origin
    <2>2. CASE ~(k <= a)
      <3>1. h[k] = n + 1 /\ u[k] = s[k - a] /\ k - a \in DOMAIN s
        BY <1>2, <1>3, <2>2
      <3> QED BY <3>1 DEF s
    <2> QED BY <2>1, <2>2
  <1>8. ASSUME NEW m \in 1 .. n + 1, NEW j \in DOMAIN seqs[m]
        PROVE  \E k \in 1 .. Len(u) : h[k] = m /\ u[k] = seqs[m][j]
    <2>1. CASE m \in 1 .. n
      <3>1. PICK k \in 1 .. Len(t) : g[k] = m /\ t[k] = seqs[m][j]
        BY <2>1 DEF Origin
      <3>2. k \in 1 .. Len(u) /\ k <= a
        BY <1>2, <3>1 DEF a
      <3> QED BY <1>2, <1>3, <3>1, <3>2
    <2>2. CASE m = n + 1
      <3>1. j \in 1 .. Len(s)
        BY <1>2, <2>2 DEF s
      <3>2. a + j \in 1 .. Len(u) /\ ~(a + j <= a) /\ (a + j) - a = j
        <4>1. a \in Nat /\ Len(s) \in Nat /\ Len(u) = a + Len(s)
          BY <1>2
        <4> QED BY ONLY <3>1, <4>1
      <3>3. h[a + j] = m /\ u[a + j] = s[j]
        BY <1>2, <1>3, <2>2, <3>2
      <3> QED BY <2>2, <3>2, <3>3 DEF s
    <2>3. m \in 1 .. n \/ m = n + 1
      OBVIOUS
    <2> QED BY ONLY <2>1, <2>2, <2>3
  <1>9. Origin(S, seqs, n + 1, u, h)
    BY <1>2, <1>4, <1>6, <1>7, <1>8 DEF Origin
  <1>10. u = t \o seqs[n + 1]
    BY DEF u, s
  <1> QED BY <1>9, <1>10

\* The function FlattenSeq defines by recursion.
Flattening(seqs, n, f) == f = [i \in 1 .. n |-> IF i = 1 THEN seqs[i] ELSE f[i - 1] \o seqs[i]]

\* There is one.
LEMMA FlattenExists ==
  ASSUME NEW seqs, NEW L \in Nat \ {0}
  PROVE  \E f : Flattening(seqs, L, f)
  <1> DEFINE T == {n \in Nat : \E f : Flattening(seqs, n + 1, f)}
  <1>1. 0 \in T
    <2> DEFINE f == [i \in 1 .. 1 |-> seqs[i]]
    <2>1. \A i \in 1 .. 1 : i = 1
      OBVIOUS
    <2>2. f = [i \in 1 .. 1 |-> IF i = 1 THEN seqs[i] ELSE f[i - 1] \o seqs[i]]
      BY <2>1
    <2>3. Flattening(seqs, 1, f)
      BY <2>2 DEF Flattening
    <2> QED BY <2>3
  <1>2. ASSUME NEW n \in Nat, n \in T PROVE n + 1 \in T
    <2>1. PICK f : Flattening(seqs, n + 1, f)
      BY <1>2
    <2> DEFINE m == n + 1
               g == [i \in 1 .. m + 1 |-> IF i = m + 1 THEN f[m] \o seqs[i] ELSE f[i]]
    <2>2. \A i \in 1 .. m : f[i] = IF i = 1 THEN seqs[i] ELSE f[i - 1] \o seqs[i]
      BY <2>1 DEF Flattening
    <2>6. \A i \in 1 .. m + 1 : g[i] = IF i = m + 1 THEN f[m] \o seqs[i] ELSE f[i]
      OBVIOUS
    <2>7. m \in Nat
      OBVIOUS
    <2>8. g = [i \in 1 .. m + 1 |-> g[i]]
      OBVIOUS
    <2> HIDE DEF g, m
    <2>3. ASSUME NEW i \in 1 .. m + 1
          PROVE  g[i] = IF i = 1 THEN seqs[i] ELSE g[i - 1] \o seqs[i]
      <3>1. CASE i = m + 1
        <4>1. i # 1 /\ i - 1 = m /\ m \in 1 .. m + 1 /\ m # m + 1
          BY <2>7, <3>1 DEF m
        <4>2. g[m] = f[m] /\ g[i] = f[m] \o seqs[i]
          BY <2>6, <3>1, <4>1
        <4> QED BY <4>1, <4>2
      <3>2. CASE i # m + 1 /\ i # 1
        <4>1. i \in 1 .. m /\ i - 1 \in 1 .. m + 1 /\ i - 1 # m + 1
          BY <2>7, <3>2
        <4>2. g[i] = f[i] /\ g[i - 1] = f[i - 1]
          BY <2>6, <3>2, <4>1
        <4> QED BY <2>2, <3>2, <4>1, <4>2
      <3>3. CASE i = 1
        <4>1. 1 \in 1 .. m /\ 1 # m + 1 /\ 1 \in 1 .. m + 1
          BY <2>7 DEF m
        <4>2. g[1] = f[1]
          BY <2>6, <4>1
        <4> QED BY <2>2, <3>3, <4>1, <4>2
      <3> QED BY <3>1, <3>2, <3>3
    <2>4. g = [i \in 1 .. m + 1 |-> IF i = 1 THEN seqs[i] ELSE g[i - 1] \o seqs[i]]
      BY <2>3, <2>8
    <2>5. Flattening(seqs, m + 1, g)
      BY <2>4 DEF Flattening
    <2> QED BY <2>5 DEF m
  <1>3. Nat \subseteq T
    <2> HIDE DEF T
    <2> QED BY <1>1, <1>2, SetInduction
  <1>4. L - 1 \in Nat /\ (L - 1) + 1 = L
    OBVIOUS
  <1> QED BY <1>3, <1>4

\* What FlattenSeq returns is the members of the sequences, in order and with none left out.
LEMMA FlattenOrigin ==
  ASSUME NEW S, NEW seqs \in Seq(Seq(S))
  PROVE  \E g : Origin(S, seqs, Len(seqs), FlattenSeq(seqs), g)
  <1> DEFINE L == Len(seqs)
             f == CHOOSE f : f = [i \in 1 .. L |-> IF i = 1 THEN seqs[i] ELSE f[i - 1] \o seqs[i]]
             T == {n \in Nat : n + 1 <= L => \E g : Origin(S, seqs, n + 1, f[n + 1], g)}
  <1>0. L \in Nat
    OBVIOUS
  <1>1. PICK t, e : t = <<>> /\ Origin(S, seqs, 0, t, e)
    <2>1. <<>> \in Seq(S) /\ Len(<<>>) = 0
      BY EmptySeq
    <2>2. 1 .. 0 = {} /\ <<>> \in [{} -> 1 .. 0]
      OBVIOUS
    <2>3. Origin(S, seqs, 0, <<>>, <<>>)
      BY <2>1, <2>2 DEF Origin
    <2> QED BY <2>3
  <1>2. CASE L = 0
    <2>1. FlattenSeq(seqs) = <<>>
      BY <1>2, EmptySeq DEF FlattenSeq
    <2> QED BY <1>1, <1>2, <2>1
  <1>3. CASE L # 0
    <2>1. \E h : h = [i \in 1 .. L |-> IF i = 1 THEN seqs[i] ELSE h[i - 1] \o seqs[i]]
      <3>1. \E h : Flattening(seqs, L, h)
        <4> HIDE DEF L
        <4> QED BY <1>0, <1>3, FlattenExists
      <3> QED BY <3>1 DEF Flattening
    <2>2. f = [i \in 1 .. L |-> IF i = 1 THEN seqs[i] ELSE f[i - 1] \o seqs[i]]
      BY <2>1, Zenon
    <2>3. FlattenSeq(seqs) = f[L]
      BY <1>3 DEF FlattenSeq
    <2> HIDE DEF f
    <2>4. \A i \in 1 .. L : f[i] = IF i = 1 THEN seqs[i] ELSE f[i - 1] \o seqs[i]
      BY <2>2
    <2>5. 0 \in T
      <3>1. 1 \in 1 .. L /\ f[1] = seqs[1] /\ seqs[1] \in Seq(S) /\ 0 + 1 = 1
        BY <1>0, <1>3, <2>4
      <3>2. <<>> \o seqs[1] = seqs[1]
        BY <3>1, ConcatEmptySeq
      <3>4. 0 \in Nat /\ 0 + 1 <= Len(seqs)
        BY <1>0, <1>3
      <3>3. \E g : Origin(S, seqs, 0 + 1, t \o seqs[0 + 1], g)
        BY <1>1, <3>4, OriginStep
      <3> QED BY <1>1, <3>1, <3>2, <3>3
    <2>6. ASSUME NEW n \in Nat, n \in T PROVE n + 1 \in T
      <3>1. CASE (n + 1) + 1 <= L
        <4>1. (n + 1) + 1 \in 1 .. L /\ n + 1 <= L /\ ((n + 1) + 1) - 1 = n + 1 /\ n + 1 \in Nat
              /\ (n + 1) + 1 # 1
          BY <1>0, <3>1
        <4>2. PICK g : Origin(S, seqs, n + 1, f[n + 1], g)
          BY <2>6, <4>1
        <4>3. f[(n + 1) + 1] = f[n + 1] \o seqs[(n + 1) + 1]
          BY <2>4, <4>1
        <4>4. \E h : Origin(S, seqs, (n + 1) + 1, f[n + 1] \o seqs[(n + 1) + 1], h)
          BY <3>1, <4>1, <4>2, OriginStep
        <4>5. \E h : Origin(S, seqs, (n + 1) + 1, f[(n + 1) + 1], h)
          BY <4>3, <4>4
        <4> QED BY <4>1, <4>5
      <3> QED BY <3>1
    <2>7. Nat \subseteq T
      <3> HIDE DEF T
      <3> QED BY <2>5, <2>6, SetInduction
    <2>8. L - 1 \in Nat /\ (L - 1) + 1 = L
      BY <1>0, <1>3
    <2>9. \E g : Origin(S, seqs, (L - 1) + 1, f[(L - 1) + 1], g)
      <3> DEFINE m == L - 1
      <3>1. m \in T
        <4> HIDE DEF T, m
        <4> QED BY <2>7, <2>8 DEF m
      <3>2. m + 1 <= L
        BY <1>0
      <3> HIDE DEF m
      <3>3. \E g : Origin(S, seqs, m + 1, f[m + 1], g)
        BY <3>1, <3>2
      <3> QED BY <3>3 DEF m
    <2> QED BY <2>3, <2>8, <2>9
  <1> QED BY <1>2, <1>3

-----------------------------------------------------------------------------
(* The words of a chunk *)

\* The words RowChunk writes between the cells.
Labels == {"newline", "row", "|"}

ChunkWord == [word : STRING \cup Labels, op : Nat]

\* The text of places is of words drawn there, and of a word at least of each that draws one.
LEMMA TextFacts ==
  ASSUME NEW sheet \in Seq(Operation), NEW places, places \subseteq DOMAIN sheet
  PROVE  /\ Text(sheet, places) \in Seq(ChunkWord)
         /\ \A k \in DOMAIN Text(sheet, places) : Text(sheet, places)[k].op \in places
         /\ \A i \in places : sheet[i].words # <<>> =>
              \E k \in DOMAIN Text(sheet, places) : Text(sheet, places)[k].op = i
  <1> DEFINE words(i) == [w \in DOMAIN sheet[i].words |-> [word |-> sheet[i].words[w], op |-> i]]
             seqs == [i \in DOMAIN sheet |-> IF i \in places THEN words(i) ELSE <<>>]
             t == FlattenSeq(seqs)
  <1>1. DOMAIN sheet = 1 .. Len(sheet) /\ Len(sheet) \in Nat
    OBVIOUS
  <1>2. ASSUME NEW i \in DOMAIN sheet
        PROVE  /\ words(i) \in Seq(ChunkWord)
               /\ DOMAIN words(i) = 1 .. Len(sheet[i].words) /\ Len(sheet[i].words) \in Nat
               /\ \A w \in DOMAIN words(i) : words(i)[w].op = i
    <2>1. sheet[i] \in Operation
      BY <1>1
    <2>2. sheet[i].words \in Seq(STRING)
      BY <2>1 DEF Operation
    <2>3. DOMAIN sheet[i].words = 1 .. Len(sheet[i].words) /\ Len(sheet[i].words) \in Nat
      BY <2>2, LenProperties
    <2>4. \A w \in DOMAIN sheet[i].words : [word |-> sheet[i].words[w], op |-> i] \in ChunkWord
      <3> TAKE w \in DOMAIN sheet[i].words
      <3>1. sheet[i].words[w] \in STRING
        BY <2>2, <2>3, ElementOfSeq
      <3>2. i \in Nat
        BY <1>1
      <3> QED BY <3>1, <3>2 DEF ChunkWord
    <2>5. words(i) \in [1 .. Len(sheet[i].words) -> ChunkWord]
      BY <2>3, <2>4
    <2> QED BY <2>3, <2>5, IsASeq
  <1>3. <<>> \in Seq(ChunkWord)
    BY EmptySeq
  <1> HIDE DEF words
  <1>4. \A i \in 1 .. Len(sheet) : (IF i \in places THEN words(i) ELSE <<>>) \in Seq(ChunkWord)
    BY <1>1, <1>2, <1>3
  <1>5. seqs \in Seq(Seq(ChunkWord)) /\ Len(seqs) = Len(sheet) /\ DOMAIN seqs = 1 .. Len(sheet)
    <2>1. seqs \in [1 .. Len(sheet) -> Seq(ChunkWord)]
      BY <1>1, <1>4
    <2> QED BY <1>1, <2>1, IsASeq
  <1>6. \A i \in 1 .. Len(sheet) : seqs[i] = IF i \in places THEN words(i) ELSE <<>>
    BY <1>1
  <1> HIDE DEF seqs
  <1>7. PICK g : Origin(ChunkWord, seqs, Len(sheet), t, g)
    BY <1>5, FlattenOrigin
  <1>8. t \in Seq(ChunkWord) /\ DOMAIN t = 1 .. Len(t)
    BY <1>7 DEF Origin
  <1> HIDE DEF t
  <1>9. ASSUME NEW k \in DOMAIN t PROVE t[k].op \in places
    <2>1. g[k] \in 1 .. Len(sheet)
      BY <1>7, <1>8 DEF Origin
    <2>2. PICK j \in DOMAIN seqs[g[k]] : t[k] = seqs[g[k]][j]
      BY <1>7, <1>8 DEF Origin
    <2>3. g[k] \in places /\ seqs[g[k]] = words(g[k])
      <3>1. DOMAIN <<>> = {}
        OBVIOUS
      <3> QED BY <1>6, <2>1, <2>2, <3>1
    <2> QED BY <1>1, <1>2, <2>1, <2>2, <2>3
  <1>10. ASSUME NEW i \in places, sheet[i].words # <<>>
         PROVE  \E k \in DOMAIN t : t[k].op = i
    <2>1. i \in 1 .. Len(sheet) /\ seqs[i] = words(i) /\ i \in DOMAIN sheet
      BY <1>1, <1>6
    <2>2. Len(sheet[i].words) # 0
      <3>1. sheet[i].words \in Seq(STRING)
        <4>1. sheet[i] \in Operation
          BY <2>1
        <4> QED BY <4>1 DEF Operation
      <3> QED BY <1>10, <3>1, EmptySeq
    <2>3. 1 \in DOMAIN words(i) /\ words(i)[1].op = i
      BY <1>2, <2>1, <2>2
    <2>4. PICK k \in 1 .. Len(t) : g[k] = i /\ t[k] = seqs[i][1]
      BY <1>7, <2>1, <2>3 DEF Origin
    <2> QED BY <1>8, <2>1, <2>3, <2>4
  <1>11. Text(sheet, places) = t
    BY DEF Text, t, seqs, words
  <1> QED BY <1>8, <1>9, <1>10, <1>11

\* So of places that draw words, the text comes from all of them.
LEMMA TextFrom ==
  ASSUME NEW sheet \in Seq(Operation), NEW places,
         \A i \in places : i \in DOMAIN sheet /\ sheet[i].words # <<>>
  PROVE  From(Text(sheet, places)) = places
  <1>1. places \subseteq DOMAIN sheet /\ 0 \notin places
    BY LenProperties
  <1>2. \A k \in DOMAIN Text(sheet, places) : Text(sheet, places)[k].op \in places
    BY <1>1, TextFacts
  <1>3. \A i \in places : \E k \in DOMAIN Text(sheet, places) : Text(sheet, places)[k].op = i
    BY <1>1, TextFacts
  <1> QED BY <1>1, <1>2, <1>3 DEF From

\* Two texts one after the other come from the places of both.
LEMMA FromConcat ==
  ASSUME NEW s \in Seq(ChunkWord), NEW t \in Seq(ChunkWord)
  PROVE  s \o t \in Seq(ChunkWord) /\ From(s \o t) = From(s) \cup From(t)
  <1> DEFINE u == s \o t
  <1>1. /\ u \in Seq(ChunkWord) /\ Len(u) = Len(s) + Len(t)
        /\ \A i \in 1 .. Len(s) + Len(t) : u[i] = IF i <= Len(s) THEN s[i] ELSE t[i - Len(s)]
    BY ConcatProperties
  <1>2. /\ DOMAIN u = 1 .. Len(u) /\ DOMAIN s = 1 .. Len(s) /\ DOMAIN t = 1 .. Len(t)
        /\ Len(s) \in Nat /\ Len(t) \in Nat
    BY <1>1, LenProperties
  <1> HIDE DEF u
  <1>3. ASSUME NEW i \in DOMAIN u PROVE u[i].op \in {s[k].op : k \in DOMAIN s} \cup {t[k].op : k \in DOMAIN t}
    <2>1. CASE i <= Len(s)
      <3>1. i \in DOMAIN s /\ u[i] = s[i]
        BY <1>1, <1>2, <2>1
      <3> QED BY <3>1
    <2>2. CASE ~(i <= Len(s))
      <3>1. i - Len(s) \in DOMAIN t /\ u[i] = t[i - Len(s)]
        BY <1>1, <1>2, <2>2
      <3> QED BY <3>1
    <2> QED BY <2>1, <2>2
  <1>4. ASSUME NEW k \in DOMAIN s PROVE s[k].op \in {u[i].op : i \in DOMAIN u}
    <2>1. k \in DOMAIN u /\ u[k] = s[k]
      BY <1>1, <1>2
    <2> QED BY <2>1
  <1>5. ASSUME NEW k \in DOMAIN t PROVE t[k].op \in {u[i].op : i \in DOMAIN u}
    <2>1. /\ Len(s) + k \in DOMAIN u /\ ~(Len(s) + k <= Len(s)) /\ (Len(s) + k) - Len(s) = k
          /\ Len(s) + k \in 1 .. Len(s) + Len(t)
      BY <1>1, <1>2
    <2>2. u[Len(s) + k] = t[k]
      BY <1>1, <2>1
    <2> QED BY <2>1, <2>2
  <1>6. {u[i].op : i \in DOMAIN u} = {s[k].op : k \in DOMAIN s} \cup {t[k].op : k \in DOMAIN t}
    BY <1>3, <1>4, <1>5
  <1>7. From(u) = From(s) \cup From(t)
    BY <1>6 DEF From
  <1> QED BY <1>1, <1>7 DEF u

-----------------------------------------------------------------------------
(* Runs and rows *)

\* A run is of one column and unbroken, and each operation of the body is in exactly one.
LEMMA RunFacts ==
  ASSUME NEW sheet, NEW body, body \subseteq Nat
  PROVE  /\ \A k \in body : k \in Run(sheet, body, k)
         /\ \A k \in body : \A i \in Run(sheet, body, k) :
              /\ i \in body /\ k <= i
              /\ \A m \in body : k <= m /\ m <= i => sheet[m].x = sheet[k].x
         /\ \A m \in body : \E s \in RunStarts(sheet, body) : m \in Run(sheet, body, s)
         /\ \A k \in RunStarts(sheet, body) : k \in body
         /\ \A k, m \in RunStarts(sheet, body) :
              Run(sheet, body, k) \cap Run(sheet, body, m) # {} => k = m
  <1>1. \A k \in body : k \in Run(sheet, body, k)
    <2> TAKE k \in body
    <2>1. \A m \in body : k <= m /\ m <= k => m = k
      OBVIOUS
    <2> QED BY <2>1 DEF Run
  <1>2. \A k \in body : \A i \in Run(sheet, body, k) :
          /\ i \in body /\ k <= i
          /\ \A m \in body : k <= m /\ m <= i => sheet[m].x = sheet[k].x
    <2> TAKE k \in body
    <2> TAKE i \in Run(sheet, body, k)
    <2>1. i \in body /\ k <= i
          /\ \A m \in body : k <= m /\ m <= i => sheet[m].x = sheet[k].x
      BY DEF Run
    <2> QED BY <2>1
  <1>3. ASSUME NEW m \in body
        PROVE  \E s \in RunStarts(sheet, body) : m \in Run(sheet, body, s)
    <2> DEFINE U == {k \in body : m \in Run(sheet, body, k)}
    <2>1. U \subseteq Nat /\ U # {}
      BY <1>1
    <2>2. PICK s \in U : \A k \in U : s <= k
      BY <2>1, Least
    <2>3. ASSUME NEW k \in body, k < s, s \in Run(sheet, body, k) PROVE FALSE
      <3>1. m \in Run(sheet, body, s)
        OBVIOUS
      <3>2. s <= m /\ \A z \in body : s <= z /\ z <= m => sheet[z].x = sheet[s].x
        BY <1>2, <3>1
      <3>3. \A z \in body : k <= z /\ z <= s => sheet[z].x = sheet[k].x
        BY <1>2, <2>3
      <3>4. \A z \in body : k <= z /\ z <= m => sheet[z].x = sheet[k].x
        <4> TAKE z \in body
        <4>1. z <= s \/ s <= z
          OBVIOUS
        <4>2. sheet[s].x = sheet[k].x
          BY <2>3, <3>3
        <4> QED BY <3>2, <3>3, <4>1, <4>2
      <3>5. k <= m
        BY <2>3, <3>2
      <3>6. m \in Run(sheet, body, k)
        BY <3>4, <3>5 DEF Run
      <3>7. s <= k
        BY <2>2, <3>6
      <3> QED BY <2>3, <3>7
    <2>4. s \in RunStarts(sheet, body)
      BY <2>3 DEF RunStarts
    <2> QED BY <2>4
  <1>4. ASSUME NEW k \in RunStarts(sheet, body), NEW m \in RunStarts(sheet, body), k < m,
               NEW i, i \in Run(sheet, body, k), i \in Run(sheet, body, m)
        PROVE  FALSE
    <2>1. k \in body /\ m \in body /\ m \notin Run(sheet, body, k)
      BY <1>4 DEF RunStarts
    <2>2. /\ i \in body /\ m <= i
          /\ \A z \in body : k <= z /\ z <= i => sheet[z].x = sheet[k].x
      BY <1>2, <1>4, <2>1
    <2>3. k <= m /\ \A z \in body : k <= z /\ z <= m => sheet[z].x = sheet[k].x
      BY <1>4, <2>1, <2>2
    <2> QED BY <2>1, <2>3 DEF Run
  <1>5. \A k \in RunStarts(sheet, body) : k \in body
    BY DEF RunStarts
  <1>6. ASSUME NEW k \in RunStarts(sheet, body), NEW m \in RunStarts(sheet, body),
               Run(sheet, body, k) \cap Run(sheet, body, m) # {}
        PROVE  k = m
    <2>1. PICK i : i \in Run(sheet, body, k) /\ i \in Run(sheet, body, m)
      BY <1>6
    <2>2. ~(k < m) /\ ~(m < k)
      BY <1>4, <2>1
    <2>3. k \in Nat /\ m \in Nat
      BY <1>5
    <2> QED BY <2>2, <2>3
  <1> QED BY <1>1, <1>2, <1>3, <1>5, <1>6

(* An operation of the right column is followed by another before the left column comes
   back, with others between them. *)
BrokenOff(sheet, body, left, right, i) ==
  \E j \in body :
    /\ i < j /\ sheet[j].x = right
    /\ \E m \in body : i < m /\ m < j /\ sheet[m].x # right
    /\ \A m \in body : i < m /\ m < j => sheet[m].x # left

\* The cells of a row hold all its operations but those broken off.
RowWhole(sheet, body, left, right, rows, l) ==
  /\ rows[l].left \cup rows[l].right \subseteq rows[l].ops
  /\ rows[l].ops \subseteq body
  /\ \A i \in rows[l].left : sheet[i].x = left
  /\ \A i \in rows[l].right : sheet[i].x = right /\ ~BrokenOff(sheet, body, left, right, i)
  /\ \A i \in rows[l].ops \ (rows[l].left \cup rows[l].right) :
       /\ sheet[i].x = right /\ BrokenOff(sheet, body, left, right, i)
       /\ \A k \in DOMAIN rows : i \notin rows[k].left \cup rows[k].right

\* Every row is whole.
LEMMA RowFacts ==
  ASSUME NEW sheet, NEW n \in Nat, NEW body, body \subseteq 1 .. n,
         NEW left, NEW right, left # right,
         NEW rows, rows = RowsOf(sheet, body, left, right),
         NEW l \in DOMAIN rows
  PROVE  RowWhole(sheet, body, left, right, rows, l)
  <1>15. \A k \in body : \A i \in Run(sheet, body, k) :
              /\ i \in body /\ k <= i
              /\ \A m \in body : k <= m /\ m <= i => sheet[m].x = sheet[k].x
    <2>1. body \subseteq Nat
      OBVIOUS
    <2> QED BY <2>1, RunFacts
  <1> DEFINE starts == RunStarts(sheet, body)
             lefts  == Column(sheet, starts, left)
             R(k) == {r \in Column(sheet, starts, right) :
                        k < r /\ \A m \in lefts : ~(k < m /\ m < r)}
             cell(k) == Run(sheet, body, k)
             x(k) == sheet[k].x
  <1>0. body \subseteq Nat
    OBVIOUS
  <1>1. DOMAIN rows = lefts
    BY DEF RowsOf
  <1>2. ASSUME NEW k \in lefts
        PROVE  /\ rows[k].left = cell(k)
               /\ rows[k].right = IF R(k) = {} THEN {} ELSE cell(Max(R(k)))
               /\ rows[k].ops = cell(k) \cup UNION {cell(r) : r \in R(k)}
    BY DEF RowsOf
  <1>3. \A k \in lefts : k \in starts /\ k \in body /\ x(k) = left
    BY <1>0, RunFacts DEF Column
  <1>4. \A k \in lefts : \A r \in R(k) : /\ r \in starts /\ r \in body /\ x(r) = right /\ k < r
                                         /\ \A m \in lefts : ~(k < m /\ m < r)
    BY <1>0, RunFacts DEF Column
  <1>6. \A k \in body : \A i \in cell(k) : /\ i \in body /\ k <= i /\ x(i) = x(k)
                                           /\ \A m \in body : k <= m /\ m <= i => x(m) = x(k)
    <2> TAKE k \in body
    <2> TAKE i \in cell(k)
    <2>1. /\ i \in body /\ k <= i
          /\ \A m \in body : k <= m /\ m <= i => x(m) = x(k)
      BY <1>15
    <2>2. i <= i
      BY <1>0, <2>1
    <2> QED BY <2>1, <2>2
  <1>7. \A m \in body : \E s \in starts : s \in body /\ m \in cell(s)
    BY <1>0, RunFacts
  <1>8. \A k, m \in starts : cell(k) \cap cell(m) # {} => k = m
    BY <1>0, RunFacts
  <1>9. \A k \in starts : x(k) = left => k \in lefts
    BY DEF Column
  <1>10. \A k \in lefts, r \in starts : x(r) = right /\ k < r /\ (\A m \in lefts : ~(k < m /\ m < r)) => r \in R(k)
    BY DEF Column
  <1>11. \A r \in starts : \A m \in body : m < r => r \notin cell(m)
    BY DEF RunStarts
  <1>12. \A k, i \in body : k <= i /\ (\A m \in body : k <= m /\ m <= i => x(m) = x(k)) => i \in cell(k)
    BY DEF Run
  <1> HIDE DEF starts, lefts, R, cell, x
  <1>5. \A k \in lefts : R(k) # {} => Max(R(k)) \in R(k) /\ \A r \in R(k) : Max(R(k)) >= r
    <2> TAKE k \in lefts
    <2> HAVE R(k) # {}
    <2>1. \A r \in R(k) : r \in body
      BY <1>4
    <2> DEFINE T == R(k)
    <2>2. T # {} /\ \A r \in T : r \in body
      BY <2>1
    <2> HIDE DEF T
    <2>3. T \subseteq 0 .. n
      <3>1. ASSUME NEW r \in T PROVE r \in 0 .. n
        <4>1. r \in body
          BY <2>2
        <4>2. r \in 1 .. n
          BY <4>1
        <4> QED BY <4>2
      <3> QED BY <3>1
    <2>4. Max(T) \in T /\ \A r \in T : Max(T) >= r
      BY <2>2, <2>3, Greatest
    <2> QED BY <2>4 DEF T
  <1>13. ASSUME NEW k \in lefts, NEW r \in R(k), NEW i \in cell(r), r = Max(R(k)),
                NEW j \in body, i < j, x(j) = right,
                NEW m \in body, i < m, m < j, x(m) # right,
                \A z \in body : i < z /\ z < j => x(z) # left
         PROVE  FALSE
    <2>1. PICK s \in starts : s \in body /\ j \in cell(s)
      BY <1>7
    <2>2. r \in body /\ k \in body /\ r \in starts /\ x(r) = right /\ k < r
          /\ \A z \in lefts : ~(k < z /\ z < r)
      BY <1>3, <1>4
    <2>3. /\ i \in body /\ r <= i /\ \A z \in body : r <= z /\ z <= i => x(z) = right
      BY <1>6, <2>2
    <2>4. s <= j /\ x(s) = right /\ \A z \in body : s <= z /\ z <= j => x(z) = right
      BY <1>6, <1>13, <2>1
    <2>5. m < s
      <3>1. ~(s <= m)
        BY <1>13, <2>4
      <3> QED BY <1>0, <2>1, <3>1
    <2>6. r < s /\ k < s /\ i < s
      BY <1>0, <1>13, <2>1, <2>2, <2>3, <2>5
    <2>7. ASSUME NEW z \in lefts, k < z, z < s PROVE FALSE
      <3>1. z \in body /\ x(z) = left /\ ~(z < r)
        BY <1>3, <2>2, <2>7
      <3>2. r <= z
        BY <1>0, <2>2, <3>1
      <3>3. ~(z <= i)
        BY <2>3, <3>1, <3>2
      <3>4. i < z /\ z < j
        BY <1>0, <2>1, <2>3, <2>4, <2>7, <3>1, <3>3
      <3> QED BY <1>13, <3>1, <3>4
    <2>8. s \in R(k)
      BY <1>10, <2>4, <2>6, <2>7
    <2>9. r >= s
      BY <1>5, <1>13, <2>8
    <2> QED BY <1>0, <2>1, <2>2, <2>6, <2>9
  <1>14. ASSUME NEW k \in lefts, NEW r \in R(k), NEW i \in cell(r), r # Max(R(k))
         PROVE  /\ x(i) = right /\ BrokenOff(sheet, body, left, right, i)
                /\ \A z \in lefts : i \notin rows[z].left \cup rows[z].right
    <2>1. r \in body /\ k \in body /\ r \in starts /\ x(r) = right /\ k < r
      BY <1>3, <1>4
    <2>2. /\ i \in body /\ r <= i /\ x(i) = right
          /\ \A z \in body : r <= z /\ z <= i => x(z) = right
      BY <1>6, <2>1
    <2>3. PICK j : j \in R(k) /\ r < j
      <3> DEFINE j == Max(R(k))
      <3>1. j \in R(k) /\ j >= r /\ j # r
        BY <1>5, <1>14
      <3>2. j \in body
        BY <1>4, <3>1
      <3> HIDE DEF j
      <3>3. r < j
        BY <1>0, <2>1, <3>1, <3>2
      <3> QED BY <3>1, <3>3
    <2>4. /\ j \in body /\ j \in starts /\ x(j) = right /\ k < j
          /\ \A z \in lefts : ~(k < z /\ z < j)
      BY <1>4, <2>3
    <2>5. j \notin cell(r)
      BY <1>11, <2>1, <2>3, <2>4
    <2>6. PICK m \in body : r <= m /\ m <= j /\ x(m) # right
      BY <1>12, <2>1, <2>3, <2>4, <2>5
    <2>7. i < m /\ m < j
      <3>1. ~(m <= i) /\ m # j
        BY <2>2, <2>4, <2>6
      <3> QED BY <1>0, <2>2, <2>4, <2>6, <3>1
    <2>8. i < j
      BY <1>0, <2>2, <2>4, <2>6, <2>7
    <2>9. ASSUME NEW z \in body, i < z, z < j PROVE x(z) # left
      <3> SUFFICES ASSUME x(z) = left PROVE FALSE
        OBVIOUS
      <3>1. PICK s \in starts : s \in body /\ z \in cell(s)
        BY <1>7
      <3>2. s <= z /\ x(s) = left /\ \A y \in body : s <= y /\ y <= z => x(y) = left
        BY <1>6, <3>1
      <3>3. s \in lefts
        BY <1>9, <3>1, <3>2
      <3>4. ~(s <= i)
        BY <1>0, <2>2, <2>9, <3>2
      <3>5. k < s /\ s < j
        BY <1>0, <2>1, <2>2, <2>4, <2>9, <3>1, <3>2, <3>4
      <3> QED BY <2>4, <3>3, <3>5
    <2>10. BrokenOff(sheet, body, left, right, i)
      BY <2>4, <2>6, <2>7, <2>8, <2>9 DEF BrokenOff, x
    <2>11. ASSUME NEW z \in lefts, i \in rows[z].left \cup rows[z].right PROVE FALSE
      <3>1. i \notin rows[z].left
        <4>1. ASSUME i \in cell(z) PROVE FALSE
          <5>1. x(i) = left
            BY <1>3, <1>6, <4>1
          <5> QED BY <2>2, <5>1
        <4> QED BY <1>2, <4>1
      <3>2. R(z) # {} /\ i \in cell(Max(R(z)))
        BY <1>2, <2>11, <3>1
      <3> DEFINE q == Max(R(z))
      <3>3. q \in R(z)
        BY <1>5, <3>2
      <3>4. i \in cell(q)
        BY <3>2
      <3> HIDE DEF q
      <3>5. q \in starts /\ z < q /\ \A y \in lefts : ~(z < y /\ y < q)
        BY <1>4, <3>3
      <3>6. q = r
        BY <1>8, <1>14, <2>1, <3>4, <3>5
      <3>7. z \in body /\ ~(k < z) /\ ~(z < k)
        <4>1. \A y \in lefts : ~(k < y /\ y < r)
          BY <1>4
        <4>2. z \in body
          BY <1>3
        <4> QED BY <2>1, <3>5, <3>6, <4>1, <4>2
      <3>8. z = k
        BY <1>0, <2>1, <3>7
      <3> QED BY <1>14, <3>6, <3>8 DEF q
    <2> QED BY <2>2, <2>10, <2>11
  <1>16. ASSUME NEW k \in lefts, R(k) # {}, NEW i \in cell(Max(R(k)))
         PROVE  x(i) = right /\ ~BrokenOff(sheet, body, left, right, i)
    <2> DEFINE r == Max(R(k))
    <2>1. r \in R(k) /\ i \in cell(r)
      BY <1>5, <1>16
    <2>2. x(i) = right
      <3> HIDE DEF r
      <3>1. r \in body /\ x(r) = right
        BY <1>4, <2>1
      <3> QED BY <1>6, <2>1, <3>1
    <2>3. ASSUME BrokenOff(sheet, body, left, right, i) PROVE FALSE
      <3>1. PICK j \in body :
              /\ i < j /\ sheet[j].x = right
              /\ \E m \in body : i < m /\ m < j /\ sheet[m].x # right
              /\ \A m \in body : i < m /\ m < j => sheet[m].x # left
        BY <2>3 DEF BrokenOff
      <3>2. PICK m \in body : i < m /\ m < j /\ sheet[m].x # right
        BY <3>1
      <3> HIDE DEF r
      <3> QED BY <1>13, <2>1, <3>1, <3>2 DEF x, r
    <2> QED BY <2>2, <2>3
  <1>17. l \in lefts
    BY <1>1
  <1>18. \A i \in cell(l) : i \in body /\ sheet[i].x = left
    BY <1>3, <1>6, <1>17 DEF x
  <1>19. \A r \in R(l) : \A i \in cell(r) : i \in body
    BY <1>4, <1>6, <1>17
  <1>20. rows[l].left \cup rows[l].right \subseteq rows[l].ops
    <2>1. R(l) # {} => Max(R(l)) \in R(l)
      BY <1>5, <1>17
    <2> QED BY <1>2, <1>17, <2>1
  <1>21. rows[l].ops \subseteq body
    BY <1>2, <1>17, <1>18, <1>19
  <1>22. \A i \in rows[l].left : sheet[i].x = left
    BY <1>2, <1>17, <1>18
  <1>23. \A i \in rows[l].right : sheet[i].x = right /\ ~BrokenOff(sheet, body, left, right, i)
    BY <1>2, <1>16, <1>17 DEF x
  <1>24. ASSUME NEW i \in rows[l].ops \ (rows[l].left \cup rows[l].right)
         PROVE  /\ sheet[i].x = right /\ BrokenOff(sheet, body, left, right, i)
                /\ \A k \in DOMAIN rows : i \notin rows[k].left \cup rows[k].right
    <2>1. PICK r \in R(l) : i \in cell(r)
      BY <1>2, <1>17
    <2>2. r # Max(R(l))
      BY <1>2, <1>17, <2>1
    <2> QED BY <1>1, <1>14, <1>17, <2>1, <2>2 DEF x
  <1> QED BY <1>20, <1>21, <1>22, <1>23, <1>24 DEF RowWhole

-----------------------------------------------------------------------------
(* Nothing is lost *)

LEMMA Bounded ==
  ASSUME NEW sheet \in Seq(Operation)
  PROVE  \E b \in Nat : \A i \in DOMAIN sheet : sheet[i].x \in 0 .. b
  <1> DEFINE T == {n \in Nat : \E b \in Nat : \A i \in DOMAIN sheet : i <= n => sheet[i].x \in 0 .. b}
  <1>1. DOMAIN sheet = 1 .. Len(sheet) /\ Len(sheet) \in Nat
    OBVIOUS
  <1>2. \A i \in DOMAIN sheet : sheet[i].x \in Nat
    <2> TAKE i \in DOMAIN sheet
    <2>1. sheet[i] \in Operation
      BY <1>1
    <2> QED BY <2>1 DEF Operation
  <1>3. 0 \in T
    <2>1. \A i \in DOMAIN sheet : i <= 0 => sheet[i].x \in 0 .. 0
      BY <1>1
    <2> QED BY <2>1
  <1>4. ASSUME NEW n \in Nat, n \in T PROVE n + 1 \in T
    <2>1. PICK b \in Nat : \A i \in DOMAIN sheet : i <= n => sheet[i].x \in 0 .. b
      BY <1>4
    <2>2. PICK c \in Nat : c >= b /\ (n + 1 \in DOMAIN sheet => c >= sheet[n + 1].x)
      <3>1. CASE n + 1 \in DOMAIN sheet
        <4>1. sheet[n + 1].x + b \in Nat /\ sheet[n + 1].x \in Nat
          BY <1>2, <3>1
        <4> QED BY <4>1
      <3> QED BY <3>1
    <2>3. ASSUME NEW i \in DOMAIN sheet, i <= n + 1 PROVE sheet[i].x \in 0 .. c
      <3>1. CASE i <= n
        BY <1>2, <2>1, <2>2, <3>1
      <3>2. CASE ~(i <= n)
        <4>1. i = n + 1
          BY <1>1, <2>3, <3>2
        <4> QED BY <1>2, <2>2, <4>1
      <3> QED BY <3>1, <3>2
    <2> QED BY <2>3
  <1>5. Nat \subseteq T
    <2> HIDE DEF T
    <2> QED BY <1>3, <1>4, SetInduction
  <1>6. PICK b \in Nat : \A i \in DOMAIN sheet : i <= Len(sheet) => sheet[i].x \in 0 .. b
    <2>1. Len(sheet) \in T
      <3> HIDE DEF T
      <3> QED BY <1>1, <1>5
    <2> QED BY <2>1
  <1> QED BY <1>1, <1>6

\* The steps of DetectTable, for a page where it finds a table.
TableOf(sheet, table, body, left, right, rows, kept) ==
  /\ table.caption \in PageTextOps(sheet)
  /\ body = Body(sheet, PageTextOps(sheet), table.caption)
  /\ left = Min(Anchors(sheet, body)) /\ right = Max(Anchors(sheet, body)) /\ left # right
  /\ rows = RowsOf(sheet, body, left, right)
  /\ kept = {l \in DOMAIN rows : rows[l].right # {}}
  /\ \E h \in kept : /\ table.headers = rows[h]
                     /\ kept \ {h} # {}
                     /\ table.rows = {rows[l] : l \in kept \ {h}}
  /\ table.consumed = {table.caption} \cup UNION {rows[l].ops : l \in kept}

\* Those steps are the ones it takes.
LEMMA TableFacts ==
  ASSUME NEW sheet \in Seq(Operation), DetectTable(sheet, PageTextOps(sheet)) # NoTable
  PROVE  \E body, left, right, rows, kept :
           TableOf(sheet, DetectTable(sheet, PageTextOps(sheet)), body, left, right, rows, kept)
  <1> DEFINE ops      == PageTextOps(sheet)
             table    == DetectTable(sheet, ops)
             captions == {i \in ops : IsCaption(sheet[i])}
             caption  == Min(captions)
             body     == Body(sheet, ops, caption)
             anchors  == Anchors(sheet, body)
             left     == Min(anchors)
             right    == Max(anchors)
             rows     == RowsOf(sheet, body, left, right)
             kept     == {l \in DOMAIN rows : rows[l].right # {}}
             h        == Min(kept)
  <1>1. /\ captions # {} /\ ~(Cardinality(anchors) < 2) /\ ~(right - left < MinColumnGap)
        /\ ~(Cardinality(kept) < 2)
        /\ table = [caption |-> caption, headers |-> rows[h],
                    rows |-> {rows[l] : l \in kept \ {h}},
                    consumed |-> Consumed(rows, kept, caption)]
    BY DEF DetectTable
  <1>3. DOMAIN sheet \subseteq Nat /\ ops \subseteq DOMAIN sheet
    BY LenProperties DEF PageTextOps
  <1>5. body \subseteq DOMAIN sheet
    BY <1>3 DEF Body
  <1>7. DOMAIN rows \subseteq body
    BY DEF RowsOf, Column, RunStarts
  <1>10. anchors \subseteq {sheet[i].x : i \in body}
    BY DEF Anchors, RunStarts
  <1>11. kept \subseteq DOMAIN rows
    OBVIOUS
  <1>12. captions \subseteq ops
    OBVIOUS
  <1> HIDE DEF h, kept, rows, left, right, anchors, body, caption, captions, table, ops
  <1>2. /\ table.caption = caption /\ table.headers = rows[h]
        /\ table.rows = {rows[l] : l \in kept \ {h}}
        /\ table.consumed = {caption} \cup UNION {rows[l].ops : l \in kept}
    BY <1>1 DEF Consumed
  <1>13. Cardinality({}) = 0
    BY FS_EmptySet
  <1>15. ~(Cardinality(anchors) < 2) /\ ~(Cardinality(kept) < 2)
    BY <1>1
  <1>16. anchors # {} /\ kept # {}
    <2>1. ASSUME anchors = {} PROVE Cardinality(anchors) = 0
      BY <1>13, <2>1, Zenon
    <2>2. ASSUME kept = {} PROVE Cardinality(kept) = 0
      BY <1>13, <2>2, Zenon
    <2> QED BY <1>15, <2>1, <2>2
  <1>4. caption \in ops
    <2>1. captions \subseteq Nat /\ captions # {}
      BY <1>1, <1>3, <1>12
    <2>2. Min(captions) \in captions
      BY <2>1, LeastIs
    <2> QED BY <1>12, <2>2 DEF caption
  <1>6. left # right
    <2>1. PICK b \in Nat : \A i \in DOMAIN sheet : sheet[i].x \in 0 .. b
      BY Bounded
    <2>2. anchors \subseteq 0 .. b
      BY <1>5, <1>10, <2>1
    <2>3. anchors # {}
      BY <1>16
    <2>4. left \in anchors
      <3>1. anchors \subseteq Nat
        BY <2>2
      <3> QED BY <2>3, <3>1, LeastIs DEF left
    <2>5. right \in anchors
      BY <2>2, <2>3, Greatest DEF right
    <2>6. left \in Int /\ right \in Int
      BY <2>2, <2>4, <2>5
    <2> QED BY <1>1, <2>6 DEF MinColumnGap
  <1>8. h \in kept /\ kept \ {h} # {}
    <2>1. kept # {}
      BY <1>16
    <2>2. kept \subseteq Nat
      BY <1>3, <1>5, <1>7, <1>11
    <2>3. h \in kept
      BY <2>1, <2>2, LeastIs DEF h
    <2>4. kept # {h}
      <3>1. Cardinality({h}) = 1
        BY FS_Singleton
      <3>2. ASSUME kept = {h} PROVE Cardinality(kept) = 1
        BY <3>1, <3>2, Zenon
      <3> QED BY <1>15, <3>2
    <2> QED BY <2>3, <2>4
  <1>14. /\ body = Body(sheet, ops, table.caption)
         /\ left = Min(Anchors(sheet, body)) /\ right = Max(Anchors(sheet, body))
         /\ rows = RowsOf(sheet, body, left, right)
         /\ kept = {l \in DOMAIN rows : rows[l].right # {}}
    BY <1>2 DEF body, left, right, anchors, rows, kept
  <1>9. TableOf(sheet, table, body, left, right, rows, kept)
    BY <1>2, <1>4, <1>6, <1>8, <1>14 DEF TableOf, ops
  <1> QED BY <1>9 DEF table, ops

\* The marks between the cells are drawn nowhere.
LEMMA PutFacts ==
  /\ <<Put("newline"), Put("row"), Put("|")>> \in Seq(ChunkWord)
  /\ From(<<Put("newline"), Put("row"), Put("|")>>) = {}
  /\ <<Put("|")>> \in Seq(ChunkWord) /\ From(<<Put("|")>>) = {}
  <1>1. Put("newline") \in ChunkWord /\ Put("row") \in ChunkWord /\ Put("|") \in ChunkWord
    <2>1. \A w \in Labels : Put(w) \in ChunkWord
      BY DEF Put, ChunkWord
    <2> QED BY <2>1 DEF Labels
  <1>2. Put("newline").op = 0 /\ Put("row").op = 0 /\ Put("|").op = 0
    BY DEF Put
  <1>3. From(<<Put("newline"), Put("row"), Put("|")>>) = {}
    BY <1>2 DEF From
  <1>4. From(<<Put("|")>>) = {}
    BY <1>2 DEF From
  <1> QED BY <1>1, <1>3, <1>4

\* A row's chunk comes from the caption, the headers and the row's cells.
LEMMA RowChunkFrom ==
  ASSUME NEW sheet \in Seq(Operation), NEW table, NEW row,
         table.caption \in Drawn(sheet),
         table.headers.left \subseteq Drawn(sheet), table.headers.right \subseteq Drawn(sheet),
         row.left \subseteq Drawn(sheet), row.right \subseteq Drawn(sheet)
  PROVE  /\ RowChunk(sheet, table, row) \in Seq(ChunkWord)
         /\ From(RowChunk(sheet, table, row)) =
              {table.caption} \cup table.headers.left \cup row.left
                              \cup table.headers.right \cup row.right
  <1>1. ASSUME NEW places, places \subseteq Drawn(sheet)
        PROVE  Text(sheet, places) \in Seq(ChunkWord) /\ From(Text(sheet, places)) = places
    <2>1. \A i \in places : i \in DOMAIN sheet /\ sheet[i].words # <<>>
      BY <1>1 DEF Drawn
    <2>2. places \subseteq DOMAIN sheet
      BY <2>1
    <2> QED BY <2>1, <2>2, TextFacts, TextFrom
  <1> DEFINE t1 == Text(sheet, {table.caption})
             p1 == <<Put("newline"), Put("row"), Put("|")>>
             t2 == Text(sheet, table.headers.left)
             t3 == Text(sheet, row.left)
             p2 == <<Put("|")>>
             t4 == Text(sheet, table.headers.right)
             t5 == Text(sheet, row.right)
  <1>2. /\ t1 \in Seq(ChunkWord) /\ From(t1) = {table.caption}
        /\ t2 \in Seq(ChunkWord) /\ From(t2) = table.headers.left
        /\ t3 \in Seq(ChunkWord) /\ From(t3) = row.left
        /\ t4 \in Seq(ChunkWord) /\ From(t4) = table.headers.right
        /\ t5 \in Seq(ChunkWord) /\ From(t5) = row.right
    <2>1. {table.caption} \subseteq Drawn(sheet)
      OBVIOUS
    <2>2. t1 \in Seq(ChunkWord) /\ From(t1) = {table.caption}
      BY <1>1, <2>1
    <2> QED BY <1>1, <2>2
  <1>3. p1 \in Seq(ChunkWord) /\ From(p1) = {} /\ p2 \in Seq(ChunkWord) /\ From(p2) = {}
    BY PutFacts
  <1>4. RowChunk(sheet, table, row) = t1 \o p1 \o t2 \o t3 \o p2 \o t4 \o t5
    BY DEF RowChunk
  <1> HIDE DEF t1, t2, t3, t4, t5, p1, p2
  <1>5. t1 \o p1 \in Seq(ChunkWord) /\ From(t1 \o p1) = {table.caption}
    BY <1>2, <1>3, FromConcat
  <1>6. /\ t1 \o p1 \o t2 \in Seq(ChunkWord)
        /\ From(t1 \o p1 \o t2) = {table.caption} \cup table.headers.left
    BY <1>2, <1>5, FromConcat
  <1>7. /\ t1 \o p1 \o t2 \o t3 \in Seq(ChunkWord)
        /\ From(t1 \o p1 \o t2 \o t3) = {table.caption} \cup table.headers.left \cup row.left
    BY <1>2, <1>6, FromConcat
  <1>8. /\ t1 \o p1 \o t2 \o t3 \o p2 \in Seq(ChunkWord)
        /\ From(t1 \o p1 \o t2 \o t3 \o p2) = {table.caption} \cup table.headers.left \cup row.left
    BY <1>3, <1>7, FromConcat
  <1>9. /\ t1 \o p1 \o t2 \o t3 \o p2 \o t4 \in Seq(ChunkWord)
        /\ From(t1 \o p1 \o t2 \o t3 \o p2 \o t4) =
             {table.caption} \cup table.headers.left \cup row.left \cup table.headers.right
    <2> DEFINE u == t1 \o p1 \o t2 \o t3 \o p2
    <2>1. /\ u \in Seq(ChunkWord)
          /\ From(u) = {table.caption} \cup table.headers.left \cup row.left
      BY <1>8
    <2> HIDE DEF u
    <2>2. u \o t4 \in Seq(ChunkWord) /\ From(u \o t4) = From(u) \cup From(t4)
      BY <1>2, <2>1, FromConcat
    <2> QED BY <1>2, <2>1, <2>2 DEF u
  <1>10. /\ t1 \o p1 \o t2 \o t3 \o p2 \o t4 \o t5 \in Seq(ChunkWord)
         /\ From(t1 \o p1 \o t2 \o t3 \o p2 \o t4 \o t5) =
              {table.caption} \cup table.headers.left \cup row.left
                              \cup table.headers.right \cup row.right
    <2> DEFINE u == t1 \o p1 \o t2 \o t3 \o p2 \o t4
    <2>1. /\ u \in Seq(ChunkWord)
          /\ From(u) = {table.caption} \cup table.headers.left \cup row.left
                                      \cup table.headers.right
      BY <1>9
    <2> HIDE DEF u
    <2>2. u \o t5 \in Seq(ChunkWord) /\ From(u \o t5) = From(u) \cup From(t5)
      BY <1>2, <2>1, FromConcat
    <2> QED BY <1>2, <2>1, <2>2 DEF u
  <1> QED BY <1>4, <1>10

\* A page with a table and one without lose nothing.
LEMMA PageIsKept ==
  ASSUME NEW sheet \in Seq(Operation)
  PROVE  PageKept(sheet)
  <1> DEFINE table   == DetectTable(sheet, PageTextOps(sheet))
             inRows  == UNION {From(chunk) : chunk \in RowChunks(sheet)}
             inProse == From(Prose(sheet))
  <1>1. Drawn(sheet) = PageTextOps(sheet)
    BY DEF Drawn, PageTextOps
  <1>2. \A places : places \subseteq Drawn(sheet) => From(Text(sheet, places)) = places
    <2> TAKE places
    <2> HAVE places \subseteq Drawn(sheet)
    <2>1. \A i \in places : i \in DOMAIN sheet /\ sheet[i].words # <<>>
      BY DEF Drawn
    <2> QED BY <2>1, TextFrom
  <1>3. CASE table = NoTable
    <2>1. inRows = {}
      BY <1>3 DEF RowChunks
    <2>2. Prose(sheet) = Text(sheet, PageTextOps(sheet))
      BY <1>3 DEF Prose
    <2>3. inProse = Drawn(sheet)
      BY <1>1, <1>2, <2>2
    <2>4. Interrupted(sheet) = {}
      BY <1>3 DEF Interrupted
    <2> QED BY <2>1, <2>3, <2>4 DEF PageKept
  <1>4. CASE table # NoTable
    <2>1. PICK body, left, right, rows, kept : TableOf(sheet, table, body, left, right, rows, kept)
      BY <1>4, TableFacts
    <2> HIDE DEF table
    <2>2. PICK h \in kept : /\ table.headers = rows[h]
                            /\ kept \ {h} # {}
                            /\ table.rows = {rows[l] : l \in kept \ {h}}
      BY <2>1 DEF TableOf
    <2>3. /\ table.caption \in Drawn(sheet)
          /\ body = Body(sheet, PageTextOps(sheet), table.caption)
          /\ left = Min(Anchors(sheet, body)) /\ right = Max(Anchors(sheet, body)) /\ left # right
          /\ rows = RowsOf(sheet, body, left, right)
          /\ kept \subseteq DOMAIN rows
          /\ table.consumed = {table.caption} \cup UNION {rows[l].ops : l \in kept}
      BY <1>1, <2>1 DEF TableOf
    <2>4. body \subseteq Drawn(sheet) /\ table.caption \notin body
      <3>1. body \subseteq Drawn(sheet)
        BY <1>1, <2>3 DEF Body
      <3>2. sheet[table.caption].y \in Nat
        <4>1. table.caption \in DOMAIN sheet
          BY <2>3 DEF Drawn
        <4>2. sheet[table.caption] \in Operation
          BY <4>1
        <4> QED BY <4>2 DEF Operation
      <3>3. table.caption \notin body
        <4>1. \A i \in body : sheet[i].y > sheet[table.caption].y
          BY <2>3 DEF Body
        <4>2. ~(sheet[table.caption].y > sheet[table.caption].y)
          BY <3>2
        <4> QED BY <4>1, <4>2
      <3> QED BY <3>1, <3>3
    <2>5. body \subseteq 1 .. Len(sheet) /\ Len(sheet) \in Nat
      BY <2>4 DEF Drawn
    <2>6. ASSUME NEW l \in kept
          PROVE  /\ rows[l].left \cup rows[l].right \subseteq rows[l].ops
                 /\ rows[l].ops \subseteq body
                 /\ \A i \in rows[l].left : sheet[i].x = left
                 /\ \A i \in rows[l].right :
                      sheet[i].x = right /\ ~BrokenOff(sheet, body, left, right, i)
                 /\ \A i \in rows[l].ops \ (rows[l].left \cup rows[l].right) :
                      /\ sheet[i].x = right /\ BrokenOff(sheet, body, left, right, i)
                      /\ \A k \in DOMAIN rows : i \notin rows[k].left \cup rows[k].right
      <3>1. l \in DOMAIN rows /\ rows = RowsOf(sheet, body, left, right) /\ left # right
        BY <2>3
      <3>2. PICK n \in Nat : body \subseteq 1 .. n
        BY <2>5
      <3>3. RowWhole(sheet, body, left, right, rows, l)
        BY <3>1, <3>2, RowFacts
      <3> QED BY <3>3 DEF RowWhole
    <2> DEFINE cells == UNION {rows[l].left \cup rows[l].right : l \in kept}
    <2>7. inRows = {table.caption} \cup cells
      <3>1. RowChunks(sheet) = {RowChunk(sheet, table, row) : row \in table.rows}
        BY <1>4 DEF RowChunks, table
      <3>2. ASSUME NEW l \in kept \ {h}
            PROVE  From(RowChunk(sheet, table, rows[l])) =
                     {table.caption} \cup rows[h].left \cup rows[l].left
                                     \cup rows[h].right \cup rows[l].right
        <4>1. /\ rows[l].left \subseteq Drawn(sheet) /\ rows[l].right \subseteq Drawn(sheet)
              /\ rows[h].left \subseteq Drawn(sheet) /\ rows[h].right \subseteq Drawn(sheet)
          BY <2>4, <2>6
        <4> QED BY <2>2, <2>3, <4>1, RowChunkFrom
      <3>3. inRows = UNION {From(RowChunk(sheet, table, rows[l])) : l \in kept \ {h}}
        BY <2>2, <3>1
      <3> HIDE DEF inRows
      <3>4. inRows = UNION {{table.caption} \cup rows[h].left \cup rows[l].left
                                     \cup rows[h].right \cup rows[l].right : l \in kept \ {h}}
        BY <3>2, <3>3
      <3> QED BY <2>2, <3>4
    <2>8. inProse = Drawn(sheet) \ table.consumed
      <3>1. Prose(sheet) = Text(sheet, Drawn(sheet) \ table.consumed)
        BY <1>1, <1>4 DEF Prose, table
      <3> QED BY <1>2, <3>1
    <2>9. table.consumed \subseteq Drawn(sheet)
      BY <2>3, <2>4, <2>6
    <2>10. cells \subseteq table.consumed
      BY <2>3, <2>6
    <2>11. Interrupted(sheet) = {i \in table.consumed \ {table.caption} :
                                   sheet[i].x = right /\ BrokenOff(sheet, body, left, right, i)}
      <3> DEFINE among(a, b) == {sheet[m].x : m \in {m \in body : a < m /\ m < b}}
      <3>1. Interrupted(sheet) =
              {i \in table.consumed \ {table.caption} :
                 /\ sheet[i].x = right
                 /\ \E j \in body : /\ i < j /\ sheet[j].x = right
                                    /\ among(i, j) \ {right} # {}
                                    /\ left \notin among(i, j)}
        BY <1>4, <2>3 DEF Interrupted, table
      <3>2. ASSUME NEW i, NEW j
            PROVE  /\ among(i, j) \ {right} # {} <=>
                        \E m \in body : i < m /\ m < j /\ sheet[m].x # right
                   /\ left \notin among(i, j) <=>
                        \A m \in body : i < m /\ m < j => sheet[m].x # left
        OBVIOUS
      <3> HIDE DEF among
      <3>3. \A i : (\E j \in body : /\ i < j /\ sheet[j].x = right
                                    /\ among(i, j) \ {right} # {}
                                    /\ left \notin among(i, j))
                   <=> BrokenOff(sheet, body, left, right, i)
        BY <3>2 DEF BrokenOff
      <3> QED BY <3>1, <3>3
    <2>12. Interrupted(sheet) = table.consumed \ ({table.caption} \cup cells)
      <3>1. ASSUME NEW i \in table.consumed \ {table.caption}
            PROVE  sheet[i].x = right /\ BrokenOff(sheet, body, left, right, i) <=> i \notin cells
        <4>1. PICK l \in kept : i \in rows[l].ops
          BY <2>3
        <4>2. CASE i \in rows[l].left \cup rows[l].right
          <5>1. i \in cells
            BY <4>2
          <5>2. ~(sheet[i].x = right /\ BrokenOff(sheet, body, left, right, i))
            BY <2>3, <2>6, <4>2
          <5> QED BY <5>1, <5>2
        <4>3. CASE i \notin rows[l].left \cup rows[l].right
          <5>1. /\ sheet[i].x = right /\ BrokenOff(sheet, body, left, right, i)
                /\ \A k \in DOMAIN rows : i \notin rows[k].left \cup rows[k].right
            BY <2>6, <4>1, <4>3
          <5> QED BY <2>3, <5>1
        <4> QED BY <4>2, <4>3
      <3> HIDE DEF cells
      <3> QED BY <2>11, <3>1
    <2> HIDE DEF inRows, inProse, cells
    <2>13. inRows \cap inProse = {} /\ inRows \cup inProse = Drawn(sheet) \ Interrupted(sheet)
      BY <2>3, <2>7, <2>8, <2>9, <2>10, <2>12
    <2> QED BY <2>13 DEF PageKept, inRows, inProse
  <1> QED BY <1>3, <1>4

-----------------------------------------------------------------------------
(* Cells are apart *)

\* No bar between these places.
Unbarred(t, i, k) == \A m \in DOMAIN t : i <= m /\ m <= k => t[m].word # "|"

\* Words of one segment were drawn in one column.
Segmented(sheet, t) ==
  \A i \in DOMAIN t : \A k \in DOMAIN t :
    /\ i <= k /\ Unbarred(t, i, k)
    /\ t[i].word \notin Labels /\ t[k].word \notin Labels
    => sheet[t[i].op].x = sheet[t[k].op].x

\* And those of the last segment in this one.
EndsIn(sheet, t, x) ==
  \A i \in DOMAIN t : t[i].word \notin Labels /\ Unbarred(t, i, Len(t)) => sheet[t[i].op].x = x

\* All its words were drawn in this column.
Uniform(sheet, t, x) == \A i \in DOMAIN t : t[i].word \notin Labels => sheet[t[i].op].x = x

\* Where each word of a concatenation stands.
LEMMA Joint ==
  ASSUME NEW s \in Seq(ChunkWord), NEW u \in Seq(ChunkWord)
  PROVE  /\ s \o u \in Seq(ChunkWord) /\ Len(s \o u) = Len(s) + Len(u)
         /\ Len(s) \in Nat /\ Len(u) \in Nat
         /\ DOMAIN s = 1 .. Len(s) /\ DOMAIN u = 1 .. Len(u)
         /\ DOMAIN (s \o u) = 1 .. Len(s) + Len(u)
         /\ \A i \in DOMAIN s : i \in DOMAIN (s \o u) /\ (s \o u)[i] = s[i]
         /\ \A i \in DOMAIN u : Len(s) + i \in DOMAIN (s \o u) /\ (s \o u)[Len(s) + i] = u[i]
         /\ \A i \in DOMAIN (s \o u) : \/ i \in DOMAIN s
                                       \/ i > Len(s) /\ i - Len(s) \in DOMAIN u
                                          /\ (s \o u)[i] = u[i - Len(s)]
  <1> DEFINE w == s \o u
  <1>1. /\ w \in Seq(ChunkWord) /\ Len(w) = Len(s) + Len(u)
        /\ \A i \in 1 .. Len(s) + Len(u) : w[i] = IF i <= Len(s) THEN s[i] ELSE u[i - Len(s)]
    BY ConcatProperties
  <1>2. /\ DOMAIN w = 1 .. Len(w) /\ DOMAIN s = 1 .. Len(s) /\ DOMAIN u = 1 .. Len(u)
        /\ Len(s) \in Nat /\ Len(u) \in Nat
    BY <1>1, LenProperties
  <1> HIDE DEF w
  <1>3. \A i \in DOMAIN s : i \in DOMAIN w /\ w[i] = s[i]
    BY <1>1, <1>2
  <1>4. \A i \in DOMAIN u : Len(s) + i \in DOMAIN w /\ w[Len(s) + i] = u[i]
    <2> TAKE i \in DOMAIN u
    <2>1. /\ Len(s) + i \in 1 .. Len(s) + Len(u) /\ ~(Len(s) + i <= Len(s))
          /\ (Len(s) + i) - Len(s) = i
      BY <1>2
    <2> QED BY <1>1, <1>2, <2>1
  <1>5. \A i \in DOMAIN w : \/ i \in DOMAIN s
                            \/ i > Len(s) /\ i - Len(s) \in DOMAIN u /\ w[i] = u[i - Len(s)]
    BY <1>1, <1>2
  <1> QED BY <1>1, <1>2, <1>3, <1>4, <1>5 DEF w

\* Words of the column the last segment is of may follow it.
LEMMA Extend ==
  ASSUME NEW sheet, NEW x, NEW s \in Seq(ChunkWord), NEW u \in Seq(ChunkWord),
         Segmented(sheet, s), EndsIn(sheet, s, x), Uniform(sheet, u, x)
  PROVE  /\ s \o u \in Seq(ChunkWord)
         /\ Segmented(sheet, s \o u) /\ EndsIn(sheet, s \o u, x)
  <1> DEFINE w == s \o u
  <1>1. /\ w \in Seq(ChunkWord) /\ Len(w) = Len(s) + Len(u)
        /\ Len(s) \in Nat /\ Len(u) \in Nat
        /\ DOMAIN s = 1 .. Len(s) /\ DOMAIN w = 1 .. Len(s) + Len(u)
        /\ \A i \in DOMAIN s : i \in DOMAIN w /\ w[i] = s[i]
        /\ \A i \in DOMAIN w : \/ i \in DOMAIN s
                               \/ i > Len(s) /\ i - Len(s) \in DOMAIN u /\ w[i] = u[i - Len(s)]
    BY Joint
  <1> HIDE DEF w
  <1>2. ASSUME NEW i \in DOMAIN s, NEW k, k >= Len(s), Unbarred(w, i, k), k \in Nat
        PROVE  Unbarred(s, i, Len(s))
    BY <1>1, <1>2 DEF Unbarred
  <1>3. ASSUME NEW i \in DOMAIN s, NEW k \in DOMAIN s, Unbarred(w, i, k)
        PROVE  Unbarred(s, i, k)
    BY <1>1, <1>3 DEF Unbarred
  <1>4. ASSUME NEW i \in DOMAIN w, i \notin DOMAIN s, w[i].word \notin Labels
        PROVE  sheet[w[i].op].x = x
    BY <1>1, <1>4 DEF Uniform
  <1>5. ASSUME NEW i \in DOMAIN s, NEW k, k >= Len(s), k \in Nat, Unbarred(w, i, k), w[i].word \notin Labels
        PROVE  sheet[w[i].op].x = x
    BY <1>1, <1>2, <1>5 DEF EndsIn
  <1>6. Segmented(sheet, w)
    <2> SUFFICES ASSUME NEW i \in DOMAIN w, NEW k \in DOMAIN w, i <= k, Unbarred(w, i, k),
                        w[i].word \notin Labels, w[k].word \notin Labels
                 PROVE  sheet[w[i].op].x = sheet[w[k].op].x
      BY DEF Segmented
    <2>1. CASE k \in DOMAIN s
      <3>1. i \in DOMAIN s
        BY <1>1, <2>1
      <3>2. Unbarred(s, i, k) /\ w[i] = s[i] /\ w[k] = s[k]
        BY <1>1, <1>3, <2>1, <3>1
      <3> QED BY <2>1, <3>1, <3>2 DEF Segmented
    <2>2. CASE k \notin DOMAIN s
      <3>1. sheet[w[k].op].x = x
        BY <1>4, <2>2
      <3>2. k >= Len(s) /\ k \in Nat
        BY <1>1, <2>2
      <3>3. sheet[w[i].op].x = x
        BY <1>4, <1>5, <3>2
      <3> QED BY <3>1, <3>3
    <2> QED BY <2>1, <2>2
  <1>7. EndsIn(sheet, w, x)
    <2> SUFFICES ASSUME NEW i \in DOMAIN w, w[i].word \notin Labels, Unbarred(w, i, Len(w))
                 PROVE  sheet[w[i].op].x = x
      BY DEF EndsIn
    <2>1. Len(w) >= Len(s) /\ Len(w) \in Nat
      BY <1>1
    <2> QED BY <1>4, <1>5, <2>1
  <1> QED BY <1>1, <1>6, <1>7 DEF w

\* After a bar, words of any column may follow.
LEMMA Bar ==
  ASSUME NEW sheet, NEW x, NEW s \in Seq(ChunkWord), NEW u \in Seq(ChunkWord), Segmented(sheet, s),
         \A i \in DOMAIN u : u[i].word \in Labels,
         Len(u) # 0, u[Len(u)].word = "|"
  PROVE  /\ s \o u \in Seq(ChunkWord)
         /\ Segmented(sheet, s \o u) /\ EndsIn(sheet, s \o u, x)
  <1> DEFINE w == s \o u
  <1>1. /\ w \in Seq(ChunkWord) /\ Len(w) = Len(s) + Len(u)
        /\ Len(s) \in Nat /\ Len(u) \in Nat
        /\ DOMAIN s = 1 .. Len(s) /\ DOMAIN u = 1 .. Len(u) /\ DOMAIN w = 1 .. Len(s) + Len(u)
        /\ \A i \in DOMAIN s : i \in DOMAIN w /\ w[i] = s[i]
        /\ \A i \in DOMAIN u : Len(s) + i \in DOMAIN w /\ w[Len(s) + i] = u[i]
        /\ \A i \in DOMAIN w : \/ i \in DOMAIN s
                               \/ i > Len(s) /\ i - Len(s) \in DOMAIN u /\ w[i] = u[i - Len(s)]
    BY Joint
  <1> HIDE DEF w
  <1>2. Segmented(sheet, w)
    <2> SUFFICES ASSUME NEW i \in DOMAIN w, NEW k \in DOMAIN w, i <= k, Unbarred(w, i, k),
                        w[i].word \notin Labels, w[k].word \notin Labels
                 PROVE  sheet[w[i].op].x = sheet[w[k].op].x
      BY DEF Segmented
    <2>1. k \in DOMAIN s
      BY <1>1
    <2>2. i \in DOMAIN s
      BY <1>1, <2>1
    <2>3. Unbarred(s, i, k) /\ w[i] = s[i] /\ w[k] = s[k]
      BY <1>1, <2>1, <2>2 DEF Unbarred
    <2> QED BY <2>1, <2>2, <2>3 DEF Segmented
  <1>3. Len(w) \in DOMAIN w /\ w[Len(w)].word = "|"
    <2>1. Len(u) \in DOMAIN u
      BY <1>1
    <2> QED BY <1>1, <2>1
  <1>4. EndsIn(sheet, w, x)
    <2>1. \A i \in DOMAIN w : i <= Len(w) /\ Len(w) <= Len(w)
      BY <1>1
    <2> QED BY <1>3, <2>1 DEF EndsIn, Unbarred
  <1> QED BY <1>1, <1>2, <1>4 DEF w

\* Normalizing removes no bar.
LEMMA NormalizedSegments ==
  ASSUME NEW sheet, NEW t \in Seq(ChunkWord), Segmented(sheet, t)
  PROVE  /\ Normalized(t) \in Seq(ChunkWord) /\ Segmented(sheet, Normalized(t))
         /\ DOMAIN Normalized(t) = 1 .. Len(Normalized(t))
  <1> DEFINE piece(i) == IF t[i].word = "newline" THEN <<>> ELSE <<t[i]>>
             seqs == [i \in DOMAIN t |-> piece(i)]
             r == FlattenSeq(seqs)
  <1>1. DOMAIN t = 1 .. Len(t) /\ Len(t) \in Nat /\ \A i \in DOMAIN t : t[i] \in ChunkWord
    BY LenProperties, ElementOfSeq
  <1>2. \A i \in DOMAIN t : /\ piece(i) \in Seq(ChunkWord)
                            /\ \A j \in DOMAIN piece(i) : piece(i)[j] = t[i]
                            /\ t[i].word # "newline" => 1 \in DOMAIN piece(i)
    <2> TAKE i \in DOMAIN t
    <2>1. CASE t[i].word = "newline"
      <3>1. piece(i) = <<>>
        BY <2>1
      <3> QED BY <2>1, <3>1, EmptySeq
    <2>2. CASE t[i].word # "newline"
      <3>1. piece(i) = <<t[i]>>
        BY <2>2
      <3>2. DOMAIN <<t[i]>> = {1} /\ <<t[i]>>[1] = t[i] /\ <<t[i]>> \in Seq(ChunkWord)
        BY <1>1
      <3> HIDE DEF piece
      <3> QED BY <3>1, <3>2
    <2> QED BY <2>1, <2>2
  <1> HIDE DEF piece
  <1>3. seqs \in Seq(Seq(ChunkWord)) /\ Len(seqs) = Len(t)
    <2>1. seqs \in [1 .. Len(t) -> Seq(ChunkWord)]
      BY <1>1, <1>2
    <2> QED BY <1>1, <2>1, IsASeq, LenProperties
  <1>4. \A i \in DOMAIN t : seqs[i] = piece(i)
    OBVIOUS
  <1> HIDE DEF seqs
  <1>5. PICK g : Origin(ChunkWord, seqs, Len(t), r, g)
    BY <1>3, FlattenOrigin
  <1> HIDE DEF r
  <1>6. r \in Seq(ChunkWord) /\ DOMAIN r = 1 .. Len(r) /\ Len(r) \in Nat
    BY <1>5, LenProperties DEF Origin
  <1>7. /\ \A k \in DOMAIN r : g[k] \in DOMAIN t /\ r[k] = t[g[k]]
        /\ \A i \in DOMAIN r : \A k \in DOMAIN r : i <= k => g[i] <= g[k]
        /\ \A m \in DOMAIN t : t[m].word # "newline" => \E k \in DOMAIN r : g[k] = m
    <2>1. \A k \in DOMAIN r : g[k] \in DOMAIN t
      BY <1>1, <1>5, <1>6 DEF Origin
    <2>2. \A k \in DOMAIN r : \E j \in DOMAIN seqs[g[k]] : r[k] = seqs[g[k]][j]
      BY <1>5, <1>6 DEF Origin
    <2>3. \A i \in DOMAIN r : \A k \in DOMAIN r : i <= k => g[i] <= g[k]
      BY <1>5, <1>6 DEF Origin
    <2>4. \A m \in DOMAIN t : \A j \in DOMAIN seqs[m] : \E k \in DOMAIN r : g[k] = m
      BY <1>1, <1>5, <1>6 DEF Origin
    <2> QED BY <1>2, <1>4, <2>1, <2>2, <2>3, <2>4
  <1>8. Segmented(sheet, r)
    <2> SUFFICES ASSUME NEW i \in DOMAIN r, NEW k \in DOMAIN r, i <= k, Unbarred(r, i, k),
                        r[i].word \notin Labels, r[k].word \notin Labels
                 PROVE  sheet[r[i].op].x = sheet[r[k].op].x
      BY DEF Segmented
    <2>1. ASSUME NEW m \in DOMAIN t, g[i] <= m, m <= g[k], t[m].word = "|" PROVE FALSE
      <3>1. PICK p \in DOMAIN r : g[p] = m
        BY <1>7, <2>1
      <3>2. r[p].word = "|"
        BY <1>7, <2>1, <3>1
      <3>3. g[i] # m /\ g[k] # m
        BY <1>7, <2>1 DEF Labels
      <3>4. g[i] \in Nat /\ g[k] \in Nat /\ m \in Nat
        BY <1>1, <1>7
      <3>5. ~(p <= i) /\ ~(k <= p)
        BY <1>7, <2>1, <3>1, <3>3, <3>4
      <3>6. i <= p /\ p <= k
        BY <1>6, <3>5
      <3> QED BY <3>2, <3>6 DEF Unbarred
    <2>2. Unbarred(t, g[i], g[k])
      BY <2>1 DEF Unbarred
    <2>3. g[i] \in DOMAIN t /\ g[k] \in DOMAIN t /\ g[i] <= g[k] /\ r[i] = t[g[i]] /\ r[k] = t[g[k]]
      BY <1>7
    <2> QED BY <2>2, <2>3 DEF Segmented
  <1>9. Normalized(t) = r
    BY DEF Normalized, r, seqs, piece
  <1> QED BY <1>6, <1>8, <1>9

\* Places of one column give a text of one column.
LEMMA TextUniform ==
  ASSUME NEW sheet \in Seq(Operation), NEW places, NEW x,
         places \subseteq Drawn(sheet), \A i \in places : sheet[i].x = x
  PROVE  Text(sheet, places) \in Seq(ChunkWord) /\ Uniform(sheet, Text(sheet, places), x)
  <1>1. places \subseteq DOMAIN sheet
    BY DEF Drawn
  <1>2. /\ Text(sheet, places) \in Seq(ChunkWord)
        /\ \A k \in DOMAIN Text(sheet, places) : Text(sheet, places)[k].op \in places
    BY <1>1, TextFacts
  <1> QED BY <1>2 DEF Uniform

\* Which is one segment.
LEMMA UniformSegments ==
  ASSUME NEW sheet, NEW x, NEW t, Uniform(sheet, t, x)
  PROVE  Segmented(sheet, t) /\ EndsIn(sheet, t, x)
  BY DEF Uniform, Segmented, EndsIn

\* The caption and the cells of a row's chunk are its segments.
LEMMA RowChunkSegments ==
  ASSUME NEW sheet \in Seq(Operation), NEW table, NEW row, NEW left, NEW right,
         table.caption \in Drawn(sheet),
         table.headers.left \subseteq Drawn(sheet), table.headers.right \subseteq Drawn(sheet),
         row.left \subseteq Drawn(sheet), row.right \subseteq Drawn(sheet),
         \A i \in table.headers.left \cup row.left : sheet[i].x = left,
         \A i \in table.headers.right \cup row.right : sheet[i].x = right
  PROVE  RowChunk(sheet, table, row) \in Seq(ChunkWord) /\ Segmented(sheet, RowChunk(sheet, table, row))
  <1> DEFINE x  == sheet[table.caption].x
             t1 == Text(sheet, {table.caption})
             p1 == <<Put("newline"), Put("row"), Put("|")>>
             t2 == Text(sheet, table.headers.left)
             t3 == Text(sheet, row.left)
             p2 == <<Put("|")>>
             t4 == Text(sheet, table.headers.right)
             t5 == Text(sheet, row.right)
  <1>1. t1 \in Seq(ChunkWord) /\ Uniform(sheet, t1, x)
    <2>1. {table.caption} \subseteq Drawn(sheet) /\ \A i \in {table.caption} : sheet[i].x = x
      OBVIOUS
    <2> HIDE DEF x
    <2> QED BY <2>1, TextUniform
  <1>2. /\ t2 \in Seq(ChunkWord) /\ Uniform(sheet, t2, left)
        /\ t3 \in Seq(ChunkWord) /\ Uniform(sheet, t3, left)
    BY TextUniform
  <1>3. /\ t4 \in Seq(ChunkWord) /\ Uniform(sheet, t4, right)
        /\ t5 \in Seq(ChunkWord) /\ Uniform(sheet, t5, right)
    BY TextUniform
  <1>4. /\ p1 \in Seq(ChunkWord) /\ Len(p1) # 0 /\ p1[Len(p1)].word = "|"
        /\ \A i \in DOMAIN p1 : p1[i].word \in Labels
    <2>1. p1 \in Seq(ChunkWord)
      BY PutFacts
    <2>2. Len(p1) = 3 /\ DOMAIN p1 = {1, 2, 3}
      OBVIOUS
    <2>3. p1[1].word = "newline" /\ p1[2].word = "row" /\ p1[3].word = "|"
      BY DEF Put
    <2> HIDE DEF p1
    <2> QED BY <2>1, <2>2, <2>3 DEF Labels
  <1>5. /\ p2 \in Seq(ChunkWord) /\ Len(p2) # 0 /\ p2[Len(p2)].word = "|"
        /\ \A i \in DOMAIN p2 : p2[i].word \in Labels
    <2>1. p2 \in Seq(ChunkWord)
      BY PutFacts
    <2>2. Len(p2) = 1 /\ DOMAIN p2 = {1}
      OBVIOUS
    <2>3. p2[1].word = "|"
      BY DEF Put
    <2> HIDE DEF p2
    <2> QED BY <2>1, <2>2, <2>3 DEF Labels
  <1>6. RowChunk(sheet, table, row) = t1 \o p1 \o t2 \o t3 \o p2 \o t4 \o t5
    BY DEF RowChunk
  <1> HIDE DEF t1, t2, t3, t4, t5, p1, p2, x
  <1>7. Segmented(sheet, t1)
    BY <1>1, UniformSegments
  <1> DEFINE u1 == t1 \o p1
             u2 == u1 \o t2
             u3 == u2 \o t3
             u4 == u3 \o p2
             u5 == u4 \o t4
             u6 == u5 \o t5
  <1>8. u1 \in Seq(ChunkWord) /\ Segmented(sheet, u1) /\ EndsIn(sheet, u1, left)
    BY <1>1, <1>4, <1>7, Bar
  <1> HIDE DEF u1
  <1>9. u2 \in Seq(ChunkWord) /\ Segmented(sheet, u2) /\ EndsIn(sheet, u2, left)
    BY <1>2, <1>8, Extend
  <1> HIDE DEF u2
  <1>10. u3 \in Seq(ChunkWord) /\ Segmented(sheet, u3)
    BY <1>2, <1>9, Extend
  <1> HIDE DEF u3
  <1>11. u4 \in Seq(ChunkWord) /\ Segmented(sheet, u4) /\ EndsIn(sheet, u4, right)
    BY <1>5, <1>10, Bar
  <1> HIDE DEF u4
  <1>12. u5 \in Seq(ChunkWord) /\ Segmented(sheet, u5) /\ EndsIn(sheet, u5, right)
    BY <1>3, <1>11, Extend
  <1> HIDE DEF u5
  <1>13. u6 \in Seq(ChunkWord) /\ Segmented(sheet, u6)
    BY <1>3, <1>12, Extend
  <1> QED BY <1>6, <1>13 DEF u1, u2, u3, u4, u5

\* A pattern reads no bar, so what it finds lies in one segment.
LEMMA CellsAreApart ==
  ASSUME page \in Seq(Operation)
  PROVE  CellsApart
  <1> SUFFICES ASSUME NEW chunk \in RowChunks(page), NEW f \in Findings(chunk, "identity")
               PROVE  page[Normalized(chunk)[f[1]].op].x = page[Normalized(chunk)[f[3]].op].x
    BY DEF CellsApart
  <1> DEFINE table == DetectTable(page, PageTextOps(page))
             text  == Normalized(chunk)
  <1>1. table # NoTable
    BY DEF RowChunks
  <1>2. PICK row \in table.rows : chunk = RowChunk(page, table, row)
    BY <1>1 DEF RowChunks
  <1>3. PICK body, left, right, rows, kept : TableOf(page, table, body, left, right, rows, kept)
    BY <1>1, TableFacts
  <1> HIDE DEF table
  <1>4. PICK h \in kept : table.headers = rows[h] /\ table.rows = {rows[l] : l \in kept \ {h}}
    BY <1>3 DEF TableOf
  <1>5. PICK l \in kept : row = rows[l]
    BY <1>2, <1>4
  <1>6. Drawn(page) = PageTextOps(page)
    BY DEF Drawn, PageTextOps
  <1>7. /\ table.caption \in Drawn(page)
        /\ body = Body(page, PageTextOps(page), table.caption)
        /\ left # right /\ rows = RowsOf(page, body, left, right) /\ kept \subseteq DOMAIN rows
    BY <1>3, <1>6 DEF TableOf
  <1>8. body \subseteq Drawn(page)
    BY <1>6, <1>7 DEF Body
  <1>9. PICK n \in Nat : body \subseteq 1 .. n
    <2>1. Drawn(page) \subseteq 1 .. Len(page) /\ Len(page) \in Nat
      BY LenProperties DEF Drawn
    <2> QED BY <1>8, <2>1
  <1>10. RowWhole(page, body, left, right, rows, h) /\ RowWhole(page, body, left, right, rows, l)
    BY <1>7, <1>9, RowFacts
  <1>11. /\ rows[h].left \subseteq Drawn(page) /\ rows[h].right \subseteq Drawn(page)
         /\ rows[l].left \subseteq Drawn(page) /\ rows[l].right \subseteq Drawn(page)
         /\ \A i \in rows[h].left \cup rows[l].left : page[i].x = left
         /\ \A i \in rows[h].right \cup rows[l].right : page[i].x = right
    BY <1>8, <1>10 DEF RowWhole
  <1>12. chunk \in Seq(ChunkWord) /\ Segmented(page, chunk)
    <2>1. \A i \in table.headers.left \cup row.left : page[i].x = left
      BY <1>4, <1>5, <1>11
    <2>2. \A i \in table.headers.right \cup row.right : page[i].x = right
      BY <1>4, <1>5, <1>11
    <2>3. /\ table.headers.left \subseteq Drawn(page) /\ table.headers.right \subseteq Drawn(page)
          /\ row.left \subseteq Drawn(page) /\ row.right \subseteq Drawn(page)
      BY <1>4, <1>5, <1>11
    <2>4. table.caption \in Drawn(page)
      BY <1>7
    <2>5. RowChunk(page, table, row) \in Seq(ChunkWord) /\ Segmented(page, RowChunk(page, table, row))
      BY <2>1, <2>2, <2>3, <2>4, RowChunkSegments
    <2> QED BY <1>2, <2>5
  <1>13. text \in Seq(ChunkWord) /\ Segmented(page, text) /\ DOMAIN text = 1 .. Len(text)
    BY <1>12, NormalizedSegments
  <1>14. f \in Pattern(text, "subject", "verb", "predicate", "verb", "object")
    BY DEF Findings
  <1> HIDE DEF text
  <1>15. /\ f[1] \in DOMAIN text /\ text[f[1]].word = "subject"
         /\ f[2] \in DOMAIN text
         /\ f[3] \in DOMAIN text /\ text[f[3]].word = "predicate"
         /\ f[1] < f[2] /\ f[2] < f[3]
         /\ \A m \in f[1] .. f[3] - 1 : ~Ends(text, m)
    BY <1>14 DEF Pattern
  <1>16. f[1] \in Nat /\ f[2] \in Nat /\ f[3] \in Nat
    BY <1>13, <1>15
  <1>17. Unbarred(text, f[1], f[3])
    <2> SUFFICES ASSUME NEW m \in DOMAIN text, f[1] <= m, m <= f[3], text[m].word = "|"
                 PROVE  FALSE
      BY DEF Unbarred
    <2>1. m # f[3] /\ m \in Nat
      BY <1>13, <1>15
    <2>2. m \in f[1] .. f[3] - 1
      BY <1>16, <2>1
    <2> QED BY <1>15, <2>2 DEF Ends
  <1>18. f[1] <= f[3]
    BY <1>15, <1>16
  <1> QED BY <1>13, <1>15, <1>17, <1>18 DEF Segmented, Labels, text

\* A page is a sequence of the operations of a drawing.
LEMMA PageIsDrawn == Spec => [](drawing \in Drawings /\ page \in Seq(Operation))
  <1> DEFINE Inv == drawing \in Drawings /\ page \in Seq(Operation)
  <1>1. Init => Inv
    BY EmptySeq DEF Init
  <1>2. Inv /\ [Next]_vars => Inv'
    <2> SUFFICES ASSUME Inv, [Next]_vars PROVE Inv'
      OBVIOUS
    <2>1. CASE ShowOp
      <3>1. PICK op \in drawing.ops : page' = Append(page, op) /\ drawing' = drawing
        BY <2>1 DEF ShowOp
      <3>2. op \in Operation
        BY ExtractionAssumption
      <3> QED BY <3>1, <3>2, AppendProperties
    <2>2. CASE UNCHANGED <<page, drawing>>
      BY <2>2
    <2> QED BY <2>1, <2>2 DEF Next, AddUnit, PrintWord, vars
  <1> QED BY <1>1, <1>2, PTL DEF Spec

(* Of every page, whatever it draws and in whatever order: each operation  *)
(* that draws a word is in a row's chunk or in the prose, never in both;   *)
(* only the part of a right cell before an interruption is in neither      *)
(* (tables.py:101-107, reader.py:46-60).                                   *)
THEOREM PagesAreWhole == Spec => []NothingLost
  <1>1. drawing \in Drawings /\ page \in Seq(Operation) => NothingLost
    BY PageIsKept DEF NothingLost
  <1> QED BY <1>1, PageIsDrawn, PTL

(* Of every page: the subject and the predicate of a finding the screen    *)
(* makes in the chunk of a row were drawn in one column, so it binds no    *)
(* cell to the cell beside it (conflation.py:136-142).                     *)
THEOREM ColumnsApart == Spec => []CellsApart
  <1>1. drawing \in Drawings /\ page \in Seq(Operation) => CellsApart
    BY CellsAreApart
  <1> QED BY <1>1, PageIsDrawn, PTL

-----------------------------------------------------------------------------
(* Premises *)

\* A window takes in every unit up to one that still fits.
LEMMA WindowReaches ==
  ASSUME NEW s \in Seq(Nat), NEW a \in 1 .. Len(s), NEW b \in a .. Len(s),
         Joined(s, a, b) <= WindowChars
  PROVE  a .. b \subseteq Window(s, a)
  <1> DEFINE T == {c \in a .. Len(s) : c = a \/ Joined(s, a, c) <= WindowChars}
  <1>1. Len(s) \in Nat /\ T \subseteq 0 .. Len(s) /\ b \in T
    OBVIOUS
  <1>2. Max(T) \in T /\ Max(T) >= b
    BY <1>1, Greatest
  <1>3. Window(s, a) = a .. Max(T)
    BY DEF Window
  <1> HIDE DEF T
  <1>4. Max(T) \in 0 .. Len(s)
    BY <1>1, <1>2, Zenon
  <1>5. Max(T) \in Int
    BY <1>1, <1>4
  <1> QED BY <1>2, <1>3, <1>5

\* A window starts less than a stride before any unit.
LEMMA StartBefore ==
  ASSUME NEW u \in Nat \ {0}
  PROVE  \E a \in 1 .. u : (a - 1) % WindowStride = 0 /\ u < a + WindowStride
  <1> DEFINE w == WindowStride
             q == (u - 1) \div w
             r == (u - 1) % w
  <1>1. w \in Nat \ {0}
    BY PremiseAssumption
  <1>2. u - 1 \in Nat
    OBVIOUS
  <1>3. q \in Nat /\ r \in 0 .. w - 1 /\ u - 1 = w * q + r
    BY <1>1, <1>2
  <1>4. (u - r - 1) % w = 0
    <2> HIDE DEF q, r
    <2>0. w * q \in Int /\ r \in Int
      BY <1>1, <1>3
    <2>1. u - r - 1 = w * q
      BY <1>3, <2>0
    <2>2. w * q = w * q + 0 /\ w * q \in Int
      BY <1>1, <1>3
    <2>3. (w * q) % w = 0
      BY <1>1, <1>3, <2>2, SMTT(30)
    <2> QED BY <2>1, <2>3
  <1>5. u - r \in 1 .. u /\ u < (u - r) + w
    BY <1>1, <1>3
  <1> QED BY <1>4, <1>5

(* If as many units as a stride fit in a window, wherever they stand, the  *)
(* windows take in every unit of the premise (verification.py:110-122).    *)
THEOREM WindowsCover ==
  ASSUME NEW s \in Seq(Nat)
  PROVE  UnitsCovered(s)
  <1> SUFFICES ASSUME \A a \in 1 .. Len(s), b \in 1 .. Len(s) :
                         a <= b /\ b < a + WindowStride => Joined(s, a, b) <= WindowChars,
                      NEW u \in DOMAIN s
               PROVE  \E w \in Windows(s) : u \in w
    BY DEF UnitsCovered
  <1>1. u \in 1 .. Len(s) /\ Len(s) \in Nat
    OBVIOUS
  <1>2. PICK a \in 1 .. u : (a - 1) % WindowStride = 0 /\ u < a + WindowStride
    BY <1>1, StartBefore
  <1>3. a \in 1 .. Len(s) /\ u \in a .. Len(s) /\ a <= u
    BY <1>1
  <1>4. a .. u \subseteq Window(s, a)
    BY <1>1, <1>2, <1>3, WindowReaches
  <1>5. a \in WindowStarts(s) /\ u \in a .. u
    BY <1>1, <1>2, <1>3 DEF WindowStarts
  <1> QED BY <1>4, <1>5 DEF Windows

(* So no sentence of an evidence chunk is left out of what the entailment  *)
(* model is given, for premises of any number of sentences of any length   *)
(* (verification.py:119-122).                                              *)
THEOREM PremisesAreRead == Spec => []PremiseCovered
  <1> DEFINE Inv == units \in Seq(Nat)
  <1>1. Init => Inv
    BY DEF Init
  <1>2. Inv /\ [Next]_vars => Inv'
    <2> SUFFICES ASSUME Inv, [Next]_vars PROVE Inv'
      OBVIOUS
    <2>1. CASE AddUnit
      <3>1. PICK n \in Lengths : units' = Append(units, n)
        BY <2>1 DEF AddUnit
      <3>2. n \in Nat
        BY ExtractionAssumption
      <3> QED BY <3>1, <3>2
    <2>2. CASE UNCHANGED units
      BY <2>2
    <2> QED BY <2>1, <2>2 DEF Next, ShowOp, PrintWord, vars
  <1>3. Inv => PremiseCovered
    BY WindowsCover DEF PremiseCovered
  <1> QED BY <1>1, <1>2, <1>3, PTL DEF Spec

-----------------------------------------------------------------------------
(* Evaluations *)

\* The questions nothing in the corpus answers.
Traps == Range(AdversarialSet)

\* A record of an item says what the response to it said.
Faithful(r) ==
  /\ r.id \in Items
  /\ r.supported # {} => r.state = "ok"
  /\ ~r.old /\ r.state # "error" => r = Answer(r.id, said[r.id])

\* Of a run, each item is asked once, and the traps among them are those report() is given.
Asking ==
  /\ file = NoFile /\ written = <<>>
  /\ \A n \in todo : Questions[n] \in Traps => Questions[n] \in items
  /\ \A r \in records : /\ ~r.old
                        /\ r.id \in Traps => r.id \in items
                        /\ \A n \in todo : r.id # Questions[n]

\* What report() prints of these records, and the exit code.
Outcome(recs, given) ==
  LET rates == Report(recs, given)
  IN [rates |-> rates, exit |-> IF Above(rates.support, MaxRate) THEN 1 ELSE 0]

\* The records are true to the responses, and what was printed and written to the records.
EvalInv ==
  /\ said \in [Items -> Responses \cup {{}}]
  /\ todo \subseteq DOMAIN Questions
  /\ IsFiniteSet(records)
  /\ \A r \in records : Faithful(r)
  /\ file # NoFile => IsFiniteSet(file) /\ \A r \in file : Faithful(r)
  /\ stage = "idle" => records = {} /\ written = <<>>
  /\ stage = "asking" => Asking
  /\ stage \in {"reported", "rescored"} => printed = Outcome(records, items)
  /\ stage \in {"rescoring", "rescored"} => records = file /\ items = Traps
  /\ written # <<>> => written = Report(file, Traps)

\* No item is asked twice, and the traps are the adversarial ones.
LEMMA QuestionsFacts ==
  /\ DOMAIN Questions \subseteq Nat
  /\ \A n \in DOMAIN Questions : Questions[n] \in Items
  /\ \A m, n \in DOMAIN Questions : Questions[m] = Questions[n] => m = n
  /\ \A n \in DOMAIN AdversarialSet : n \in DOMAIN Questions /\ Questions[n] \in Traps
  /\ \A n \in DOMAIN Questions : Questions[n] \in Traps => n \in DOMAIN AdversarialSet
  <1>1. Questions \in Seq(Items)
    BY EvaluationAssumption, ConcatProperties DEF Questions
  <1>2. DOMAIN Questions = 1 .. Len(Questions) /\ Len(Questions) \in Nat
    BY <1>1, LenProperties
  <1>3. \A n \in DOMAIN Questions : Questions[n] \in Items
    BY DEF Items, Range
  <1>4. \A m, n \in DOMAIN Questions : Questions[m] = Questions[n] => m = n
    BY EvaluationAssumption DEF IsInjective
  <1>5. \A n \in DOMAIN AdversarialSet : n \in DOMAIN Questions /\ Questions[n] = AdversarialSet[n]
    BY EvaluationAssumption, ConcatProperties DEF Questions
  <1>6. \A n \in DOMAIN Questions : Questions[n] \in Traps => n \in DOMAIN AdversarialSet
    <2> TAKE n \in DOMAIN Questions
    <2> HAVE Questions[n] \in Traps
    <2>1. PICK m \in DOMAIN AdversarialSet : AdversarialSet[m] = Questions[n]
      BY DEF Traps, Range
    <2>2. m \in DOMAIN Questions /\ Questions[m] = Questions[n]
      BY <1>5, <2>1
    <2> QED BY <1>4, <2>1, <2>2
  <1>7. \A n \in DOMAIN AdversarialSet : AdversarialSet[n] \in Traps
    BY DEF Traps, Range
  <1> QED BY <1>2, <1>3, <1>4, <1>5, <1>6, <1>7

\* What a record says of supported claims.
LEMMA AnswerFacts ==
  ASSUME NEW id, NEW vs
  PROVE  /\ Answer(id, vs).id = id /\ ~Answer(id, vs).old
         /\ Answer(id, vs).supported = With(vs, {"SUPPORTED"})
         /\ Answer(id, vs).supported # {} => Answer(id, vs).state = "ok"
         /\ Failure(id).id = id /\ ~Failure(id).old /\ Failure(id).state = "error"
         /\ Failure(id).supported = {}
         /\ Archived(id, vs).id = id /\ Archived(id, vs).old
         /\ Archived(id, vs).supported # {} => Archived(id, vs).state = "ok"
  <1>1. With(vs, {"SUPPORTED"}) # {} => With(vs, {"SUPPORTED", "UNSUPPORTED"}) # {}
    BY DEF With
  <1> QED BY <1>1 DEF Answer, Failure, Archived

\* The rates are of traps only: to be given more items changes none.
LEMMA SameReport ==
  ASSUME NEW recs, NEW given, \A r \in recs : r.id \in Traps => r.id \in given
  PROVE  Report(recs, given) = Report(recs, Traps)
  <1>1. \A r \in Answered(recs, "insufficient_evidence") :
           r \in recs /\ r.id \in Traps
    BY DEF Answered, Expected, Traps
  <1>2. Scorable(recs, given) = Scorable(recs, Traps)
    BY <1>1 DEF Scorable
  <1>3. D1(recs, given) = D1(recs, Traps)
    BY <1>2 DEF D1
  <1> QED BY <1>2, <1>3 DEF Report

\* It holds at first, and after every step.
LEMMA InitInv == EvalInit => EvalInv
  <1> SUFFICES ASSUME EvalInit PROVE EvalInv
    OBVIOUS
  <1>1. said \in [Items -> Responses \cup {{}}]
    BY DEF EvalInit
  <1>2. ASSUME file # NoFile PROVE IsFiniteSet(file) /\ \A r \in file : Faithful(r)
    <2>1. PICK id \in Items, vs \in Responses : file = {Archived(id, vs)}
      BY <1>2 DEF EvalInit
    <2>2. Faithful(Archived(id, vs))
      BY AnswerFacts DEF Faithful
    <2> QED BY <2>1, <2>2, FS_Singleton
  <1>3. IsFiniteSet(records) /\ records = {} /\ todo = {} /\ written = <<>> /\ stage = "idle"
    BY FS_EmptySet DEF EvalInit
  <1> QED BY <1>1, <1>2, <1>3 DEF EvalInv

LEMMA BeginInv ==
  ASSUME EvalInv, NEW sets, NEW ids, NEW limit, Begin(sets, ids, limit)
  PROVE  EvalInv'
  <1>1. PICK adversarial, retrieval :
          /\ adversarial \subseteq DOMAIN AdversarialSet
          /\ retrieval \subseteq DOMAIN Questions \ DOMAIN AdversarialSet
          /\ todo' = adversarial \cup retrieval
          /\ items' = {Questions[n] : n \in adversarial}
    <2>1. \A places : Load(places, ids, limit) \subseteq places
      BY DEF Load
    <2> DEFINE a == IF "adversarial" \in sets THEN Load(DOMAIN AdversarialSet, ids, limit) ELSE {}
               b == IF "retrieval" \in sets
                    THEN Load(DOMAIN Questions \ DOMAIN AdversarialSet, ids, limit) ELSE {}
    <2>2. a \subseteq DOMAIN AdversarialSet /\ b \subseteq DOMAIN Questions \ DOMAIN AdversarialSet
      BY <2>1
    <2>3. todo' = a \cup b /\ items' = {Questions[n] : n \in a}
      BY DEF Begin
    <2> HIDE DEF a, b
    <2> QED BY <2>2, <2>3
  <1>2. stage' = "asking" /\ UNCHANGED <<records, file, printed, said, written>>
        /\ file = NoFile /\ written = <<>> /\ records = {}
    BY DEF Begin, EvalInv
  <1>3. todo' \subseteq DOMAIN Questions
    BY <1>1, QuestionsFacts
  <1>4. \A n \in todo' : Questions[n] \in Traps => Questions[n] \in items'
    BY <1>1, <1>3, QuestionsFacts
  <1>5. Asking'
    BY <1>2, <1>4 DEF Asking
  <1> QED BY <1>2, <1>3, <1>5 DEF EvalInv

LEMMA AskInv ==
  ASSUME EvalInv, Ask
  PROVE  EvalInv'
  <1> DEFINE n == Min(todo)
             id == Questions[n]
  <1>1. n \in todo
    <2>1. todo # {} /\ todo \subseteq Nat
      BY QuestionsFacts DEF Ask, EvalInv
    <2> QED BY <2>1, Least DEF Min
  <1>2. stage = "asking" /\ Asking /\ id \in Items
    BY <1>1, QuestionsFacts DEF Ask, EvalInv
  <1>3. PICK r : /\ records' = records \cup {r}
                 /\ r.id = id /\ ~r.old
                 /\ r.supported # {} => r.state = "ok"
                 /\ \/ \E vs \in Responses : r = Answer(id, vs) /\ said' = [said EXCEPT ![id] = vs]
                    \/ r.state = "error" /\ said' = said
    <2>1. CASE \E vs \in Responses :
                 records' = records \cup {Answer(id, vs)} /\ said' = [said EXCEPT ![id] = vs]
      <3>1. PICK vs \in Responses :
                 records' = records \cup {Answer(id, vs)} /\ said' = [said EXCEPT ![id] = vs]
        BY <2>1
      <3> DEFINE r == Answer(id, vs)
      <3>2. r.id = id /\ ~r.old /\ (r.supported # {} => r.state = "ok")
        BY AnswerFacts
      <3>3. \E ws \in Responses : r = Answer(id, ws) /\ said' = [said EXCEPT ![id] = ws]
        BY <3>1
      <3> HIDE DEF n, id
      <3> QED BY <3>1, <3>2, <3>3
    <2>2. CASE records' = records \cup {Failure(id)} /\ said' = said
      BY <2>2, AnswerFacts
    <2> QED BY <2>1, <2>2 DEF Ask
  <1>4. /\ todo' = todo \ {n}
        /\ UNCHANGED <<stage, items, file, printed, written>>
    BY DEF Ask
  <1> HIDE DEF n, id
  <1>5. \A q \in records : q.id # id
    BY <1>1, <1>2 DEF Asking, id
  <1>6. \A q \in records' : Faithful(q)'
    <2>1. ASSUME NEW q \in records PROVE Faithful(q)'
      <3>1. Faithful(q) /\ q.id # id /\ q.id \in Items
        BY <1>5 DEF EvalInv, Faithful
      <3>2. said'[q.id] = said[q.id]
        BY <1>3, <3>1 DEF EvalInv
      <3> QED BY <3>1, <3>2 DEF Faithful
    <2>2. Faithful(r)'
      <3>1. CASE r.state = "error"
        BY <1>2, <1>3, <3>1 DEF Faithful
      <3>2. CASE \E vs \in Responses : r = Answer(id, vs) /\ said' = [said EXCEPT ![id] = vs]
        <4>1. PICK vs \in Responses : r = Answer(id, vs) /\ said' = [said EXCEPT ![id] = vs]
          BY <3>2
        <4>2. said'[id] = vs
          BY <1>2, <4>1 DEF EvalInv
        <4> QED BY <1>2, <1>3, <4>1, <4>2 DEF Faithful
      <3> QED BY <1>3, <3>1, <3>2
    <2> QED BY <1>3, <2>1, <2>2
  <1>7. Asking'
    <2>1. \A m \in todo' : m \in todo /\ Questions[m] # id
      BY <1>1, <1>4, QuestionsFacts DEF EvalInv, id
    <2>2. \A m \in todo' : Questions[m] \in Traps => Questions[m] \in items'
      BY <1>2, <1>4, <2>1 DEF Asking
    <2>3. \A q \in records' : /\ ~q.old
                              /\ q.id \in Traps => q.id \in items'
                              /\ \A m \in todo' : q.id # Questions[m]
      BY <1>1, <1>2, <1>3, <1>4, <2>1 DEF Asking, id
    <2> QED BY <1>2, <1>4, <2>2, <2>3 DEF Asking
  <1>8. IsFiniteSet(records') /\ todo' \subseteq DOMAIN Questions
    BY <1>3, <1>4, FS_AddElement DEF EvalInv
  <1>9. said' \in [Items -> Responses \cup {{}}]
    BY <1>2, <1>3 DEF EvalInv
  <1> QED BY <1>2, <1>4, <1>6, <1>7, <1>8, <1>9 DEF EvalInv, Asking

LEMMA RescoreInv ==
  ASSUME EvalInv, Rescore
  PROVE  EvalInv'
  <1>1. /\ stage' = "rescoring" /\ records' = file /\ items' = Traps
        /\ UNCHANGED <<todo, file, printed, said, written>>
        /\ file # NoFile
    BY DEF Rescore, Traps
  <1>2. \A r : Faithful(r) <=> Faithful(r)'
    BY <1>1 DEF Faithful
  <1> QED BY <1>1, <1>2 DEF EvalInv

LEMMA FinishInv ==
  ASSUME EvalInv, Finish
  PROVE  EvalInv'
  <1>1. /\ UNCHANGED <<todo, items, records, said>>
        /\ printed' = Outcome(records, items)
        /\ stage' = IF stage = "asking" THEN "reported" ELSE "rescored"
        /\ \/ stage = "asking" /\ file' = records /\ written' = Report(records, items)
           \/ UNCHANGED <<file, written>>
        /\ stage \in {"asking", "rescoring"}
    BY DEF Finish, Outcome
  <1>2. \A r : Faithful(r) <=> Faithful(r)'
    BY <1>1 DEF Faithful
  <1>3. stage = "asking" => Report(records, items) = Report(records, Traps)
    BY SameReport DEF EvalInv, Asking
  <1>4. written' # <<>> => written' = Report(file', Traps)
    BY <1>1, <1>3 DEF EvalInv
  <1>5. stage' = "rescored" => records' = file' /\ items' = Traps
    BY <1>1 DEF EvalInv
  <1> QED BY <1>1, <1>2, <1>4, <1>5 DEF EvalInv

LEMMA EvalInvariant == EvalSpec => []EvalInv
  <1>1. EvalInv /\ [EvalNext]_evalVars => EvalInv'
    <2> SUFFICES ASSUME EvalInv, [EvalNext]_evalVars PROVE EvalInv'
      OBVIOUS
    <2>1. CASE UNCHANGED evalVars
      <3>1. UNCHANGED <<stage, todo, items, records, file, printed, said, written>>
        BY <2>1 DEF evalVars
      <3>2. \A r : Faithful(r) <=> Faithful(r)'
        BY <3>1 DEF Faithful
      <3> QED BY <3>1, <3>2 DEF EvalInv, Asking
    <2> QED BY <2>1, BeginInv, AskInv, RescoreInv, FinishInv DEF EvalNext
  <1> QED BY <1>1, InitInv, PTL DEF EvalSpec

\* Where it holds, so do the grades.
LEMMA Grades == EvalInv => GradesHold
  <1> SUFFICES ASSUME EvalInv PROVE GradesHold
    OBVIOUS
  <1> DEFINE all == Scorable(records, items)
             d1  == D1(records, items)
  <1>1. ASSUME NEW r \in all
        PROVE  r \in records /\ r.state # "error" /\ Faithful(r)
    BY <1>1 DEF EvalInv, Scorable, Answered
  <1>2. d1 \subseteq Old(records, items) \ D4(records, items)
    <2>1. ASSUME NEW r \in d1 PROVE r.state = "ok" /\ ~BaitRejected(r) /\ r \in all
      <3>1. r \in all /\ ItemAssertsTrap(r)
        BY DEF D1
      <3>2. r.supported # {}
        BY <3>1 DEF ItemAssertsTrap
      <3> QED BY <1>1, <3>1, <3>2 DEF BaitRejected, Faithful
    <2> QED BY <2>1 DEF Old, D4
  <1>3. ASSUME NEW r \in all, ~r.old PROVE r \in d1 <=> Baited(r.id)
    <2>1. r = Answer(r.id, said[r.id])
      BY <1>1, <1>3 DEF Faithful
    <2>2. r.supported = With(said[r.id], {"SUPPORTED"})
      BY <2>1, AnswerFacts
    <2>3. \A t : t \in r.supported <=> \E v \in said[r.id] : v.status = "SUPPORTED" /\ t = v.text
      BY <2>2 DEF With
    <2>4. ItemAssertsTrap(r) <=> Baited(r.id)
      <3>1. ASSUME ItemAssertsTrap(r) PROVE Baited(r.id)
        <4>1. PICK t \in r.supported : AssertsTrap(t, Groups[r.id])
          BY <3>1 DEF ItemAssertsTrap
        <4>2. PICK v \in said[r.id] : v.status = "SUPPORTED" /\ t = v.text
          BY <2>3, <4>1
        <4> QED BY <4>1, <4>2 DEF AssertsTrap, Baited
      <3>2. ASSUME Baited(r.id) PROVE ItemAssertsTrap(r)
        <4>1. PICK v \in said[r.id] :
                /\ v.status = "SUPPORTED" /\ ~v.text.negated
                /\ \E group \in Groups[r.id] : \A p \in group : p \in v.text.words
          BY <3>2 DEF Baited
        <4>2. v.text \in r.supported /\ AssertsTrap(v.text, Groups[r.id])
          BY <2>3, <4>1 DEF AssertsTrap
        <4> QED BY <4>2 DEF ItemAssertsTrap
      <3> QED BY <3>1, <3>2
    <2> QED BY <2>4 DEF D1
  <1>4. ASSUME stage \in {"reported", "rescored"}, MaxRate[1] = 0, all # {}
        PROVE  printed.exit = 0 <=> d1 = {}
    <2>1. IsFiniteSet(all) /\ IsFiniteSet(d1)
      <3>1. all \subseteq records /\ d1 \subseteq all
        BY DEF Scorable, Answered, D1
      <3> QED BY <3>1, FS_Subset DEF EvalInv
    <2>2. Cardinality(d1) \in Nat /\ (Cardinality(d1) = 0 <=> d1 = {})
      BY <2>1, FS_CardinalityType, FS_EmptySet
    <2>3. Cardinality(all) \in Nat
      BY <2>1, FS_CardinalityType
    <2>4. Report(records, items).support = <<Cardinality(d1), Cardinality(all)>>
      BY <1>4 DEF Report, Rate
    <2>5. MaxRate[2] \in Nat \ {0}
      BY EvaluationAssumption
    <2>6. Above(Report(records, items).support, MaxRate)
            <=> Cardinality(d1) * MaxRate[2] > 0 * Cardinality(all)
      BY <1>4, <2>4 DEF Above
    <2> DEFINE c == Cardinality(d1)
               e == Cardinality(all)
    <2>7. Above(Report(records, items).support, MaxRate) <=> c # 0
      <3> HIDE DEF c, e
      <3>1. c \in Nat /\ e \in Nat
        BY <2>2, <2>3 DEF c, e
      <3>2. 0 * e = 0
        BY <3>1
      <3>3. c * MaxRate[2] > 0 <=> c # 0
        BY <2>5, <3>1
      <3> QED BY <2>6, <3>2, <3>3 DEF c, e
    <2>8. printed.exit = IF Above(Report(records, items).support, MaxRate) THEN 1 ELSE 0
      BY <1>4 DEF EvalInv, Outcome
    <2> QED BY <2>2, <2>7, <2>8
  <1>5. stage = "rescored" /\ written # <<>> => printed.rates = written
    BY DEF EvalInv, Outcome
  <1> HIDE DEF all, d1
  <1>6. /\ d1 \subseteq Old(records, items) \ D4(records, items)
        /\ \A r \in all : ~r.old => (r \in d1 <=> Baited(r.id))
        /\ stage \in {"reported", "rescored"} /\ MaxRate[1] = 0 /\ all # {} =>
             (printed.exit = 0 <=> d1 = {})
    BY <1>2, <1>3, <1>4
  <1> QED BY <1>5, <1>6 DEF GradesHold, all, d1

(* At every moment of a run, of a rescoring and of the reports they print  *)
(* and write: the rates count what the responses said, the gate fails only *)
(* above its limit, and a rescored file says what the run said             *)
(* (trap_scoring.py:3-13, run_faithfulness_eval.py:168-177).               *)
THEOREM GradesAreRight == EvalSpec => []GradesHold
  <1> QED BY EvalInvariant, Grades, PTL

-----------------------------------------------------------------------------
(* FlattenSeq, of one sequence more and of single members *)

\* The first members of a longer sequence make what they made of the shorter one.
LEMMA FlattenPrefix ==
  ASSUME NEW a, NEW b, NEW n \in Nat, NEW L \in Nat, n < L,
         \A i \in 1 .. n : a[i] = b[i],
         NEW f, Flattening(a, n, f), NEW g, Flattening(b, L, g)
  PROVE  \A i \in 1 .. n : f[i] = g[i]
  <1> DEFINE T == {i \in Nat : i + 1 <= n => f[i + 1] = g[i + 1]}
  <1>1. \A i \in 1 .. n : /\ f[i] = IF i = 1 THEN a[i] ELSE f[i - 1] \o a[i]
                          /\ g[i] = IF i = 1 THEN b[i] ELSE g[i - 1] \o b[i]
    <2>1. \A i \in 1 .. n : f[i] = IF i = 1 THEN a[i] ELSE f[i - 1] \o a[i]
      BY DEF Flattening
    <2>2. \A i \in 1 .. L : g[i] = IF i = 1 THEN b[i] ELSE g[i - 1] \o b[i]
      BY DEF Flattening
    <2> QED BY <2>1, <2>2
  <1>2. 0 \in T
    <2>1. 1 <= n => f[1] = a[1] /\ g[1] = b[1]
      BY <1>1
    <2> QED BY <2>1
  <1>3. ASSUME NEW i \in Nat, i \in T PROVE i + 1 \in T
    <2> DEFINE m == i + 1
    <2>1. SUFFICES ASSUME m + 1 <= n PROVE f[m + 1] = g[m + 1]
      OBVIOUS
    <2>2. m + 1 \in 1 .. n /\ m + 1 # 1 /\ (m + 1) - 1 = m /\ m <= n
      BY <2>1
    <2>3. f[m] = g[m]
      BY <1>3, <2>2
    <2> HIDE DEF m
    <2> QED BY <1>1, <2>2, <2>3
  <1>4. Nat \subseteq T
    <2> HIDE DEF T
    <2> QED BY <1>2, <1>3, SetInduction
  <1>5. ASSUME NEW i \in 1 .. n PROVE f[i] = g[i]
    <2>1. i - 1 \in Nat /\ (i - 1) + 1 = i
      OBVIOUS
    <2> QED BY <1>4, <2>1
  <1> QED BY <1>5

LEMMA FlattenIs ==
  ASSUME NEW seqs, NEW L \in Nat \ {0}, Len(seqs) = L
  PROVE  \E f : Flattening(seqs, L, f) /\ FlattenSeq(seqs) = f[L]
  <1> DEFINE f == CHOOSE f : f = [i \in 1 .. Len(seqs) |->
                    IF i = 1 THEN seqs[i] ELSE f[i - 1] \o seqs[i]]
  <1>1. \E h : h = [i \in 1 .. Len(seqs) |-> IF i = 1 THEN seqs[i] ELSE h[i - 1] \o seqs[i]]
    <2>1. \E h : Flattening(seqs, L, h)
      BY FlattenExists
    <2> QED BY <2>1 DEF Flattening
  <1>2. f = [i \in 1 .. Len(seqs) |-> IF i = 1 THEN seqs[i] ELSE f[i - 1] \o seqs[i]]
    BY <1>1, Zenon
  <1>3. FlattenSeq(seqs) = f[L]
    BY DEF FlattenSeq
  <1> HIDE DEF f
  <1> QED BY <1>2, <1>3 DEF Flattening

LEMMA FlattenType ==
  ASSUME NEW S, NEW seqs \in Seq(Seq(S))
  PROVE  FlattenSeq(seqs) \in Seq(S)
  BY FlattenOrigin DEF Origin

LEMMA FlattenNone == FlattenSeq(<<>>) = <<>>
  BY EmptySeq DEF FlattenSeq

LEMMA ConcatAppend ==
  ASSUME NEW Q, NEW a \in Seq(Q), NEW d \in Seq(Q), NEW x \in Q
  PROVE  a \o d \in Seq(Q) /\ a \o Append(d, x) = Append(a \o d, x)
  OBVIOUS

LEMMA SeqOfFunction ==
  ASSUME NEW Q, NEW n \in Nat, NEW f \in [1 .. n -> Q]
  PROVE  f \in Seq(Q) /\ Len(f) = n
  OBVIOUS

LEMMA FlattenAppend ==
  ASSUME NEW S, NEW seqs \in Seq(Seq(S)), NEW x \in Seq(S)
  PROVE  FlattenSeq(Append(seqs, x)) = FlattenSeq(seqs) \o x
  <1> DEFINE L == Len(seqs)
             longer == Append(seqs, x)
  <1>1. /\ L \in Nat /\ Len(longer) = L + 1
        /\ \A i \in 1 .. L : longer[i] = seqs[i]
        /\ longer[L + 1] = x
    OBVIOUS
  <1> HIDE DEF longer, L
  <1>2. PICK g : Flattening(longer, L + 1, g) /\ FlattenSeq(longer) = g[L + 1]
    <2>1. L + 1 \in Nat \ {0}
      BY <1>1
    <2> QED BY <1>1, <2>1, FlattenIs
  <1>3. g[L + 1] = IF L + 1 = 1 THEN longer[L + 1] ELSE g[(L + 1) - 1] \o longer[L + 1]
    <2>1. L + 1 \in 1 .. L + 1
      BY <1>1
    <2> QED BY <1>2, <2>1 DEF Flattening
  <1>4. CASE L = 0
    <2>1. seqs = <<>>
      BY <1>4, EmptySeq DEF L
    <2>2. FlattenSeq(seqs) \o x = x
      BY <2>1, FlattenNone, ConcatEmptySeq
    <2> QED BY <1>1, <1>2, <1>3, <1>4, <2>2 DEF longer
  <1>5. CASE L # 0
    <2>1. PICK f : Flattening(seqs, L, f) /\ FlattenSeq(seqs) = f[L]
      <3>1. L \in Nat \ {0} /\ Len(seqs) = L
        BY <1>1, <1>5 DEF L
      <3> QED BY <3>1, FlattenIs
    <2>2. L < L + 1 /\ L + 1 \in Nat /\ L \in 1 .. L
      BY <1>1, <1>5
    <2>3. f[L] = g[L]
      <3>1. \A i \in 1 .. L : seqs[i] = longer[i]
        BY <1>1
      <3>2. L \in Nat /\ Flattening(seqs, L, f) /\ Flattening(longer, L + 1, g)
        BY <1>1, <1>2, <2>1
      <3>3. \A i \in 1 .. L : f[i] = g[i]
        BY <2>2, <3>1, <3>2, FlattenPrefix
      <3> QED BY <2>2, <3>3
    <2>4. (L + 1) - 1 = L /\ L + 1 # 1
      BY <1>1, <1>5
    <2> QED BY <1>1, <1>2, <1>3, <2>1, <2>3, <2>4 DEF longer
  <1> QED BY <1>4, <1>5

\* Equations under a name, which the provers then need not take apart.
Associates(x, y, z) == (x \o y) \o z = x \o (y \o z)

LEMMA Associate ==
  ASSUME NEW Q, NEW x \in Seq(Q), NEW y \in Seq(Q), NEW z \in Seq(Q)
  PROVE  Associates(x, y, z) /\ x \o y \in Seq(Q)
  BY ConcatAssociative, ConcatProperties DEF Associates

\* It goes piece by piece.
LEMMA FlattenConcat ==
  ASSUME NEW S, NEW a \in Seq(Seq(S)), NEW b \in Seq(Seq(S))
  PROVE  FlattenSeq(a \o b) = FlattenSeq(a) \o FlattenSeq(b)
  <1> DEFINE T == {n \in Nat : \A c \in Seq(Seq(S)) :
                     Len(c) = n => FlattenSeq(a \o c) = FlattenSeq(a) \o FlattenSeq(c)}
  <1>0. FlattenSeq(a) \in Seq(S)
    BY FlattenType
  <1>1. 0 \in T
    <2>1. ASSUME NEW c \in Seq(Seq(S)), Len(c) = 0
          PROVE  FlattenSeq(a \o c) = FlattenSeq(a) \o FlattenSeq(c)
      <3>1. c = <<>>
        BY <2>1, EmptySeq
      <3>2. a \o <<>> = a /\ FlattenSeq(a) \o <<>> = FlattenSeq(a)
        BY <1>0, ConcatEmptySeq
      <3> QED BY <3>1, <3>2, FlattenNone
    <2> QED BY <2>1
  <1>2. ASSUME NEW n \in Nat, n \in T PROVE n + 1 \in T
    <2>1. ASSUME NEW c \in Seq(Seq(S)), Len(c) = n + 1
          PROVE  FlattenSeq(a \o c) = FlattenSeq(a) \o FlattenSeq(c)
      <3> DEFINE d == SubSeq(c, 1, n)
                 x == c[n + 1]
      <3>1. d \in Seq(Seq(S)) /\ x \in Seq(S) /\ Len(d) = n
        BY <2>1
      <3>2. c = Append(d, x)
        BY <2>1, <3>1
      <3> HIDE DEF d, x
      <3>3. a \o c = Append(a \o d, x) /\ a \o d \in Seq(Seq(S))
        BY <3>1, <3>2, ConcatAppend
      <3>4. FlattenSeq(a \o c) = FlattenSeq(a \o d) \o x /\ FlattenSeq(c) = FlattenSeq(d) \o x
        BY <3>1, <3>2, <3>3, FlattenAppend
      <3>5. FlattenSeq(a \o d) = FlattenSeq(a) \o FlattenSeq(d) /\ FlattenSeq(d) \in Seq(S)
        BY <1>2, <3>1, FlattenType
      <3>6. (FlattenSeq(a) \o FlattenSeq(d)) \o x = FlattenSeq(a) \o (FlattenSeq(d) \o x)
        <4> DEFINE u == FlattenSeq(a)
                   v == FlattenSeq(d)
        <4>1. u \in Seq(S) /\ v \in Seq(S) /\ x \in Seq(S)
          BY <1>0, <3>1, <3>5
        <4> HIDE DEF u, v
        <4>2. Associates(u, v, x)
          BY <4>1, Associate
        <4> QED BY <4>2 DEF u, v, Associates
      <3> QED BY <3>4, <3>5, <3>6
    <2> QED BY <2>1
  <1>3. Nat \subseteq T
    <2> HIDE DEF T
    <2> QED BY <1>1, <1>2, SetInduction
  <1>4. Len(b) \in Nat
    OBVIOUS
  <1> QED BY <1>3, <1>4

LEMMA FlattenOne ==
  ASSUME NEW S, NEW x \in Seq(S)
  PROVE  FlattenSeq(<<x>>) = x
  <1>1. <<>> \in Seq(Seq(S)) /\ <<x>> = Append(<<>>, x)
    BY EmptySeq
  <1>2. FlattenSeq(<<x>>) = FlattenSeq(<<>>) \o x
    BY <1>1, FlattenAppend
  <1> QED BY <1>2, FlattenNone, ConcatEmptySeq

Singles(text) == [i \in DOMAIN text |-> <<text[i]>>]

\* Of single members it makes the sequence of them.
LEMMA FlattenSingles ==
  ASSUME NEW S, NEW text \in Seq(S)
  PROVE  /\ Singles(text) \in Seq(Seq(S)) /\ Len(Singles(text)) = Len(text)
         /\ FlattenSeq(Singles(text)) = text
  <1> DEFINE T == {n \in Nat : \A t \in Seq(S) : Len(t) = n => FlattenSeq(Singles(t)) = t}
  <1>1. ASSUME NEW t \in Seq(S)
        PROVE  Singles(t) \in Seq(Seq(S)) /\ Len(Singles(t)) = Len(t)
    <2>1. Len(t) \in Nat /\ DOMAIN t = 1 .. Len(t) /\ \A i \in 1 .. Len(t) : <<t[i]>> \in Seq(S)
      OBVIOUS
    <2>2. Singles(t) \in [1 .. Len(t) -> Seq(S)]
      BY <2>1 DEF Singles
    <2> QED BY <2>1, <2>2, SeqOfFunction
  <1>2. 0 \in T
    <2>1. ASSUME NEW t \in Seq(S), Len(t) = 0 PROVE FlattenSeq(Singles(t)) = t
      <3>1. t = <<>> /\ Singles(t) = <<>>
        BY <1>1, <2>1, EmptySeq
      <3> QED BY <3>1, FlattenNone
    <2> QED BY <2>1
  <1>3. ASSUME NEW n \in Nat, n \in T PROVE n + 1 \in T
    <2>1. ASSUME NEW t \in Seq(S), Len(t) = n + 1 PROVE FlattenSeq(Singles(t)) = t
      <3> DEFINE d == SubSeq(t, 1, n)
                 x == t[n + 1]
      <3>1. d \in Seq(S) /\ x \in S /\ Len(d) = n /\ t = Append(d, x) /\ t = d \o <<x>>
        BY <2>1
      <3>2. Singles(t) = Append(Singles(d), <<x>>)
        BY <2>1, <3>1 DEF Singles
      <3> HIDE DEF d, x
      <3>3. FlattenSeq(Singles(t)) = FlattenSeq(Singles(d)) \o <<x>>
        <4>1. <<x>> \in Seq(S)
          BY <3>1
        <4> QED BY <1>1, <3>1, <3>2, <4>1, FlattenAppend
      <3>4. FlattenSeq(Singles(d)) = d
        BY <1>3, <3>1
      <3> QED BY <3>1, <3>3, <3>4
    <2> QED BY <2>1
  <1>4. Nat \subseteq T
    <2> HIDE DEF T
    <2> QED BY <1>2, <1>3, SetInduction
  <1>5. Len(text) \in Nat
    OBVIOUS
  <1> QED BY <1>1, <1>4, <1>5

-----------------------------------------------------------------------------
(* Runs *)

\* Where the run before i begins, and where the run from i ends.
BeginsAt(text, i, stops, from) ==
  /\ from \in 1 .. i /\ \A m \in from .. i - 1 : text[m] \notin stops
  /\ from = 1 \/ text[from - 1] \in stops

EndsAt(text, i, stops, to) ==
  /\ to \in i - 1 .. Len(text) /\ \A m \in i .. to : text[m] \notin stops
  /\ to = Len(text) \/ text[to + 1] \in stops

LEMMA RunBeforeIs ==
  ASSUME NEW text, NEW stops, NEW i \in Nat \ {0}, NEW from, BeginsAt(text, i, stops, from)
  PROVE  RunBefore(text, i, stops) = SubSeq(text, from, i - 1)
  <1> DEFINE T == {l \in 1 .. i : \A m \in l .. i - 1 : text[m] \notin stops}
  <1>1. from \in T /\ from \in Nat
    BY DEF BeginsAt
  <1>2. ASSUME NEW l \in T PROVE from <= l
    <2>1. SUFFICES ASSUME l < from PROVE FALSE
      BY <1>1
    <2>2. from # 1 /\ from - 1 \in l .. i - 1
      BY <2>1 DEF BeginsAt
    <2>3. text[from - 1] \notin stops
      BY <2>2
    <2> QED BY <2>2, <2>3 DEF BeginsAt
  <1>3. T \subseteq Nat
    OBVIOUS
  <1>4. RunBefore(text, i, stops) = SubSeq(text, Min(T), i - 1)
    BY DEF RunBefore
  <1> HIDE DEF T
  <1>5. \E x \in T : \A y \in T : x <= y
    BY <1>1, <1>2
  <1>6. Min(T) \in T /\ \A y \in T : Min(T) <= y
    BY <1>5 DEF Min
  <1>7. Min(T) = from
    <2>1. from <= Min(T) /\ Min(T) <= from
      BY <1>1, <1>2, <1>6
    <2>2. Min(T) \in Nat
      BY <1>3, <1>6
    <2> QED BY <1>1, <2>1, <2>2
  <1> QED BY <1>4, <1>7

LEMMA RunFromIs ==
  ASSUME NEW text, NEW stops, NEW i \in Nat \ {0}, NEW to, Len(text) \in Nat,
         EndsAt(text, i, stops, to)
  PROVE  RunFrom(text, i, stops) = SubSeq(text, i, to)
  <1> DEFINE T == {r \in i - 1 .. Len(text) : \A m \in i .. r : text[m] \notin stops}
  <1>1. to \in T /\ to \in Nat
    BY DEF EndsAt
  <1>2. ASSUME NEW r \in T PROVE to >= r
    <2>1. SUFFICES ASSUME r > to PROVE FALSE
      BY <1>1
    <2>2. to # Len(text) /\ to + 1 \in i .. r
      BY <2>1 DEF EndsAt
    <2>3. text[to + 1] \notin stops
      BY <2>2
    <2> QED BY <2>2, <2>3 DEF EndsAt
  <1>3. T \subseteq Nat
    OBVIOUS
  <1>4. RunFrom(text, i, stops) = SubSeq(text, i, Max(T))
    BY DEF RunFrom
  <1> HIDE DEF T
  <1>5. \E x \in T : \A y \in T : x >= y
    BY <1>1, <1>2
  <1>6. Max(T) \in T /\ \A y \in T : Max(T) >= y
    BY <1>5 DEF Max
  <1>7. Max(T) = to
    <2>1. to >= Max(T) /\ Max(T) >= to
      BY <1>1, <1>2, <1>6
    <2>2. Max(T) \in Nat
      BY <1>3, <1>6
    <2> QED BY <1>1, <2>1, <2>2
  <1> QED BY <1>4, <1>7

LEMMA RunsEnd ==
  ASSUME NEW text, NEW stops, Len(text) \in Nat, NEW i \in 1 .. Len(text) + 1
  PROVE  /\ \E from : BeginsAt(text, i, stops, from)
         /\ \E to : EndsAt(text, i, stops, to)
  <1>1. \E from : BeginsAt(text, i, stops, from)
    <2> DEFINE T == {l \in 1 .. i : \A m \in l .. i - 1 : text[m] \notin stops}
    <2>1. i \in T /\ T \subseteq Nat
      OBVIOUS
    <2>2. PICK from \in T : \A k \in T : from <= k
      <3> HIDE DEF T
      <3> QED BY <2>1, Least
    <2>3. from = 1 \/ text[from - 1] \in stops
      <3>1. SUFFICES ASSUME from # 1, text[from - 1] \notin stops PROVE FALSE
        OBVIOUS
      <3>2. from - 1 \in 1 .. i /\ from \in 1 .. i
        BY <3>1
      <3>3. ASSUME NEW m \in from - 1 .. i - 1 PROVE text[m] \notin stops
        <4>1. m = from - 1 \/ m \in from .. i - 1
          BY <3>2
        <4> QED BY <3>1, <4>1
      <3>4. from - 1 \in T
        BY <3>2, <3>3
      <3>5. from <= from - 1
        BY <2>2, <3>4
      <3> QED BY <3>2, <3>5
    <2>4. BeginsAt(text, i, stops, from)
      BY <2>2, <2>3 DEF BeginsAt
    <2> QED BY <2>4
  <1>2. \E to : EndsAt(text, i, stops, to)
    <2> DEFINE T == {r \in i - 1 .. Len(text) : \A m \in i .. r : text[m] \notin stops}
    <2>1. i - 1 \in T /\ T \subseteq 0 .. Len(text)
      OBVIOUS
    <2>2. Max(T) \in T /\ \A r \in T : Max(T) >= r
      <3>1. T # {}
        BY <2>1
      <3> HIDE DEF T
      <3> QED BY <2>1, <3>1, Greatest
    <2> DEFINE to == Max(T)
    <2>5. to \in i - 1 .. Len(text) /\ \A m \in i .. to : text[m] \notin stops
      BY <2>2
    <2> HIDE DEF to
    <2>3. to = Len(text) \/ text[to + 1] \in stops
      <3>1. SUFFICES ASSUME to # Len(text), text[to + 1] \notin stops PROVE FALSE
        OBVIOUS
      <3>2. to + 1 \in i - 1 .. Len(text)
        BY <2>5, <3>1
      <3>3. ASSUME NEW m \in i .. to + 1 PROVE text[m] \notin stops
        <4>1. m = to + 1 \/ m \in i .. to
          BY <2>5
        <4> QED BY <2>5, <3>1, <4>1
      <3>4. to + 1 \in T
        BY <3>2, <3>3
      <3>5. to >= to + 1
        BY <2>2, <3>4 DEF to
      <3> QED BY <2>5, <3>5
    <2>4. EndsAt(text, i, stops, to)
      BY <2>3, <2>5 DEF EndsAt
    <2> QED BY <2>4
  <1> QED BY <1>1, <1>2

\* A text in another, from the place after k.
Within(text, k, part) ==
  /\ k \in Nat /\ k + Len(part) <= Len(text)
  /\ \A i \in 1 .. Len(part) : text[k + i] = part[i]

LEMMA SubSeqWithin ==
  ASSUME NEW S, NEW text \in Seq(S), NEW part \in Seq(S), NEW k \in Nat, Within(text, k, part),
         NEW a \in Nat \ {0}, NEW b \in Nat, b <= Len(part)
  PROVE  SubSeq(text, k + a, k + b) = SubSeq(part, a, b)
  <1>1. k \in Nat /\ Len(part) \in Nat /\ Len(text) \in Nat
    BY DEF Within
  <1>2. \A i \in a .. b : part[i] \in S
    BY <1>1
  <1>3. \A i \in k + a .. k + b : text[i] \in S
    BY <1>1 DEF Within
  <1>4. /\ SubSeq(part, a, b) \in Seq(S)
        /\ Len(SubSeq(part, a, b)) = IF a <= b THEN b - a + 1 ELSE 0
        /\ \A i \in 1 .. b - a + 1 : SubSeq(part, a, b)[i] = part[a + i - 1]
    BY <1>2, SubSeqProperties
  <1>5. /\ SubSeq(text, k + a, k + b) \in Seq(S)
        /\ Len(SubSeq(text, k + a, k + b)) =
             IF k + a <= k + b THEN (k + b) - (k + a) + 1 ELSE 0
        /\ \A i \in 1 .. (k + b) - (k + a) + 1 :
             SubSeq(text, k + a, k + b)[i] = text[(k + a) + i - 1]
    BY <1>1, <1>3, SubSeqProperties
  <1> DEFINE p == SubSeq(part, a, b)
             t == SubSeq(text, k + a, k + b)
  <1>6. Len(p) = Len(t) /\ p \in Seq(S) /\ t \in Seq(S)
    BY <1>1, <1>4, <1>5
  <1>7. ASSUME NEW i \in 1 .. Len(t) PROVE t[i] = p[i]
    <2>1. i \in 1 .. b - a + 1 /\ i \in 1 .. (k + b) - (k + a) + 1
      BY <1>1, <1>5
    <2>2. t[i] = text[(k + a) + i - 1] /\ p[i] = part[a + i - 1]
      BY <1>4, <1>5, <2>1
    <2>3. a + i - 1 \in 1 .. Len(part) /\ k + (a + i - 1) = (k + a) + i - 1
      BY <1>1, <2>1
    <2> QED BY <2>2, <2>3 DEF Within
  <1> HIDE DEF p, t
  <1>8. t = p
    BY <1>6, <1>7, SeqEqual
  <1> QED BY <1>8 DEF p, t

\* Runs do not look past a stop.
LEMMA RunsWithin ==
  ASSUME NEW S, NEW text \in Seq(S), NEW part \in Seq(S), NEW k, Within(text, k, part),
         NEW stops, NEW i \in 1 .. Len(part) + 1
  PROVE  /\ k = 0 \/ text[k] \in stops =>
              RunBefore(text, k + i, stops) = RunBefore(part, i, stops)
         /\ k + Len(part) = Len(text) \/ text[k + Len(part) + 1] \in stops =>
              RunFrom(text, k + i, stops) = RunFrom(part, i, stops)
  <1>1. k \in Nat /\ Len(part) \in Nat /\ Len(text) \in Nat /\ k + Len(part) <= Len(text)
        /\ i \in Nat \ {0} /\ k + i \in Nat \ {0}
    BY DEF Within
  <1>2. ASSUME k = 0 \/ text[k] \in stops
        PROVE  RunBefore(text, k + i, stops) = RunBefore(part, i, stops)
    <2>1. PICK from : BeginsAt(part, i, stops, from)
      BY <1>1, RunsEnd
    <2>2. from \in 1 .. i /\ from \in Nat \ {0} /\ i - 1 \in Nat /\ i - 1 <= Len(part)
      BY <1>1, <2>1 DEF BeginsAt
    <2>3. BeginsAt(text, k + i, stops, k + from)
      <3>1. k + from \in 1 .. k + i
        BY <1>1, <2>2
      <3>2. ASSUME NEW m \in k + from .. (k + i) - 1 PROVE text[m] \notin stops
        <4>1. m - k \in from .. i - 1 /\ m - k \in 1 .. Len(part) /\ k + (m - k) = m
          BY <1>1, <2>2
        <4>2. text[m] = part[m - k]
          BY <4>1 DEF Within
        <4> QED BY <2>1, <4>1, <4>2 DEF BeginsAt
      <3>3. k + from = 1 \/ text[(k + from) - 1] \in stops
        <4>1. CASE from = 1
          <5>1. (k + from) - 1 = k
            BY <1>1, <4>1
          <5> QED BY <1>1, <1>2, <4>1, <5>1
        <4>2. CASE from # 1
          <5>1. from - 1 \in 1 .. Len(part) /\ k + (from - 1) = (k + from) - 1
            BY <1>1, <2>2, <4>2
          <5>2. text[(k + from) - 1] = part[from - 1]
            BY <5>1 DEF Within
          <5> QED BY <2>1, <4>2, <5>2 DEF BeginsAt
        <4> QED BY <4>1, <4>2
      <3> QED BY <3>1, <3>2, <3>3 DEF BeginsAt
    <2>4. RunBefore(text, k + i, stops) = SubSeq(text, k + from, (k + i) - 1)
      BY <1>1, <2>3, RunBeforeIs
    <2>5. RunBefore(part, i, stops) = SubSeq(part, from, i - 1)
      BY <1>1, <2>1, RunBeforeIs
    <2>6. SubSeq(text, k + from, k + (i - 1)) = SubSeq(part, from, i - 1)
      <3> DEFINE b == i - 1
      <3>1. from \in Nat \ {0} /\ b \in Nat /\ b <= Len(part)
        BY <2>2
      <3> HIDE DEF b
      <3>2. SubSeq(text, k + from, k + b) = SubSeq(part, from, b)
        BY <1>1, <3>1, SubSeqWithin
      <3> QED BY <3>2 DEF b
    <2>7. k + (i - 1) = (k + i) - 1
      BY <1>1
    <2> QED BY <2>4, <2>5, <2>6, <2>7
  <1>3. ASSUME k + Len(part) = Len(text) \/ text[k + Len(part) + 1] \in stops
        PROVE  RunFrom(text, k + i, stops) = RunFrom(part, i, stops)
    <2>1. PICK to : EndsAt(part, i, stops, to)
      BY <1>1, RunsEnd
    <2>2. to \in i - 1 .. Len(part) /\ to \in Nat /\ to <= Len(part)
      BY <1>1, <2>1 DEF EndsAt
    <2>3. EndsAt(text, k + i, stops, k + to)
      <3>1. k + to \in (k + i) - 1 .. Len(text)
        BY <1>1, <2>2
      <3>2. ASSUME NEW m \in k + i .. k + to PROVE text[m] \notin stops
        <4>1. m - k \in i .. to /\ m - k \in 1 .. Len(part) /\ k + (m - k) = m
          BY <1>1, <2>2
        <4>2. text[m] = part[m - k]
          BY <4>1 DEF Within
        <4> QED BY <2>1, <4>1, <4>2 DEF EndsAt
      <3>3. k + to = Len(text) \/ text[(k + to) + 1] \in stops
        <4>1. CASE to = Len(part)
          BY <1>1, <1>3, <4>1
        <4>2. CASE to # Len(part)
          <5>1. to + 1 \in 1 .. Len(part) /\ k + (to + 1) = (k + to) + 1
            BY <1>1, <2>2, <4>2
          <5>2. text[(k + to) + 1] = part[to + 1]
            BY <5>1 DEF Within
          <5> QED BY <2>1, <4>2, <5>2 DEF EndsAt
        <4> QED BY <4>1, <4>2
      <3> QED BY <3>1, <3>2, <3>3 DEF EndsAt
    <2>4. RunFrom(text, k + i, stops) = SubSeq(text, k + i, k + to)
      BY <1>1, <2>3, RunFromIs
    <2>5. RunFrom(part, i, stops) = SubSeq(part, i, to)
      BY <1>1, <2>1, RunFromIs
    <2>6. SubSeq(text, k + i, k + to) = SubSeq(part, i, to)
      <3>1. i \in Nat \ {0} /\ to \in Nat /\ to <= Len(part)
        BY <1>1, <2>2
      <3>2. k \in Nat /\ text \in Seq(S) /\ part \in Seq(S) /\ Within(text, k, part)
        BY <1>1
      <3> QED BY ONLY <3>1, <3>2, SubSeqWithin
    <2> QED BY <2>4, <2>5, <2>6
  <1> QED BY <1>2, <1>3

\* Texts with their stops in the same places have their runs in the same places.
StopAlike(a, b, stops) ==
  /\ Len(a) \in Nat /\ Len(b) = Len(a)
  /\ \A m \in 1 .. Len(a) : a[m] \in stops <=> b[m] \in stops

RunsAlike(a, b, stops, i) ==
  \E from \in 1 .. i, to \in i - 1 .. Len(a) :
    /\ BeginsAt(a, i, stops, from) /\ EndsAt(a, i, stops, to)
    /\ RunBefore(a, i, stops) = SubSeq(a, from, i - 1)
    /\ RunBefore(b, i, stops) = SubSeq(b, from, i - 1)
    /\ RunFrom(a, i, stops) = SubSeq(a, i, to)
    /\ RunFrom(b, i, stops) = SubSeq(b, i, to)

LEMMA SameRuns ==
  ASSUME NEW a, NEW b, NEW stops, StopAlike(a, b, stops), NEW i \in 1 .. Len(a) + 1
  PROVE  RunsAlike(a, b, stops, i)
  <1>0. /\ Len(a) \in Nat /\ Len(b) = Len(a)
        /\ \A m \in 1 .. Len(a) : a[m] \in stops <=> b[m] \in stops
    BY DEF StopAlike
  <1>1. PICK from : BeginsAt(a, i, stops, from)
    BY <1>0, RunsEnd
  <1>2. PICK to : EndsAt(a, i, stops, to)
    BY <1>0, RunsEnd
  <1>3. i \in Nat \ {0} /\ from \in 1 .. i /\ to \in i - 1 .. Len(a)
    BY <1>0, <1>1, <1>2 DEF BeginsAt, EndsAt
  <1>4. BeginsAt(b, i, stops, from)
    <2>1. \A m \in from .. i - 1 : m \in 1 .. Len(a)
      BY <1>0, <1>3
    <2>2. from # 1 => from - 1 \in 1 .. Len(a)
      BY <1>0, <1>3
    <2> QED BY <1>0, <1>1, <1>3, <2>1, <2>2 DEF BeginsAt
  <1>5. EndsAt(b, i, stops, to)
    <2>1. \A m \in i .. to : m \in 1 .. Len(a)
      BY <1>0, <1>3
    <2>2. to # Len(a) => to + 1 \in 1 .. Len(a)
      BY <1>0, <1>3
    <2> QED BY <1>0, <1>2, <1>3, <2>1, <2>2 DEF EndsAt
  <1>6. /\ RunBefore(a, i, stops) = SubSeq(a, from, i - 1)
        /\ RunBefore(b, i, stops) = SubSeq(b, from, i - 1)
    BY <1>1, <1>3, <1>4, RunBeforeIs
  <1>7. /\ RunFrom(a, i, stops) = SubSeq(a, i, to)
        /\ RunFrom(b, i, stops) = SubSeq(b, i, to)
    BY <1>0, <1>2, <1>3, <1>5, RunFromIs
  <1> QED BY <1>1, <1>2, <1>3, <1>6, <1>7 DEF RunsAlike

-----------------------------------------------------------------------------
(* A text that a stop cuts in two is repaired part by part *)

Signs == STRING \cup Marks \cup {"fi", "ff"}

Texts == Seq(Signs)

LEMMA SignFacts ==
  /\ Marks \subseteq Signs /\ "fi" \in Signs /\ "ff" \in Signs /\ STRING \subseteq Signs
  /\ Stops \subseteq Marks /\ Ligatures \subseteq Marks /\ Ligatures \cap Stops = {}
  /\ "fi" \notin Marks /\ "ff" \notin Marks /\ "fi" # "ff"
  /\ Ligatures = {"FI", "E0"} /\ "FI" # "E0"
  /\ {" ", "break", "hyphen", "comma"} \subseteq Stops
  /\ " " # "break" /\ " " # "hyphen" /\ " " # "comma" /\ "break" # "hyphen"
  /\ "break" # "comma" /\ "hyphen" # "comma"
  BY DEF Signs, Marks, Stops, White, Ligatures

LEMMA ShortSeqs ==
  ASSUME NEW Q, NEW x \in Q, NEW y \in Q
  PROVE  <<x>> \in Seq(Q) /\ <<x, y>> \in Seq(Q) /\ <<x, y>> = <<x>> \o <<y>>
  <1> DEFINE a == <<x>>
             b == <<y>>
             c == <<x, y>>
             d == a \o b
  <1>1. /\ a \in Seq(Q) /\ b \in Seq(Q) /\ c \in Seq(Q)
        /\ Len(a) = 1 /\ Len(b) = 1 /\ Len(c) = 2
        /\ a[1] = x /\ b[1] = y /\ c[1] = x /\ c[2] = y
    OBVIOUS
  <1> HIDE DEF a, b, c
  <1>2. /\ d \in Seq(Q) /\ Len(d) = Len(a) + Len(b)
        /\ \A i \in 1 .. Len(a) + Len(b) : d[i] = IF i <= Len(a) THEN a[i] ELSE b[i - Len(a)]
    BY <1>1, ConcatProperties
  <1> HIDE DEF d
  <1>3. Len(d) = 2 /\ d[1] = x /\ d[2] = y
    <2>1. /\ \A i \in 1 .. 2 : d[i] = IF i <= 1 THEN a[i] ELSE b[i - 1]
          /\ Len(d) = 2
      BY <1>1, <1>2
    <2> QED BY <1>1, <2>1
  <1>4. \A i \in 1 .. Len(c) : c[i] = d[i]
    <2>1. \A i \in 1 .. 2 : i = 1 \/ i = 2
      OBVIOUS
    <2> QED BY <1>1, <1>3, <2>1
  <1>5. Len(c) = Len(d)
    BY <1>1, <1>3
  <1>6. c = d
    BY <1>1, <1>2, <1>4, <1>5, SeqEqual
  <1> QED BY <1>1, <1>6 DEF a, b, c, d

Cut(u, c, v) == (u \o <<c>>) \o v

\* w is u, c and v in a row.
IsCut(w, u, c, v) ==
  /\ Len(u) \in Nat /\ Len(v) \in Nat /\ Len(w) = Len(u) + 1 + Len(v)
  /\ \A i \in 1 .. Len(u) : w[i] = u[i]
  /\ w[Len(u) + 1] = c
  /\ \A i \in 1 .. Len(v) : w[Len(u) + 1 + i] = v[i]

LEMMA CutFacts ==
  ASSUME NEW Q, NEW u \in Seq(Q), NEW v \in Seq(Q), NEW c \in Q
  PROVE  Cut(u, c, v) \in Seq(Q) /\ IsCut(Cut(u, c, v), u, c, v)
  BY DEF Cut, IsCut

LEMMA CutIs ==
  ASSUME NEW Q, NEW u \in Seq(Q), NEW v \in Seq(Q), NEW c \in Q, NEW w \in Seq(Q),
         IsCut(w, u, c, v)
  PROVE  w = Cut(u, c, v)
  <1> DEFINE x == Cut(u, c, v)
  <1>1. x \in Seq(Q) /\ IsCut(x, u, c, v)
    BY CutFacts
  <1> HIDE DEF x
  <1>2. ASSUME NEW i \in 1 .. Len(w) PROVE w[i] = x[i]
    <2>1. CASE i \in 1 .. Len(u)
      BY <1>1, <2>1 DEF IsCut
    <2>2. CASE i = Len(u) + 1
      BY <1>1, <2>2 DEF IsCut
    <2>3. CASE i - (Len(u) + 1) \in 1 .. Len(v)
      <3>1. Len(u) + 1 + (i - (Len(u) + 1)) = i
        BY <1>1 DEF IsCut
      <3>2. w[Len(u) + 1 + (i - (Len(u) + 1))] = x[Len(u) + 1 + (i - (Len(u) + 1))]
        BY <1>1, <2>3 DEF IsCut
      <3> QED BY <3>1, <3>2
    <2>4. i \in 1 .. Len(u) \/ i = Len(u) + 1 \/ i - (Len(u) + 1) \in 1 .. Len(v)
      BY <1>1 DEF IsCut
    <2> QED BY <2>1, <2>2, <2>3, <2>4
  <1>3. Len(w) = Len(x)
    BY <1>1 DEF IsCut
  <1>4. w = x
    BY <1>1, <1>2, <1>3, SeqEqual
  <1> QED BY <1>4 DEF x

LEMMA CutWithin ==
  ASSUME NEW w, NEW u, NEW c, NEW v, IsCut(w, u, c, v)
  PROVE  Within(w, 0, u) /\ Within(w, Len(u) + 1, v)
  BY DEF IsCut, Within

LEMMA RunsApart ==
  ASSUME NEW Q, NEW u \in Seq(Q), NEW v \in Seq(Q), NEW w \in Seq(Q), NEW stops,
         NEW c \in stops, IsCut(w, u, c, v)
  PROVE  /\ \A i \in 1 .. Len(u) + 1 :
              /\ RunBefore(w, i, stops) = RunBefore(u, i, stops)
              /\ RunFrom(w, i, stops) = RunFrom(u, i, stops)
         /\ \A i \in 1 .. Len(v) + 1 :
              /\ RunBefore(w, Len(u) + 1 + i, stops) = RunBefore(v, i, stops)
              /\ RunFrom(w, Len(u) + 1 + i, stops) = RunFrom(v, i, stops)
  <1>1. /\ Len(w) = Len(u) + 1 + Len(v) /\ w[Len(u) + 1] \in stops
        /\ Len(u) \in Nat /\ Len(v) \in Nat
    BY DEF IsCut
  <1>2. Within(w, 0, u) /\ Within(w, Len(u) + 1, v)
    BY CutWithin
  <1>3. ASSUME NEW i \in 1 .. Len(u) + 1
        PROVE  /\ RunBefore(w, i, stops) = RunBefore(u, i, stops)
               /\ RunFrom(w, i, stops) = RunFrom(u, i, stops)
    <2>1. w[0 + Len(u) + 1] \in stops
      BY <1>1
    <2>2. /\ RunBefore(w, 0 + i, stops) = RunBefore(u, i, stops)
          /\ RunFrom(w, 0 + i, stops) = RunFrom(u, i, stops)
      BY <1>1, <1>2, <2>1, RunsWithin
    <2>3. 0 + i = i
      BY <1>1
    <2> QED BY <2>2, <2>3
  <1>4. ASSUME NEW i \in 1 .. Len(v) + 1
        PROVE  /\ RunBefore(w, Len(u) + 1 + i, stops) = RunBefore(v, i, stops)
               /\ RunFrom(w, Len(u) + 1 + i, stops) = RunFrom(v, i, stops)
    <2> DEFINE k == Len(u) + 1
    <2>1. k + Len(v) = Len(w) /\ w[k] \in stops /\ Within(w, k, v)
      BY <1>1, <1>2
    <2> HIDE DEF k
    <2>2. RunBefore(w, k + i, stops) = RunBefore(v, i, stops)
      BY <2>1, RunsWithin
    <2>3. RunFrom(w, k + i, stops) = RunFrom(v, i, stops)
      BY <2>1, RunsWithin
    <2> QED BY <2>2, <2>3 DEF k
  <1> QED BY <1>3, <1>4

LEMMA DroppedApart ==
  ASSUME NEW u \in Texts, NEW v \in Texts, NEW w \in Texts, NEW c \in Stops, IsCut(w, u, c, v)
  PROVE  /\ \A i \in 1 .. Len(u) : SpaceDropped(w, i) <=> SpaceDropped(u, i)
         /\ ~SpaceDropped(w, Len(u) + 1)
         /\ \A i \in 1 .. Len(v) :
              SpaceDropped(w, Len(u) + 1 + i) <=>
                SpaceDropped(v, i) \/ (i = 1 /\ c = "comma" /\ v[1] \in Ligatures)
  <1>0. /\ c \in Signs /\ c \in Marks /\ c \notin Ligatures
        /\ u \in Seq(Signs) /\ v \in Seq(Signs) /\ w \in Seq(Signs)
    BY SignFacts DEF Texts
  <1>1. /\ \A i \in 1 .. Len(u) : w[i] = u[i]
        /\ w[Len(u) + 1] = c
        /\ \A i \in 1 .. Len(v) : w[Len(u) + 1 + i] = v[i]
        /\ Len(u) \in Nat /\ Len(v) \in Nat
    BY DEF IsCut
  <1>2. /\ \A i \in 1 .. Len(u) + 1 :
             /\ RunBefore(w, i, Stops) = RunBefore(u, i, Stops)
             /\ RunFrom(w, i, Stops) = RunFrom(u, i, Stops)
        /\ \A i \in 1 .. Len(v) + 1 :
             /\ RunBefore(w, Len(u) + 1 + i, Stops) = RunBefore(v, i, Stops)
             /\ RunFrom(w, Len(u) + 1 + i, Stops) = RunFrom(v, i, Stops)
    BY <1>0, RunsApart
  <1>3. ASSUME NEW i \in 1 .. Len(u) PROVE SpaceDropped(w, i) <=> SpaceDropped(u, i)
    <2>1. i \in 1 .. Len(u) + 1 /\ w[i] = u[i]
      BY <1>1
    <2>2. i > 1 => w[i - 1] = u[i - 1]
      <3>1. i > 1 => i - 1 \in 1 .. Len(u)
        BY <1>1
      <3> QED BY <1>1, <3>1
    <2>3. /\ RunBefore(w, i, Stops) = RunBefore(u, i, Stops)
          /\ RunFrom(w, i, Stops) = RunFrom(u, i, Stops)
      BY <1>2, <2>1
    <2> QED BY <2>1, <2>2, <2>3 DEF SpaceDropped
  <1>4. ~SpaceDropped(w, Len(u) + 1)
    BY <1>0, <1>1 DEF SpaceDropped
  <1>5. ASSUME NEW i \in 1 .. Len(v)
        PROVE  SpaceDropped(w, Len(u) + 1 + i) <=>
                 SpaceDropped(v, i) \/ (i = 1 /\ c = "comma" /\ v[1] \in Ligatures)
    <2> DEFINE j == Len(u) + 1 + i
    <2>1. i \in 1 .. Len(v) + 1 /\ w[j] = v[i] /\ j > 1
      BY <1>1
    <2>3. /\ RunBefore(w, j, Stops) = RunBefore(v, i, Stops)
          /\ RunFrom(w, j, Stops) = RunFrom(v, i, Stops)
      BY <1>2, <2>1
    <2>4. i = 1 => j - 1 = Len(u) + 1
      BY <1>1
    <2>5. i # 1 => i > 1 /\ w[j - 1] = v[i - 1]
      <3>1. i # 1 => i > 1 /\ i - 1 \in 1 .. Len(v) /\ j - 1 = Len(u) + 1 + (i - 1)
        BY <1>1
      <3> QED BY <1>1, <3>1
    <2>8. j = Len(u) + 1 + i
      OBVIOUS
    <2> HIDE DEF j
    <2>6. CASE i = 1
      <3>1. w[j - 1] = c /\ ~(i > 1)
        BY <1>1, <2>4, <2>6
      <3>2. ~SpaceDropped(v, i)
        BY <3>1 DEF SpaceDropped
      <3>3. ~IsLetters(w[j - 1])
        BY <1>0, <3>1 DEF IsLetters
      <3>4. SpaceDropped(w, j) <=> w[j] \in Ligatures /\ c = "comma"
        BY <2>1, <3>1, <3>3 DEF SpaceDropped
      <3> QED BY <2>1, <2>6, <3>2, <3>4 DEF j
    <2>7. CASE i # 1
      <3>1. SpaceDropped(w, j) <=> SpaceDropped(v, i)
        BY <2>1, <2>3, <2>5, <2>7 DEF SpaceDropped
      <3> QED BY <2>7, <2>8, <3>1, Zenon
    <2> QED BY <2>6, <2>7
  <1> QED BY <1>3, <1>4, <1>5

Spacing(text) ==
  [i \in DOMAIN text |-> IF SpaceDropped(text, i) THEN <<" ", text[i]>> ELSE <<text[i]>>]

LEMMA SpacingFacts ==
  ASSUME NEW text \in Texts
  PROVE  /\ Spacing(text) \in Seq(Texts) /\ Len(Spacing(text)) = Len(text)
         /\ \A i \in 1 .. Len(text) :
              Spacing(text)[i] = IF SpaceDropped(text, i) THEN <<" ", text[i]>> ELSE <<text[i]>>
         /\ RepairLigatureSpaces(text) = FlattenSeq(Spacing(text))
         /\ RepairLigatureSpaces(text) \in Texts
         /\ Len(text) \in Nat
  <1>1. Len(text) \in Nat /\ DOMAIN text = 1 .. Len(text) /\ \A i \in 1 .. Len(text) : text[i] \in Signs
    BY DEF Texts
  <1>2. " " \in Signs
    BY SignFacts
  <1>3. ASSUME NEW i \in 1 .. Len(text)
        PROVE  <<text[i]>> \in Texts /\ <<" ", text[i]>> \in Texts
    BY <1>1, <1>2, ShortSeqs DEF Texts
  <1>4. Spacing(text) \in [1 .. Len(text) -> Texts]
    BY <1>1, <1>3 DEF Spacing
  <1>5. Spacing(text) \in Seq(Texts) /\ Len(Spacing(text)) = Len(text)
    BY <1>1, <1>4, SeqOfFunction
  <1>6. RepairLigatureSpaces(text) = FlattenSeq(Spacing(text))
    BY DEF RepairLigatureSpaces, Insert, Spacing
  <1>7. FlattenSeq(Spacing(text)) \in Texts
    BY <1>5, FlattenType DEF Texts
  <1> QED BY <1>1, <1>5, <1>6, <1>7 DEF Spacing

LEMMA FlattenCut ==
  ASSUME NEW S, NEW a \in Seq(Seq(S)), NEW x \in Seq(S), NEW b \in Seq(Seq(S))
  PROVE  FlattenSeq(Cut(a, x, b)) = (FlattenSeq(a) \o x) \o FlattenSeq(b)
  <1>1. <<x>> \in Seq(Seq(S)) /\ a \o <<x>> \in Seq(Seq(S))
    OBVIOUS
  <1>2. FlattenSeq((a \o <<x>>) \o b) = FlattenSeq(a \o <<x>>) \o FlattenSeq(b)
    BY <1>1, FlattenConcat
  <1>3. FlattenSeq(a \o <<x>>) = FlattenSeq(a) \o FlattenSeq(<<x>>)
    BY <1>1, FlattenConcat
  <1> QED BY <1>2, <1>3, FlattenOne DEF Cut

\* Two parts of a line have their spaces restored each for itself.
LEMMA SpacesApart ==
  ASSUME NEW u \in Texts, NEW v \in Texts, NEW c \in Stops,
         ~(c = "comma" /\ v # <<>> /\ v[1] \in Ligatures)
  PROVE  RepairLigatureSpaces(Cut(u, c, v)) =
           Cut(RepairLigatureSpaces(u), c, RepairLigatureSpaces(v))
  <1> DEFINE w == Cut(u, c, v)
             x == Spacing(u)
             y == Spacing(v)
             z == Spacing(w)
  <1>0. c \in Signs /\ <<c>> \in Texts
    BY SignFacts, ShortSeqs DEF Texts
  <1>1. w \in Texts /\ IsCut(w, u, c, v)
    BY <1>0, CutFacts DEF Texts
  <1> HIDE DEF w
  <1>2. /\ \A i \in 1 .. Len(u) : SpaceDropped(w, i) <=> SpaceDropped(u, i)
        /\ ~SpaceDropped(w, Len(u) + 1)
        /\ \A i \in 1 .. Len(v) : SpaceDropped(w, Len(u) + 1 + i) <=> SpaceDropped(v, i)
    <2>1. \A i \in 1 .. Len(v) : ~(i = 1 /\ c = "comma" /\ v[1] \in Ligatures)
      <3>1. v = <<>> => Len(v) = 0
        BY EmptySeq
      <3> QED BY <3>1
    <2>2. \A i \in 1 .. Len(v) :
            SpaceDropped(w, Len(u) + 1 + i) <=>
              SpaceDropped(v, i) \/ (i = 1 /\ c = "comma" /\ v[1] \in Ligatures)
      BY <1>1, DroppedApart
    <2>3. /\ \A i \in 1 .. Len(u) : SpaceDropped(w, i) <=> SpaceDropped(u, i)
          /\ ~SpaceDropped(w, Len(u) + 1)
      BY <1>1, DroppedApart
    <2>4. ASSUME NEW i \in 1 .. Len(v)
          PROVE  SpaceDropped(w, Len(u) + 1 + i) <=> SpaceDropped(v, i)
      BY <2>1, <2>2, Zenon
    <2> QED BY <2>3, <2>4
  <1>3. /\ x \in Seq(Texts) /\ Len(x) = Len(u)
        /\ \A i \in 1 .. Len(u) :
             x[i] = IF SpaceDropped(u, i) THEN <<" ", u[i]>> ELSE <<u[i]>>
    BY SpacingFacts
  <1>4. /\ y \in Seq(Texts) /\ Len(y) = Len(v)
        /\ \A i \in 1 .. Len(v) :
             y[i] = IF SpaceDropped(v, i) THEN <<" ", v[i]>> ELSE <<v[i]>>
    BY SpacingFacts
  <1>5. /\ z \in Seq(Texts) /\ Len(z) = Len(w)
        /\ \A i \in 1 .. Len(w) :
             z[i] = IF SpaceDropped(w, i) THEN <<" ", w[i]>> ELSE <<w[i]>>
    BY <1>1, SpacingFacts
  <1> HIDE DEF x, y, z
  <1>6. z = Cut(x, <<c>>, y)
    <2>1. IsCut(z, x, <<c>>, y)
      <3>0. /\ Len(u) \in Nat /\ Len(v) \in Nat /\ Len(w) = Len(u) + 1 + Len(v)
            /\ \A i \in 1 .. Len(u) : i \in 1 .. Len(w) /\ w[i] = u[i]
            /\ Len(u) + 1 \in 1 .. Len(w) /\ w[Len(u) + 1] = c
            /\ \A i \in 1 .. Len(v) : Len(u) + 1 + i \in 1 .. Len(w) /\ w[Len(u) + 1 + i] = v[i]
        BY <1>1 DEF IsCut
      <3>1. \A i \in 1 .. Len(u) : z[i] = x[i]
        <4> TAKE i \in 1 .. Len(u)
        <4>1. i \in 1 .. Len(w) /\ w[i] = u[i] /\ (SpaceDropped(w, i) <=> SpaceDropped(u, i))
          BY <1>2, <3>0
        <4>2. z[i] = IF SpaceDropped(w, i) THEN <<" ", w[i]>> ELSE <<w[i]>>
          BY <1>5, <4>1
        <4>3. x[i] = IF SpaceDropped(u, i) THEN <<" ", u[i]>> ELSE <<u[i]>>
          BY <1>3
        <4> QED BY <4>1, <4>2, <4>3, Zenon
      <3>2. z[Len(u) + 1] = <<c>>
        BY <1>2, <1>5, <3>0
      <3>3. \A i \in 1 .. Len(v) : z[Len(u) + 1 + i] = y[i]
        <4> TAKE i \in 1 .. Len(v)
        <4> DEFINE j == Len(u) + 1 + i
        <4>1. j \in 1 .. Len(w) /\ w[j] = v[i] /\ (SpaceDropped(w, j) <=> SpaceDropped(v, i))
          BY <1>2, <3>0
        <4> HIDE DEF j
        <4>2. z[j] = IF SpaceDropped(w, j) THEN <<" ", w[j]>> ELSE <<w[j]>>
          BY <1>5, <4>1
        <4>3. y[i] = IF SpaceDropped(v, i) THEN <<" ", v[i]>> ELSE <<v[i]>>
          BY <1>4
        <4>4. z[j] = y[i]
          BY <4>1, <4>2, <4>3, Zenon
        <4> QED BY <4>4 DEF j
      <3> QED BY <1>3, <1>4, <1>5, <3>0, <3>1, <3>2, <3>3 DEF IsCut
    <2> QED BY <1>0, <1>3, <1>4, <1>5, <2>1, CutIs
  <1>7. FlattenSeq(z) = (FlattenSeq(x) \o <<c>>) \o FlattenSeq(y)
    <2>1. /\ x \in Seq(Seq(Signs)) /\ y \in Seq(Seq(Signs)) /\ <<c>> \in Seq(Signs)
      BY <1>0, <1>3, <1>4 DEF Texts
    <2> DEFINE s == <<c>>
    <2> HIDE DEF s
    <2>2. FlattenSeq(Cut(x, s, y)) = (FlattenSeq(x) \o s) \o FlattenSeq(y)
      <3>1. s \in Seq(Signs)
        BY <2>1 DEF s
      <3> QED BY <2>1, <3>1, FlattenCut
    <2> QED BY <1>6, <2>2 DEF s
  <1>8. /\ RepairLigatureSpaces(u) = FlattenSeq(x) /\ RepairLigatureSpaces(v) = FlattenSeq(y)
        /\ RepairLigatureSpaces(w) = FlattenSeq(z)
    BY <1>1, SpacingFacts DEF x, y, z
  <1> QED BY <1>7, <1>8 DEF Cut, w

FlattensApart(a, x, b) == FlattenSeq(Cut(a, x, b)) = (FlattenSeq(a) \o x) \o FlattenSeq(b)

LEMMA FlattenApart ==
  ASSUME NEW S, NEW a \in Seq(Seq(S)), NEW x \in Seq(S), NEW b \in Seq(Seq(S))
  PROVE  FlattensApart(a, x, b)
  BY FlattenCut DEF FlattensApart

FlattensSplit(x, s, b, rest) ==
  FlattenSeq(Cut(x, s \o b, rest)) = (FlattenSeq(x) \o s) \o FlattenSeq(Cut(<<>>, b, rest))

LEMMA FlattenSplit ==
  ASSUME NEW S, NEW x \in Seq(Seq(S)), NEW rest \in Seq(Seq(S)), NEW s \in Seq(S), NEW b \in Seq(S)
  PROVE  FlattensSplit(x, s, b, rest)
  <1> DEFINE fx == FlattenSeq(x)
             fr == FlattenSeq(rest)
             e  == <<>>
             a  == s \o b
  <1>1. e \in Seq(Seq(S)) /\ FlattenSeq(e) = <<>> /\ e \in Seq(S)
    BY EmptySeq, FlattenNone
  <1>2. fx \in Seq(S) /\ fr \in Seq(S)
    BY FlattenType
  <1>3. a \in Seq(S)
    BY Associate
  <1>4. e \o b = b
    BY ConcatEmptySeq
  <1> HIDE DEF e, a, fx, fr
  <1>5. FlattensApart(e, b, rest) /\ FlattensApart(x, a, rest)
    BY <1>1, <1>3, FlattenApart
  <1>6. FlattenSeq(Cut(e, b, rest)) = b \o fr /\ FlattenSeq(Cut(x, a, rest)) = (fx \o a) \o fr
    BY <1>1, <1>4, <1>5 DEF FlattensApart, e, fx, fr
  <1>7. fx \o s \in Seq(S)
    BY <1>2, Associate
  <1>8. Associates(fx, s, b) /\ Associates(fx \o s, b, fr)
    BY <1>2, <1>7, Associate
  <1> QED BY <1>6, <1>8 DEF Associates, FlattensSplit, a, e, fx

\* A text with a space restored at n.
LEMMA SpaceRestored ==
  ASSUME NEW w \in Texts, NEW n \in 1 .. Len(w), SpaceDropped(w, n),
         NEW x \in Seq(Texts), NEW y \in Seq(Texts),
         Len(x) = n - 1, Len(y) = Len(w) - n + 1, y[1] = <<w[n]>>,
         \A i \in 1 .. Len(x) : x[i] = Spacing(w)[i],
         \A i \in 2 .. Len(y) : y[i] = Spacing(w)[n - 1 + i]
  PROVE  RepairLigatureSpaces(w) = Cut(FlattenSeq(x), " ", FlattenSeq(y))
  <1> DEFINE z == Spacing(w)
             rest == SubSeq(y, 2, Len(y))
             a == <<" ", w[n]>>
             b == <<w[n]>>
  <1>1. /\ z \in Seq(Texts) /\ Len(z) = Len(w) /\ Len(w) \in Nat
        /\ \A i \in 1 .. Len(w) :
             z[i] = IF SpaceDropped(w, i) THEN <<" ", w[i]>> ELSE <<w[i]>>
        /\ RepairLigatureSpaces(w) = FlattenSeq(z)
    BY SpacingFacts
  <1>0. Len(w) \in Nat /\ n \in Nat /\ Len(y) \in Nat /\ 1 <= Len(y) /\ Len(x) \in Nat
    <2>1. Len(w) \in Nat
      BY DEF Texts
    <2> QED BY <2>1
  <1>2. w[n] \in Signs /\ " " \in Signs
    <2>1. w[n] \in Signs
      BY DEF Texts
    <2> QED BY <2>1, SignFacts
  <1>3. a \in Texts /\ b \in Texts
    BY <1>2, ShortSeqs DEF Texts
  <1>4. rest \in Seq(Texts) /\ Len(rest) = Len(y) - 1
        /\ \A i \in 1 .. Len(rest) : rest[i] = y[1 + i]
    <2>1. \A i \in 2 .. Len(y) : y[i] \in Texts
      OBVIOUS
    <2>2. /\ rest \in Seq(Texts) /\ Len(rest) = IF 2 <= Len(y) THEN Len(y) - 2 + 1 ELSE 0
          /\ \A i \in 1 .. Len(y) - 2 + 1 : rest[i] = y[2 + i - 1]
      BY <2>1, SubSeqProperties
    <2>3. Len(rest) = Len(y) - 1
      BY <1>0, <2>2
    <2>4. \A i \in 1 .. Len(rest) : i \in 1 .. Len(y) - 2 + 1 /\ 2 + i - 1 = 1 + i
      BY <2>3
    <2> QED BY <2>2, <2>3, <2>4
  <1>5. z[n] = a /\ y[1] = b
    BY <1>1
  <1>6. \A i \in 1 .. Len(x) : x[i] = z[i]
    OBVIOUS
  <1>7. \A i \in 1 .. Len(rest) : rest[i] = z[n + i]
    <2> TAKE i \in 1 .. Len(rest)
    <2>1. 1 + i \in 2 .. Len(y) /\ n - 1 + (1 + i) = n + i
      BY <1>4
    <2> QED BY <1>4, <2>1
  <1> HIDE DEF z, rest, a, b
  <1>8. z = Cut(x, a, rest)
    <2>1. IsCut(z, x, a, rest)
      <3>1. Len(x) + 1 = n /\ Len(z) = Len(x) + 1 + Len(rest) /\ Len(rest) \in Nat
        <4>1. Len(z) = Len(w) /\ Len(rest) = Len(y) - 1 /\ Len(y) = Len(w) - n + 1 /\ Len(x) = n - 1
          BY <1>1, <1>4
        <4> HIDE DEF z
        <4> QED BY <1>0, <4>1
      <3>2. \A i \in 1 .. Len(rest) : z[Len(x) + 1 + i] = rest[i]
        BY <1>7, <3>1
      <3>3. z[Len(x) + 1] = a
        BY <1>5, <3>1
      <3> QED BY <1>0, <1>6, <3>1, <3>2, <3>3 DEF IsCut
    <2> QED BY <1>1, <1>3, <1>4, <2>1, CutIs
  <1>9. y = Cut(<<>>, b, rest)
    <2>1. <<>> \in Seq(Texts) /\ Len(<<>>) = 0
      BY EmptySeq
    <2>2. IsCut(y, <<>>, b, rest)
      <3>1. Len(y) = Len(<<>>) + 1 + Len(rest) /\ Len(rest) \in Nat
        BY <1>0, <1>4, <2>1
      <3>2. y[Len(<<>>) + 1] = b
        BY <1>5, <2>1
      <3>3. \A i \in 1 .. Len(rest) : y[Len(<<>>) + 1 + i] = rest[i]
        <4> TAKE i \in 1 .. Len(rest)
        <4>1. Len(<<>>) + 1 + i = 1 + i
          BY <2>1
        <4> QED BY <1>4, <4>1
      <3>4. \A i \in 1 .. Len(<<>>) : y[i] = <<>>[i]
        BY <2>1
      <3> QED BY <2>1, <3>1, <3>2, <3>3, <3>4 DEF IsCut
    <2> QED BY <1>3, <1>4, <2>1, <2>2, CutIs
  <1>10. FlattenSeq(z) = (FlattenSeq(x) \o <<" ">>) \o FlattenSeq(y)
    <2> DEFINE s == <<" ">>
    <2>1. s \in Seq(Signs) /\ b \in Seq(Signs)
      BY <1>2, <1>3, ShortSeqs DEF Texts
    <2>2. a = s \o b
      BY <1>2, ShortSeqs DEF a, b
    <2>3. x \in Seq(Seq(Signs)) /\ rest \in Seq(Seq(Signs))
      BY <1>4 DEF Texts
    <2> HIDE DEF s
    <2>4. FlattensSplit(x, s, b, rest)
      BY <2>1, <2>3, FlattenSplit
    <2> QED BY <1>8, <1>9, <2>2, <2>4 DEF FlattensSplit, s
  <1> QED BY <1>1, <1>10 DEF Cut, z

\* Punctuation shows that a space is missing before a ligature.
LEMMA SpaceAfterComma ==
  ASSUME NEW t \in Texts, NEW v \in Texts, v # <<>>, v[1] \in Ligatures
  PROVE  RepairLigatureSpaces(Cut(t, "comma", v)) =
           Cut(RepairLigatureSpaces(t \o <<"comma">>), " ", RepairLigatureSpaces(v))
  <1> DEFINE w == Cut(t, "comma", v)
             u == Cut(t, "comma", <<>>)
             x == Spacing(u)
             y == Spacing(v)
             n == Len(t) + 2
  <1>0. "comma" \in Stops /\ "comma" \in Signs /\ <<>> \in Texts /\ Len(<<>>) = 0
    BY SignFacts, EmptySeq DEF Texts
  <1>1. w \in Texts /\ IsCut(w, t, "comma", v) /\ u \in Texts /\ IsCut(u, t, "comma", <<>>)
    BY <1>0, CutFacts DEF Texts
  <1>2. u = t \o <<"comma">>
    <2>1. t \o <<"comma">> \in Texts
      BY <1>0 DEF Texts
    <2> QED BY <2>1, ConcatEmptySeq DEF Cut, Texts
  <1> HIDE DEF w, u
  <1>3. /\ Len(t) \in Nat /\ Len(v) \in Nat /\ Len(v) # 0 /\ Len(w) = Len(t) + 1 + Len(v)
        /\ Len(u) = Len(t) + 1
        /\ \A i \in 1 .. Len(t) : w[i] = t[i] /\ u[i] = t[i]
        /\ w[Len(t) + 1] = "comma" /\ u[Len(t) + 1] = "comma"
        /\ \A i \in 1 .. Len(v) : w[Len(t) + 1 + i] = v[i]
    <2>1. Len(v) # 0
      BY EmptySeq DEF Texts
    <2> QED BY <1>0, <1>1, <2>1 DEF IsCut
  <1>4. /\ \A i \in 1 .. Len(t) : SpaceDropped(w, i) <=> SpaceDropped(t, i)
        /\ ~SpaceDropped(w, Len(t) + 1)
        /\ \A i \in 1 .. Len(v) :
              SpaceDropped(w, Len(t) + 1 + i) <=>
                SpaceDropped(v, i) \/ (i = 1 /\ "comma" = "comma" /\ v[1] \in Ligatures)
    BY <1>0, <1>1, DroppedApart
  <1>5. /\ \A i \in 1 .. Len(t) : SpaceDropped(u, i) <=> SpaceDropped(t, i)
        /\ ~SpaceDropped(u, Len(t) + 1)
    BY <1>0, <1>1, DroppedApart
  <1>6. ~SpaceDropped(v, 1)
    BY DEF SpaceDropped
  <1>7. /\ x \in Seq(Texts) /\ Len(x) = Len(u)
        /\ \A i \in 1 .. Len(u) : x[i] = IF SpaceDropped(u, i) THEN <<" ", u[i]>> ELSE <<u[i]>>
        /\ RepairLigatureSpaces(u) = FlattenSeq(x)
    BY <1>1, SpacingFacts
  <1>8. /\ y \in Seq(Texts) /\ Len(y) = Len(v)
        /\ \A i \in 1 .. Len(v) : y[i] = IF SpaceDropped(v, i) THEN <<" ", v[i]>> ELSE <<v[i]>>
        /\ RepairLigatureSpaces(v) = FlattenSeq(y)
    BY SpacingFacts
  <1>9. \A i \in 1 .. Len(w) :
          Spacing(w)[i] = IF SpaceDropped(w, i) THEN <<" ", w[i]>> ELSE <<w[i]>>
    BY <1>1, SpacingFacts
  <1> HIDE DEF x, y
  <1>17. /\ Len(t) \in Nat /\ Len(v) \in Nat /\ Len(v) # 0
         /\ Len(w) = Len(t) + 1 + Len(v) /\ Len(u) = Len(t) + 1
         /\ Len(x) = Len(t) + 1 /\ Len(y) = Len(v)
    BY <1>3, <1>7, <1>8
  <1>10. n \in 1 .. Len(w) /\ n = Len(t) + 1 + 1
    BY <1>3
  <1>11. SpaceDropped(w, n) /\ w[n] = v[1]
    BY <1>3, <1>4, <1>10
  <1>12. ASSUME NEW i \in 1 .. Len(x) PROVE x[i] = Spacing(w)[i]
    <2>1. i \in 1 .. Len(u) /\ i \in 1 .. Len(w) /\ (i \in 1 .. Len(t) \/ i = Len(t) + 1)
      BY <1>17
    <2>2. w[i] = u[i] /\ (SpaceDropped(w, i) <=> SpaceDropped(u, i))
      BY <1>3, <1>4, <1>5, <2>1
    <2>3. x[i] = IF SpaceDropped(u, i) THEN <<" ", u[i]>> ELSE <<u[i]>>
      BY <1>7, <2>1
    <2>4. Spacing(w)[i] = IF SpaceDropped(w, i) THEN <<" ", w[i]>> ELSE <<w[i]>>
      BY <1>9, <2>1
    <2> QED BY <2>2, <2>3, <2>4, Zenon
  <1>13. ASSUME NEW i \in 2 .. Len(y) PROVE y[i] = Spacing(w)[n - 1 + i]
    <2> DEFINE j == n - 1 + i
    <2>1. i \in 1 .. Len(v) /\ i # 1 /\ j = Len(t) + 1 + i /\ j \in 1 .. Len(w)
      BY <1>17
    <2> HIDE DEF j
    <2>2. w[j] = v[i] /\ (SpaceDropped(w, j) <=> SpaceDropped(v, i))
      BY <1>3, <1>4, <2>1
    <2>3. y[i] = IF SpaceDropped(v, i) THEN <<" ", v[i]>> ELSE <<v[i]>>
      BY <1>8, <2>1
    <2>4. Spacing(w)[j] = IF SpaceDropped(w, j) THEN <<" ", w[j]>> ELSE <<w[j]>>
      BY <1>9, <2>1
    <2>5. y[i] = Spacing(w)[j]
      BY <2>2, <2>3, <2>4, Zenon
    <2> QED BY <2>5 DEF j
  <1>14. y[1] = <<w[n]>>
    <2>1. 1 \in 1 .. Len(v)
      BY <1>3
    <2> QED BY <1>6, <1>8, <1>11, <2>1
  <1>15. Len(x) = n - 1 /\ Len(y) = Len(w) - n + 1
    BY <1>17
  <1> HIDE DEF n
  <1>16. RepairLigatureSpaces(w) = Cut(FlattenSeq(x), " ", FlattenSeq(y))
    BY <1>1, <1>7, <1>8, <1>10, <1>11, <1>12, <1>13, <1>14, <1>15, SpaceRestored
  <1> QED BY <1>2, <1>7, <1>8, <1>16 DEF w

-----------------------------------------------------------------------------
(* Ligatures are expanded part by part *)

LEMMA ReplacedFacts ==
  ASSUME NEW text \in Texts, NEW mark, NEW letters \in Signs
  PROVE  /\ Replaced(text, mark, letters) \in Texts
         /\ Len(Replaced(text, mark, letters)) = Len(text) /\ Len(text) \in Nat
         /\ \A i \in 1 .. Len(text) :
              Replaced(text, mark, letters)[i] = IF text[i] = mark THEN letters ELSE text[i]
  <1>1. DOMAIN text = 1 .. Len(text) /\ Len(text) \in Nat /\ \A i \in 1 .. Len(text) : text[i] \in Signs
    BY DEF Texts
  <1>2. Replaced(text, mark, letters) \in [1 .. Len(text) -> Signs]
    BY <1>1 DEF Replaced
  <1>3. Replaced(text, mark, letters) \in Seq(Signs) /\ Len(Replaced(text, mark, letters)) = Len(text)
    BY <1>1, <1>2, SeqOfFunction
  <1> QED BY <1>1, <1>3 DEF Replaced, Texts

Certain(text) == Replaced(text, "FI", "fi")

LEMMA ExpandFacts ==
  ASSUME NEW text \in Texts
  PROVE  /\ Certain(text) \in Texts /\ Len(Certain(text)) = Len(text) /\ Len(text) \in Nat
         /\ \A i \in 1 .. Len(text) :
              Certain(text)[i] = IF text[i] = "FI" THEN "fi" ELSE text[i]
         /\ ExpandLigatures(text) \in Texts /\ Len(ExpandLigatures(text)) = Len(text)
         /\ \A i \in 1 .. Len(text) :
              ExpandLigatures(text)[i] =
                IF Certain(text)[i] = "E0" THEN Resolved(Certain(text), i) ELSE Certain(text)[i]
  <1>0. "fi" \in Signs /\ "ff" \in Signs
    BY SignFacts
  <1> DEFINE c == Certain(text)
  <1>1. /\ c \in Texts /\ Len(c) = Len(text) /\ Len(text) \in Nat
        /\ \A i \in 1 .. Len(text) : c[i] = IF text[i] = "FI" THEN "fi" ELSE text[i]
    BY <1>0, ReplacedFacts DEF Certain
  <1>2. ExpandLigatures(text) =
          [i \in DOMAIN c |-> IF c[i] = "E0" THEN Resolved(c, i) ELSE c[i]]
    BY DEF ExpandLigatures, Certain
  <1> HIDE DEF c
  <1>3. DOMAIN c = 1 .. Len(text) /\ \A i \in 1 .. Len(text) : c[i] \in Signs
    BY <1>1 DEF Texts
  <1>4. \A i : Resolved(c, i) \in {"fi", "ff"}
    BY DEF Resolved
  <1>5. ExpandLigatures(text) \in [1 .. Len(text) -> Signs]
    BY <1>0, <1>2, <1>3, <1>4
  <1>6. ExpandLigatures(text) \in Seq(Signs) /\ Len(ExpandLigatures(text)) = Len(text)
    BY <1>1, <1>5, SeqOfFunction
  <1> QED BY <1>1, <1>2, <1>3, <1>6 DEF c, Texts

LEMMA ExpandApart ==
  ASSUME NEW u \in Texts, NEW v \in Texts, NEW c \in Stops
  PROVE  ExpandLigatures(Cut(u, c, v)) = Cut(ExpandLigatures(u), c, ExpandLigatures(v))
  <1> DEFINE w == Cut(u, c, v)
  <1>0. c \in Signs /\ c # "FI" /\ c # "E0"
    BY SignFacts
  <1>1. w \in Texts /\ IsCut(w, u, c, v)
    BY <1>0, CutFacts DEF Texts
  <1> HIDE DEF w
  <1> DEFINE a == Certain(u)
             b == Certain(v)
             d == Certain(w)
             x == ExpandLigatures(u)
             y == ExpandLigatures(v)
             z == ExpandLigatures(w)
  <1>2. /\ a \in Texts /\ Len(a) = Len(u) /\ Len(u) \in Nat
        /\ \A i \in 1 .. Len(u) : a[i] = IF u[i] = "FI" THEN "fi" ELSE u[i]
        /\ x \in Texts /\ Len(x) = Len(u)
        /\ \A i \in 1 .. Len(u) : x[i] = IF a[i] = "E0" THEN Resolved(a, i) ELSE a[i]
    BY ExpandFacts
  <1>3. /\ b \in Texts /\ Len(b) = Len(v) /\ Len(v) \in Nat
        /\ \A i \in 1 .. Len(v) : b[i] = IF v[i] = "FI" THEN "fi" ELSE v[i]
        /\ y \in Texts /\ Len(y) = Len(v)
        /\ \A i \in 1 .. Len(v) : y[i] = IF b[i] = "E0" THEN Resolved(b, i) ELSE b[i]
    BY ExpandFacts
  <1>4. /\ d \in Texts /\ Len(d) = Len(w) /\ Len(w) \in Nat
        /\ \A i \in 1 .. Len(w) : d[i] = IF w[i] = "FI" THEN "fi" ELSE w[i]
        /\ z \in Texts /\ Len(z) = Len(w)
        /\ \A i \in 1 .. Len(w) : z[i] = IF d[i] = "E0" THEN Resolved(d, i) ELSE d[i]
    BY <1>1, ExpandFacts
  <1> HIDE DEF a, b, d, x, y, z
  <1>5. /\ Len(w) = Len(u) + 1 + Len(v)
        /\ \A i \in 1 .. Len(u) : w[i] = u[i] /\ i \in 1 .. Len(w)
        /\ w[Len(u) + 1] = c /\ Len(u) + 1 \in 1 .. Len(w)
        /\ \A i \in 1 .. Len(v) : w[Len(u) + 1 + i] = v[i] /\ Len(u) + 1 + i \in 1 .. Len(w)
    BY <1>1, <1>2, <1>3 DEF IsCut
  <1>6. \A i \in 1 .. Len(u) : d[i] = a[i]
    BY <1>2, <1>4, <1>5
  <1>7. d[Len(u) + 1] = c
    BY <1>0, <1>4, <1>5
  <1>8. \A i \in 1 .. Len(v) : d[Len(u) + 1 + i] = b[i]
    BY <1>3, <1>4, <1>5
  <1>9. IsCut(d, a, c, b)
    BY <1>2, <1>3, <1>4, <1>5, <1>6, <1>7, <1>8 DEF IsCut
  <1>10. /\ \A i \in 1 .. Len(a) + 1 :
              /\ RunBefore(d, i, Stops) = RunBefore(a, i, Stops)
              /\ RunFrom(d, i, Stops) = RunFrom(a, i, Stops)
         /\ \A i \in 1 .. Len(b) + 1 :
              /\ RunBefore(d, Len(a) + 1 + i, Stops) = RunBefore(b, i, Stops)
              /\ RunFrom(d, Len(a) + 1 + i, Stops) = RunFrom(b, i, Stops)
    <2>1. a \in Seq(Signs) /\ b \in Seq(Signs) /\ d \in Seq(Signs)
      BY <1>2, <1>3, <1>4 DEF Texts
    <2> QED BY <1>9, <2>1, RunsApart
  <1>11. ASSUME NEW i \in 1 .. Len(u) PROVE z[i] = x[i]
    <2>1. Resolved(d, i) = Resolved(a, i)
      <3>1. i \in 1 .. Len(a) + 1
        BY <1>2
      <3> QED BY <1>10, <3>1 DEF Resolved
    <2> QED BY <1>2, <1>4, <1>5, <1>6, <2>1
  <1>12. z[Len(u) + 1] = c
    BY <1>0, <1>4, <1>5, <1>7
  <1>13. ASSUME NEW i \in 1 .. Len(v) PROVE z[Len(u) + 1 + i] = y[i]
    <2> DEFINE j == Len(u) + 1 + i
    <2>1. Resolved(d, j) = Resolved(b, i)
      <3>1. i \in 1 .. Len(b) + 1 /\ j = Len(a) + 1 + i
        BY <1>2, <1>3
      <3> HIDE DEF j
      <3> QED BY <1>10, <3>1 DEF Resolved
    <2>2. j \in 1 .. Len(w) /\ d[j] = b[i]
      BY <1>5, <1>8
    <2> HIDE DEF j
    <2>3. z[j] = y[i]
      BY <1>3, <1>4, <2>1, <2>2
    <2> QED BY <2>3 DEF j
  <1>14. IsCut(z, x, c, y)
    BY <1>2, <1>3, <1>4, <1>5, <1>11, <1>12, <1>13 DEF IsCut
  <1>15. z = Cut(x, c, y)
    BY <1>0, <1>2, <1>3, <1>4, <1>14, CutIs DEF Texts
  <1> QED BY <1>15 DEF x, y, z, w

-----------------------------------------------------------------------------
(* When a space is restored, and how an ambiguous codepoint is read *)

PartReplaced(text, mark, letters, a, b) ==
  Replaced(SubSeq(text, a, b), mark, letters) = SubSeq(Replaced(text, mark, letters), a, b)

LEMMA ReplacedPart ==
  ASSUME NEW text \in Texts, NEW mark, NEW letters \in Signs,
         NEW a \in Nat \ {0}, NEW b \in Nat, b <= Len(text)
  PROVE  PartReplaced(text, mark, letters, a, b)
  <1> DEFINE s == SubSeq(text, a, b)
             r == Replaced(text, mark, letters)
             x == Replaced(s, mark, letters)
             y == SubSeq(r, a, b)
             n == IF a <= b THEN b - a + 1 ELSE 0
  <1>1. /\ r \in Texts /\ Len(r) = Len(text) /\ Len(text) \in Nat
        /\ \A i \in 1 .. Len(text) : r[i] = IF text[i] = mark THEN letters ELSE text[i]
    BY ReplacedFacts
  <1>2. \A i \in a .. b : i \in 1 .. Len(text) /\ text[i] \in Signs /\ r[i] \in Signs
    <2>1. \A i \in a .. b : i \in 1 .. Len(text)
      BY <1>1
    <2>2. \A i \in 1 .. Len(text) : text[i] \in Signs
      BY DEF Texts
    <2>3. \A i \in 1 .. Len(r) : r[i] \in Signs
      BY <1>1 DEF Texts
    <2> QED BY <1>1, <2>1, <2>2, <2>3
  <1> HIDE DEF r
  <1>3. s \in Texts /\ Len(s) = n /\ \A i \in 1 .. b - a + 1 : s[i] = text[a + i - 1]
    BY <1>2, SubSeqProperties DEF Texts
  <1>4. y \in Texts /\ Len(y) = n /\ \A i \in 1 .. b - a + 1 : y[i] = r[a + i - 1]
    BY <1>2, SubSeqProperties DEF Texts
  <1> HIDE DEF s
  <1>5. /\ x \in Texts /\ Len(x) = n
        /\ \A i \in 1 .. n : x[i] = IF s[i] = mark THEN letters ELSE s[i]
    <2>1. s \in Texts /\ Len(s) = n
      BY <1>3
    <2> HIDE DEF n
    <2>2. /\ x \in Texts /\ Len(x) = Len(s)
          /\ \A i \in 1 .. Len(s) : x[i] = IF s[i] = mark THEN letters ELSE s[i]
      BY <2>1, ReplacedFacts
    <2> QED BY <2>1, <2>2
  <1> HIDE DEF x, y
  <1>6. ASSUME NEW i \in 1 .. Len(x) PROVE x[i] = y[i]
    <2>1. i \in 1 .. n /\ i \in 1 .. b - a + 1 /\ a + i - 1 \in a .. b
      BY <1>5
    <2> DEFINE j == a + i - 1
    <2>2. j \in 1 .. Len(text) /\ s[i] = text[j] /\ y[i] = r[j]
      BY <1>2, <1>3, <1>4, <2>1
    <2>3. x[i] = IF s[i] = mark THEN letters ELSE s[i]
      BY <1>5, <2>1
    <2> HIDE DEF j
    <2> QED BY <1>1, <2>2, <2>3
  <1>7. Len(x) = Len(y)
    BY <1>4, <1>5
  <1>8. x = y
    BY <1>4, <1>5, <1>6, <1>7, SeqEqual DEF Texts
  <1> QED BY <1>8 DEF PartReplaced, s, x, y, r

LEMMA ExpandedFacts ==
  ASSUME NEW text \in Texts
  PROVE  /\ Expanded(text) \in Texts /\ Len(Expanded(text)) = Len(text) /\ Len(text) \in Nat
         /\ \A i \in 1 .. Len(text) :
              Expanded(text)[i] = IF text[i] = "FI" THEN "fi" ELSE
                                  IF text[i] = "E0" THEN "ff" ELSE text[i]
  <1>0. "fi" \in Signs /\ "ff" \in Signs /\ "fi" # "E0"
    BY SignFacts
  <1> DEFINE c == Replaced(text, "FI", "fi")
  <1>1. /\ c \in Texts /\ Len(c) = Len(text) /\ Len(text) \in Nat
        /\ \A i \in 1 .. Len(text) : c[i] = IF text[i] = "FI" THEN "fi" ELSE text[i]
    BY <1>0, ReplacedFacts
  <1>2. Expanded(text) = Replaced(c, "E0", "ff")
    BY DEF Expanded
  <1> HIDE DEF c
  <1>3. /\ Expanded(text) \in Texts /\ Len(Expanded(text)) = Len(text)
        /\ \A i \in 1 .. Len(text) : Expanded(text)[i] = IF c[i] = "E0" THEN "ff" ELSE c[i]
    BY <1>0, <1>1, <1>2, ReplacedFacts
  <1> QED BY <1>0, <1>1, <1>3

LEMMA ExpandedPart ==
  ASSUME NEW text \in Texts, NEW a \in Nat \ {0}, NEW b \in Nat, b <= Len(text)
  PROVE  Expanded(SubSeq(text, a, b)) = SubSeq(Expanded(text), a, b)
  <1> DEFINE c == Replaced(text, "FI", "fi")
  <1>0. "fi" \in Signs /\ "ff" \in Signs
    BY SignFacts
  <1>1. c \in Texts /\ Len(c) = Len(text) /\ b <= Len(c)
    BY <1>0, ReplacedFacts
  <1>2. Replaced(SubSeq(text, a, b), "FI", "fi") = SubSeq(c, a, b)
    <2>1. PartReplaced(text, "FI", "fi", a, b)
      BY <1>0, ReplacedPart
    <2> QED BY <2>1 DEF PartReplaced
  <1>3. Expanded(text) = Replaced(c, "E0", "ff")
    BY DEF Expanded
  <1>4. Expanded(SubSeq(text, a, b)) = Replaced(SubSeq(c, a, b), "E0", "ff")
    BY <1>2 DEF Expanded
  <1> HIDE DEF c
  <1>5. Replaced(SubSeq(c, a, b), "E0", "ff") = SubSeq(Replaced(c, "E0", "ff"), a, b)
    <2>1. PartReplaced(c, "E0", "ff", a, b)
      BY <1>0, <1>1, ReplacedPart
    <2> QED BY <2>1 DEF PartReplaced
  <1> QED BY <1>3, <1>4, <1>5

\* The run at i of a text, as the dictionary is asked about it.
DroppedWith(text, m, i, from, to) ==
  SpaceDropped(text, i) <=>
    /\ text[i] \in Ligatures /\ i > 1
    /\ \/ text[i - 1] = "comma"
       \/ /\ IsLetters(text[i - 1])
          /\ SubSeq(m, from, to) \notin Dictionary \cup Exceptions
          /\ SubSeq(m, from, i - 1) \in Dictionary
          /\ SubSeq(m, i, to) \in Dictionary

LEMMA DroppedIs ==
  ASSUME NEW text \in Texts, NEW m, m = Expanded(text), NEW i \in 1 .. Len(text)
  PROVE  \E from \in 1 .. i, to \in i - 1 .. Len(text) :
           BeginsAt(m, i, Stops, from) /\ EndsAt(m, i, Stops, to) /\ DroppedWith(text, m, i, from, to)
  <1>1. /\ m \in Texts /\ Len(m) = Len(text) /\ Len(text) \in Nat
        /\ \A j \in 1 .. Len(text) : m[j] = IF text[j] = "FI" THEN "fi" ELSE
                                     IF text[j] = "E0" THEN "ff" ELSE text[j]
    BY ExpandedFacts
  <1>2. \A j \in 1 .. Len(m) : m[j] \in Stops <=> text[j] \in Stops
    BY <1>1, SignFacts
  <1>3. i \in 1 .. Len(m) + 1 /\ Len(m) \in Nat
    BY <1>1
  <1>4. PICK from \in 1 .. i, to \in i - 1 .. Len(m) :
           /\ BeginsAt(m, i, Stops, from) /\ EndsAt(m, i, Stops, to)
           /\ RunBefore(m, i, Stops) = SubSeq(m, from, i - 1)
           /\ RunBefore(text, i, Stops) = SubSeq(text, from, i - 1)
           /\ RunFrom(m, i, Stops) = SubSeq(m, i, to)
           /\ RunFrom(text, i, Stops) = SubSeq(text, i, to)
    <2>1. /\ Len(m) \in Nat /\ Len(text) = Len(m)
          /\ \A j \in 1 .. Len(m) : m[j] \in Stops <=> text[j] \in Stops
      BY <1>1, <1>2
    <2>2. i \in 1 .. Len(m) + 1
      BY <1>3
    <2>3. RunsAlike(m, text, Stops, i)
      BY <2>1, <2>2, SameRuns DEF StopAlike
    <2> QED BY <2>3 DEF RunsAlike
  <1>5. /\ from \in Nat \ {0} /\ i \in Nat \ {0} /\ i - 1 \in Nat /\ to \in Nat
        /\ i - 1 <= Len(text) /\ to <= Len(text) /\ from <= i
    BY <1>1, <1>3
  <1>6. Expanded(RunBefore(text, i, Stops)) = SubSeq(m, from, i - 1)
    BY <1>4, <1>5, ExpandedPart
  <1>7. Expanded(RunFrom(text, i, Stops)) = SubSeq(m, i, to)
    BY <1>4, <1>5, ExpandedPart
  <1>8. SubSeq(m, from, i - 1) \o SubSeq(m, i, to) = SubSeq(m, from, to)
    <2> DEFINE k == i - 1
    <2>1. /\ from \in 1 .. Len(m) + 1 /\ k \in from - 1 .. Len(m) /\ to \in k .. Len(m)
          /\ k + 1 = i
      BY <1>1, <1>5
    <2> HIDE DEF k
    <2>2. SubSeq(m, from, k) \o SubSeq(m, k + 1, to) = SubSeq(m, from, to)
      BY <1>1, <2>1, ConcatAdjacentSubSeq DEF Texts
    <2> QED BY <2>1, <2>2 DEF k
  <1>9. DroppedWith(text, m, i, from, to)
    BY <1>6, <1>7, <1>8 DEF SpaceDropped, DroppedWith
  <1> QED BY <1>1, <1>4, <1>9

LEMMA ResolvedIs ==
  ASSUME NEW c \in Texts, NEW i \in 1 .. Len(c),
         NEW x, x = Replaced(c, "E0", "ff"), NEW y, y = Replaced(c, "E0", "fi")
  PROVE  \E from \in 1 .. i, to \in i - 1 .. Len(c) :
           /\ BeginsAt(c, i, Stops, from) /\ EndsAt(c, i, Stops, to)
           /\ Resolved(c, i) =
                IF SubSeq(x, from, to) \notin Dictionary /\ SubSeq(y, from, to) \in Dictionary
                THEN "fi" ELSE "ff"
  <1>0. "fi" \in Signs /\ "ff" \in Signs
    BY SignFacts
  <1>1. i \in 1 .. Len(c) + 1 /\ Len(c) \in Nat
    BY DEF Texts
  <1>2. PICK from \in 1 .. i, to \in i - 1 .. Len(c) :
           /\ BeginsAt(c, i, Stops, from) /\ EndsAt(c, i, Stops, to)
           /\ RunBefore(c, i, Stops) = SubSeq(c, from, i - 1)
           /\ RunFrom(c, i, Stops) = SubSeq(c, i, to)
    <2>1. StopAlike(c, c, Stops)
      BY <1>1 DEF StopAlike
    <2>2. RunsAlike(c, c, Stops, i)
      BY <1>1, <2>1, SameRuns
    <2> QED BY <2>2 DEF RunsAlike
  <1>3. SubSeq(c, from, i - 1) \o SubSeq(c, i, to) = SubSeq(c, from, to)
    <2> DEFINE k == i - 1
    <2>1. /\ from \in 1 .. Len(c) + 1 /\ k \in from - 1 .. Len(c) /\ to \in k .. Len(c)
          /\ k + 1 = i
      BY <1>1
    <2> HIDE DEF k
    <2>2. SubSeq(c, from, k) \o SubSeq(c, k + 1, to) = SubSeq(c, from, to)
      BY <2>1, ConcatAdjacentSubSeq DEF Texts
    <2> QED BY <2>1, <2>2 DEF k
  <1>4. from \in Nat \ {0} /\ to \in Nat /\ to <= Len(c)
    BY <1>1
  <1>5. /\ Replaced(SubSeq(c, from, to), "E0", "ff") = SubSeq(x, from, to)
        /\ Replaced(SubSeq(c, from, to), "E0", "fi") = SubSeq(y, from, to)
    <2>1. PartReplaced(c, "E0", "ff", from, to) /\ PartReplaced(c, "E0", "fi", from, to)
      BY <1>0, <1>4, ReplacedPart
    <2> QED BY <2>1 DEF PartReplaced
  <1>6. Resolved(c, i) =
          IF SubSeq(x, from, to) \notin Dictionary /\ SubSeq(y, from, to) \in Dictionary
          THEN "fi" ELSE "ff"
    BY <1>2, <1>3, <1>5 DEF Resolved
  <1> QED BY <1>2, <1>6

\* In a text of one word each.
LEMMA NoSpaceMissing ==
  ASSUME NEW text \in Texts, \A i \in 1 .. Len(text) : ~SpaceDropped(text, i)
  PROVE  RepairLigatureSpaces(text) = text
  <1>1. /\ Spacing(text) \in Seq(Texts) /\ Len(Spacing(text)) = Len(text)
        /\ \A i \in 1 .. Len(text) :
              Spacing(text)[i] = IF SpaceDropped(text, i) THEN <<" ", text[i]>> ELSE <<text[i]>>
        /\ RepairLigatureSpaces(text) = FlattenSeq(Spacing(text))
    BY SpacingFacts
  <1>2. /\ Singles(text) \in Seq(Texts) /\ Len(Singles(text)) = Len(text)
        /\ FlattenSeq(Singles(text)) = text
    BY FlattenSingles DEF Texts
  <1>3. \A i \in 1 .. Len(text) : Singles(text)[i] = <<text[i]>>
    BY DEF Singles, Texts
  <1>4. \A i \in 1 .. Len(text) : Spacing(text)[i] = Singles(text)[i]
    BY <1>1, <1>3
  <1>5. Spacing(text) = Singles(text)
    BY <1>1, <1>2, <1>4, SeqEqual
  <1> QED BY <1>1, <1>2, <1>5

\* A part of a run, and the run.
LEMMA RunParts ==
  ASSUME NEW m \in Texts, NEW from \in 1 .. Len(m), NEW to \in from .. Len(m), NEW i \in from + 1 .. to
  PROVE  LET run == SubSeq(m, from, to)
             k == i - from + 1
         IN /\ Len(run) = to - from + 1 /\ k \in 2 .. Len(run) /\ run[k] = m[i]
            /\ SubSeq(run, 1, k - 1) = SubSeq(m, from, i - 1)
            /\ SubSeq(run, k, Len(run)) = SubSeq(m, i, to)
  <1> DEFINE run == SubSeq(m, from, to)
             k == i - from + 1
             L == to - from + 1
  <1>1. Len(m) \in Nat /\ from \in Nat /\ to \in Nat /\ i \in Nat
    BY DEF Texts
  <1>2. \A j \in from .. to : m[j] \in Signs
    <2>1. \A j \in from .. to : j \in 1 .. Len(m)
      BY <1>1
    <2>2. \A j \in 1 .. Len(m) : m[j] \in Signs
      BY DEF Texts
    <2> QED BY <2>1, <2>2
  <1>3. /\ run \in Seq(Signs) /\ Len(run) = (IF from <= to THEN to - from + 1 ELSE 0)
        /\ \A j \in 1 .. to - from + 1 : run[j] = m[from + j - 1]
    BY <1>1, <1>2, SubSeqProperties
  <1>4. Len(run) = L
    BY <1>1, <1>3
  <1>5. k \in 2 .. L /\ k \in 1 .. to - from + 1 /\ from + k - 1 = i
    BY <1>1
  <1>6. run[k] = m[i]
    BY <1>3, <1>5
  <1>7. Within(m, from - 1, run)
    <2>1. from - 1 \in Nat /\ (from - 1) + L <= Len(m)
      BY <1>1
    <2>2. \A j \in 1 .. L : (from - 1) + j = from + j - 1 /\ j \in 1 .. to - from + 1
      BY <1>1
    <2> HIDE DEF run
    <2> QED BY <1>3, <1>4, <2>1, <2>2 DEF Within
  <1> HIDE DEF run
  <1>8. SubSeq(run, 1, k - 1) = SubSeq(m, from, i - 1)
    <2> DEFINE q == from - 1
               b == k - 1
    <2>1. q \in Nat /\ 1 \in Nat \ {0} /\ b \in Nat /\ b <= Len(run) /\ q + 1 = from /\ q + b = i - 1
      BY <1>1, <1>4, <1>5
    <2>2. Within(m, q, run)
      BY <1>7
    <2> HIDE DEF q, b
    <2>3. SubSeq(m, q + 1, q + b) = SubSeq(run, 1, b)
      <3>1. m \in Seq(Signs) /\ run \in Seq(Signs)
        BY <1>3 DEF Texts
      <3> QED BY <2>1, <2>2, <3>1, SubSeqWithin
    <2> QED BY <2>1, <2>3 DEF b
  <1>9. SubSeq(run, k, Len(run)) = SubSeq(m, i, to)
    <2> DEFINE q == from - 1
    <2>1. q \in Nat /\ k \in Nat \ {0} /\ L \in Nat /\ L <= Len(run) /\ q + k = i /\ q + L = to
      BY <1>1, <1>4, <1>5
    <2>2. Within(m, q, run)
      BY <1>7
    <2> HIDE DEF q, k, L
    <2>3. SubSeq(m, q + k, q + L) = SubSeq(run, k, L)
      <3>1. m \in Seq(Signs) /\ run \in Seq(Signs)
        BY <1>3 DEF Texts
      <3> QED BY <2>1, <2>2, <3>1, SubSeqWithin
    <2> QED BY <1>4, <2>1, <2>3
  <1> QED BY <1>4, <1>5, <1>6, <1>8, <1>9 DEF run

\* The run around a letter is one of the runs.
LEMMA RunIsOne ==
  ASSUME NEW m \in Texts, NEW i \in 1 .. Len(m), m[i] \notin Marks,
         NEW from, BeginsAt(m, i, Stops, from), NEW to, EndsAt(m, i, Stops, to)
  PROVE  SubSeq(m, from, to) \in Runs(m)
  <1>1. Len(m) \in Nat /\ DOMAIN m = 1 .. Len(m)
    BY DEF Texts
  <1>2. i \in Nat \ {0} /\ from \in 1 .. i /\ to \in i - 1 .. Len(m)
    <2>1. from \in 1 .. i /\ to \in i - 1 .. Len(m)
      BY DEF BeginsAt, EndsAt
    <2> QED BY <1>1, <2>1
  <1>3. RunBefore(m, i, Stops) = SubSeq(m, from, i - 1)
    BY <1>2, RunBeforeIs
  <1>4. RunFrom(m, i, Stops) = SubSeq(m, i, to)
    BY <1>1, <1>2, RunFromIs
  <1> DEFINE h == i - 1
  <1>5. /\ from \in 1 .. Len(m) + 1 /\ h \in from - 1 .. Len(m) /\ to \in h .. Len(m) /\ h + 1 = i
    BY <1>1, <1>2
  <1> HIDE DEF h
  <1>6. SubSeq(m, from, h) \o SubSeq(m, h + 1, to) = SubSeq(m, from, to)
    BY <1>1, <1>5, ConcatAdjacentSubSeq DEF Texts
  <1>7. SubSeq(m, from, i - 1) \o SubSeq(m, i, to) = SubSeq(m, from, to)
    BY <1>5, <1>6 DEF h
  <1> QED BY <1>1, <1>3, <1>4, <1>7 DEF Runs, IsLetters

\* A run that no place makes two words keeps together.
LEMMA KeptTogether ==
  ASSUME NEW text \in Texts, NEW m, m = Expanded(text),
         \A i \in 1 .. Len(text) : text[i] = "comma" => i = Len(text),
         \A run \in Runs(m) : OneWord(run)
  PROVE  RepairLigatureSpaces(text) = text
  <1>1. /\ m \in Texts /\ Len(m) = Len(text) /\ Len(text) \in Nat /\ DOMAIN m = 1 .. Len(m)
        /\ \A j \in 1 .. Len(text) : m[j] = IF text[j] = "FI" THEN "fi" ELSE
                                     IF text[j] = "E0" THEN "ff" ELSE text[j]
    BY ExpandedFacts DEF Texts
  <1>2. ASSUME NEW i \in 1 .. Len(text), SpaceDropped(text, i) PROVE FALSE
    <2>1. PICK from \in 1 .. i, to \in i - 1 .. Len(text) :
           /\ BeginsAt(m, i, Stops, from) /\ EndsAt(m, i, Stops, to)
           /\ text[i] \in Ligatures /\ i > 1
           /\ \/ text[i - 1] = "comma"
              \/ /\ IsLetters(text[i - 1])
                 /\ SubSeq(m, from, to) \notin Dictionary \cup Exceptions
                 /\ SubSeq(m, from, i - 1) \in Dictionary
                 /\ SubSeq(m, i, to) \in Dictionary
      <3>1. PICK from \in 1 .. i, to \in i - 1 .. Len(text) :
              BeginsAt(m, i, Stops, from) /\ EndsAt(m, i, Stops, to) /\ DroppedWith(text, m, i, from, to)
        BY DroppedIs
      <3> QED BY <1>2, <3>1 DEF DroppedWith
    <2>0. /\ Len(text) \in Nat /\ Len(m) = Len(text)
          /\ i > 1 /\ from \in 1 .. i /\ to \in i - 1 .. Len(text)
      BY <1>1, <2>1
    <2>2. i - 1 \in 1 .. Len(text) /\ i - 1 # Len(text) /\ i \in 1 .. Len(m)
      BY <2>0
    <2>3. /\ IsLetters(text[i - 1]) /\ SubSeq(m, from, to) \notin Dictionary \cup Exceptions
          /\ SubSeq(m, from, i - 1) \in Dictionary /\ SubSeq(m, i, to) \in Dictionary
      BY <2>1, <2>2
    <2>4. m[i] \in {"fi", "ff"} /\ m[i] \notin Stops /\ IsLetters(m[i])
      BY <1>1, <2>1, SignFacts DEF IsLetters
    <2>5. m[i - 1] \notin Stops
      BY <1>1, <2>2, <2>3, SignFacts DEF IsLetters
    <2>6. from # i
      <3>1. i # 1
        BY <2>1
      <3> QED BY <2>1, <2>5, <3>1 DEF BeginsAt
    <2>7. to # i - 1
      <3>1. i - 1 # Len(m) /\ (i - 1) + 1 = i
        BY <2>0
      <3> QED BY <2>1, <2>4, <3>1 DEF EndsAt
    <2>8. from \in 1 .. Len(m) /\ to \in from .. Len(m) /\ i \in from + 1 .. to
      BY <2>0, <2>6, <2>7
    <2> DEFINE run == SubSeq(m, from, to)
               k == i - from + 1
    <2>9. /\ Len(run) = to - from + 1 /\ k \in 2 .. Len(run) /\ run[k] = m[i]
          /\ SubSeq(run, 1, k - 1) = SubSeq(m, from, i - 1)
          /\ SubSeq(run, k, Len(run)) = SubSeq(m, i, to)
      BY <1>1, <2>8, RunParts
    <2>10. run \in Runs(m)
      <3>1. m[i] \notin Marks
        BY <2>4 DEF IsLetters
      <3> QED BY <1>1, <2>1, <2>2, <3>1, RunIsOne
    <2>11. Splits(run, k)
      <3> HIDE DEF run, k
      <3> QED BY <2>3, <2>4, <2>9 DEF Splits
    <2>12. OneWord(run)
      BY <2>10
    <2> HIDE DEF k
    <2> QED BY <2>3, <2>9, <2>11, <2>12 DEF OneWord
  <1> QED BY <1>2, NoSpaceMissing

-----------------------------------------------------------------------------
(* A part of a word, in its font *)

\* Letters, hyphens, and punctuation at the end.
Spelled(s) ==
  /\ s \in Texts
  /\ \A i \in 1 .. Len(s) : IsLetters(s[i]) \/ s[i] = "hyphen" \/ (s[i] = "comma" /\ i = Len(s))

Coded(p, s) == [k \in DOMAIN s |-> Letter(p, s[k])]

IsCoded(t, p, s) ==
  /\ t \in Texts /\ Len(t) = Len(s) /\ Len(s) \in Nat
  /\ \A i \in 1 .. Len(s) :
       /\ t[i] = Letter(p, s[i])
       /\ t[i] \in Stops <=> s[i] \in Stops
       /\ t[i] \in Ligatures <=> s[i] \in {"fi", "ff"}
       /\ t[i] = "comma" <=> s[i] = "comma"

LEMMA LetterFacts ==
  ASSUME NEW p, NEW c \in Signs, c \notin Ligatures
  PROVE  /\ Letter(p, c) \in Signs
         /\ Letter(p, c) \in Stops <=> c \in Stops
         /\ Letter(p, c) \in Ligatures <=> c \in {"fi", "ff"}
         /\ Letter(p, c) = "comma" <=> c = "comma"
         /\ ~(c \in {"fi", "ff"}) => Letter(p, c) = c
         /\ ~p.heading => (c = "fi" => Letter(p, c) = "FI") /\ (c = "ff" => Letter(p, c) = "E0")
         /\ p.heading /\ c \in {"fi", "ff"} => Letter(p, c) = "E0"
  BY SignFacts DEF Letter

LEMMA SpelledFacts ==
  ASSUME NEW s, Spelled(s)
  PROVE  /\ Len(s) \in Nat /\ DOMAIN s = 1 .. Len(s)
         /\ \A i \in 1 .. Len(s) : s[i] \in Signs /\ s[i] \notin Ligatures /\ s[i] # "break" /\ s[i] # " "
  <1>1. Len(s) \in Nat /\ DOMAIN s = 1 .. Len(s) /\ \A i \in 1 .. Len(s) : s[i] \in Signs
    BY DEF Spelled, Texts
  <1>2. \A i \in 1 .. Len(s) : s[i] \notin Marks \/ s[i] = "hyphen" \/ s[i] = "comma"
    BY DEF Spelled, IsLetters
  <1>3. {"hyphen", "comma"} \cap (Ligatures \cup {"break", " "}) = {}
        /\ Ligatures \cup {"break", " "} \subseteq Marks
    BY SignFacts
  <1> QED BY <1>1, <1>2, <1>3

LEMMA CodedFacts ==
  ASSUME NEW p, NEW s, Spelled(s)
  PROVE  IsCoded(Coded(p, s), p, s)
  <1>1. /\ Len(s) \in Nat /\ DOMAIN s = 1 .. Len(s)
        /\ \A i \in 1 .. Len(s) : s[i] \in Signs /\ s[i] \notin Ligatures
    BY SpelledFacts
  <1> DEFINE t == Coded(p, s)
  <1>2. \A i \in 1 .. Len(s) : Letter(p, s[i]) \in Signs
    BY <1>1, LetterFacts
  <1>3. t \in [1 .. Len(s) -> Signs] /\ \A i \in 1 .. Len(s) : t[i] = Letter(p, s[i])
    BY <1>1, <1>2 DEF Coded
  <1> HIDE DEF t
  <1>4. t \in Seq(Signs) /\ Len(t) = Len(s)
    BY <1>1, <1>3, SeqOfFunction
  <1>5. \A i \in 1 .. Len(s) :
          /\ Letter(p, s[i]) \in Stops <=> s[i] \in Stops
          /\ Letter(p, s[i]) \in Ligatures <=> s[i] \in {"fi", "ff"}
          /\ Letter(p, s[i]) = "comma" <=> s[i] = "comma"
    BY <1>1, LetterFacts
  <1>6. IsCoded(t, p, s)
    BY <1>1, <1>3, <1>4, <1>5 DEF IsCoded, Texts
  <1> QED BY <1>6 DEF t

\* The majority's reading of a word in that font is the word.
LEMMA ExpandedCoded ==
  ASSUME NEW p, ~p.heading, NEW s, Spelled(s)
  PROVE  Expanded(Coded(p, s)) = s
  <1> DEFINE t == Coded(p, s)
  <1>1. IsCoded(t, p, s)
    BY CodedFacts
  <1> HIDE DEF t
  <1>2. /\ t \in Texts /\ Len(t) = Len(s) /\ Len(s) \in Nat /\ s \in Texts
        /\ \A i \in 1 .. Len(s) : t[i] = Letter(p, s[i])
    BY <1>1 DEF IsCoded, Spelled
  <1>3. /\ \A i \in 1 .. Len(s) : s[i] \in Signs /\ s[i] \notin Ligatures
    BY SpelledFacts
  <1>4. \A i \in 1 .. Len(s) : /\ s[i] = "fi" => t[i] = "FI"
                               /\ s[i] = "ff" => t[i] = "E0"
                               /\ s[i] \notin {"fi", "ff"} => t[i] = s[i]
    BY <1>2, <1>3, LetterFacts
  <1>5. \A i \in 1 .. Len(s) : s[i] # "FI" /\ s[i] # "E0"
    BY <1>3, SignFacts
  <1>6. Expanded(t) = s
    <2> DEFINE m == Expanded(t)
    <2>1. /\ m \in Texts /\ Len(m) = Len(t)
          /\ \A i \in 1 .. Len(t) : m[i] = IF t[i] = "FI" THEN "fi" ELSE
                                           IF t[i] = "E0" THEN "ff" ELSE t[i]
      BY <1>2, ExpandedFacts
    <2> HIDE DEF m
    <2>2. \A i \in 1 .. Len(m) : m[i] = s[i]
      BY <1>2, <1>4, <1>5, <2>1, SignFacts
    <2>3. Len(m) = Len(s) /\ m \in Seq(Signs) /\ s \in Seq(Signs)
      BY <1>2, <2>1 DEF Texts
    <2>4. m = s
      BY <2>2, <2>3, SeqEqual
    <2> QED BY <2>4 DEF m
  <1> QED BY <1>6 DEF t

\* No space is restored in the text t, and its ligatures are those of s.
Read(t, s) == /\ t \in Texts /\ s \in Texts
              /\ RepairLigatureSpaces(t) = t /\ ExpandLigatures(t) = s

\* In the font of the majority's reading.
LEMMA PieceRead ==
  ASSUME NEW p, ~p.heading, NEW s, Spelled(s),
         \A run \in Runs(s) : OneWord(run) /\ (Replaced(run, "ff", "fi") \in Dictionary => run \in Dictionary)
  PROVE  Read(Coded(p, s), s)
  <1> DEFINE t == Coded(p, s)
             c == Certain(t)
  <1>0. "fi" \in Signs /\ "ff" \in Signs
    BY SignFacts
  <1>1. IsCoded(t, p, s)
    BY CodedFacts
  <1> HIDE DEF t
  <1>2. /\ t \in Texts /\ Len(t) = Len(s) /\ Len(s) \in Nat /\ s \in Texts
        /\ \A i \in 1 .. Len(s) : t[i] = Letter(p, s[i])
    BY <1>1 DEF IsCoded, Spelled
  <1>3. /\ \A i \in 1 .. Len(s) : s[i] \in Signs /\ s[i] \notin Ligatures
    BY SpelledFacts
  <1>4. \A i \in 1 .. Len(s) : /\ s[i] = "fi" => t[i] = "FI"
                               /\ s[i] = "ff" => t[i] = "E0"
                               /\ s[i] \notin {"fi", "ff"} => t[i] = s[i]
    BY <1>2, <1>3, LetterFacts
  <1>5. \A i \in 1 .. Len(s) : s[i] # "FI" /\ s[i] # "E0"
    BY <1>3, SignFacts
  <1>6. Expanded(t) = s
    BY ExpandedCoded DEF t
  <1>7. RepairLigatureSpaces(t) = t
    <2>1. \A i \in 1 .. Len(t) : t[i] = "comma" => i = Len(t)
      <3> TAKE i \in 1 .. Len(t)
      <3>1. i \in 1 .. Len(s) /\ (t[i] = "comma" <=> s[i] = "comma")
        BY <1>1 DEF IsCoded
      <3>2. s[i] = "comma" => i = Len(s)
        <4>1. "comma" \in Marks /\ "comma" # "hyphen"
          BY SignFacts
        <4> QED BY <3>1, <4>1 DEF Spelled, IsLetters
      <3> QED BY <1>2, <3>1, <3>2
    <2>2. \A run \in Runs(s) : OneWord(run)
      OBVIOUS
    <2> QED BY <1>2, <1>6, <2>1, <2>2, KeptTogether
  <1>8. ExpandLigatures(t) = s
    <2> DEFINE e == ExpandLigatures(t)
    <2>1. /\ c \in Texts /\ Len(c) = Len(t)
          /\ \A i \in 1 .. Len(t) : c[i] = IF t[i] = "FI" THEN "fi" ELSE t[i]
          /\ e \in Texts /\ Len(e) = Len(t)
          /\ \A i \in 1 .. Len(t) : e[i] = IF c[i] = "E0" THEN Resolved(c, i) ELSE c[i]
      BY <1>2, ExpandFacts
    <2> HIDE DEF e, c
    <2>2. \A i \in 1 .. Len(s) : /\ s[i] = "ff" => c[i] = "E0"
                                 /\ s[i] # "ff" => c[i] = s[i] /\ c[i] # "E0"
      BY <1>2, <1>4, <1>5, <2>1, SignFacts
    <2>3. Replaced(c, "E0", "ff") = s
      <3> DEFINE x == Replaced(c, "E0", "ff")
      <3>1. /\ x \in Texts /\ Len(x) = Len(c)
            /\ \A i \in 1 .. Len(c) : x[i] = IF c[i] = "E0" THEN "ff" ELSE c[i]
        BY <1>0, <2>1, ReplacedFacts
      <3> HIDE DEF x
      <3>2. \A i \in 1 .. Len(x) : x[i] = s[i]
        BY <1>2, <2>1, <2>2, <3>1
      <3>3. Len(x) = Len(s) /\ x \in Seq(Signs) /\ s \in Seq(Signs)
        BY <1>2, <2>1, <3>1 DEF Texts
      <3>4. x = s
        BY <3>2, <3>3, SeqEqual
      <3> QED BY <3>4 DEF x
    <2>4. Replaced(c, "E0", "fi") = Replaced(s, "ff", "fi")
      <3> DEFINE x == Replaced(c, "E0", "fi")
                 y == Replaced(s, "ff", "fi")
      <3>1. /\ x \in Texts /\ Len(x) = Len(c)
            /\ \A i \in 1 .. Len(c) : x[i] = IF c[i] = "E0" THEN "fi" ELSE c[i]
        BY <1>0, <2>1, ReplacedFacts
      <3>2. /\ y \in Texts /\ Len(y) = Len(s)
            /\ \A i \in 1 .. Len(s) : y[i] = IF s[i] = "ff" THEN "fi" ELSE s[i]
        BY <1>0, <1>2, ReplacedFacts
      <3> HIDE DEF x, y
      <3>3. \A i \in 1 .. Len(x) : x[i] = y[i]
        BY <1>2, <2>1, <2>2, <3>1, <3>2
      <3>4. Len(x) = Len(y) /\ x \in Seq(Signs) /\ y \in Seq(Signs)
        BY <1>2, <2>1, <3>1, <3>2 DEF Texts
      <3>5. x = y
        BY <3>3, <3>4, SeqEqual
      <3> QED BY <3>5 DEF x, y
    <2>5. ASSUME NEW i \in 1 .. Len(c), s[i] = "ff" PROVE Resolved(c, i) = "ff"
      <3> DEFINE y == Replaced(s, "ff", "fi")
      <3>1. PICK from \in 1 .. i, to \in i - 1 .. Len(c) :
              /\ BeginsAt(c, i, Stops, from) /\ EndsAt(c, i, Stops, to)
              /\ Resolved(c, i) =
                   IF SubSeq(s, from, to) \notin Dictionary /\ SubSeq(y, from, to) \in Dictionary
                   THEN "fi" ELSE "ff"
        BY <2>1, <2>3, <2>4, ResolvedIs
      <3>2. StopAlike(c, s, Stops)
        <4>1. \A j \in 1 .. Len(s) : c[j] \in Stops <=> s[j] \in Stops
          <5>1. "E0" \notin Stops /\ "ff" \notin Stops
            BY SignFacts
          <5> QED BY <2>2, <5>1
        <4> QED BY <1>2, <2>1, <4>1 DEF StopAlike
      <3>3. BeginsAt(s, i, Stops, from) /\ EndsAt(s, i, Stops, to)
        <4>0. /\ Len(s) \in Nat /\ Len(c) = Len(s) /\ i \in 1 .. Len(s)
              /\ \A j \in 1 .. Len(s) : c[j] \in Stops <=> s[j] \in Stops
          BY <1>2, <2>1, <3>2 DEF StopAlike
        <4>1. from \in 1 .. i /\ to \in i - 1 .. Len(s)
          BY <4>0
        <4>2. /\ \A j \in from .. i - 1 : j \in 1 .. Len(s)
              /\ \A j \in i .. to : j \in 1 .. Len(s)
              /\ from # 1 => from - 1 \in 1 .. Len(s)
              /\ to # Len(s) => to + 1 \in 1 .. Len(s)
          BY <4>0, <4>1
        <4> QED BY <3>1, <4>0, <4>1, <4>2 DEF BeginsAt, EndsAt
      <3> DEFINE run == SubSeq(s, from, to)
      <3>4. run \in Runs(s)
        <4>1. i \in 1 .. Len(s) /\ s[i] \notin Marks
          BY <1>2, <2>1, <2>5, SignFacts
        <4> QED BY <1>2, <3>3, <4>1, RunIsOne
      <3>5. Replaced(run, "ff", "fi") = SubSeq(y, from, to)
        <4>1. from \in Nat \ {0} /\ to \in Nat /\ to <= Len(s)
          BY <1>2, <2>1
        <4>2. PartReplaced(s, "ff", "fi", from, to)
          BY <1>0, <1>2, <4>1, ReplacedPart
        <4> QED BY <4>2 DEF PartReplaced
      <3> HIDE DEF run, y
      <3>6. Replaced(run, "ff", "fi") \in Dictionary => run \in Dictionary
        BY <3>4
      <3> QED BY <3>1, <3>5, <3>6 DEF run
    <2>6. \A i \in 1 .. Len(e) : e[i] = s[i]
      BY <1>2, <2>1, <2>2, <2>5
    <2>7. Len(e) = Len(s) /\ e \in Seq(Signs) /\ s \in Seq(Signs)
      BY <1>2, <2>1 DEF Texts
    <2>8. e = s
      BY <2>6, <2>7, SeqEqual
    <2> QED BY <2>8 DEF e
  <1>9. Read(t, s)
    BY <1>2, <1>7, <1>8 DEF Read
  <1> QED BY <1>9 DEF t

\* A text without stops is one run.
LEMMA WholeRun ==
  ASSUME NEW m \in Texts, \A j \in 1 .. Len(m) : m[j] \notin Stops,
         NEW i \in 1 .. Len(m),
         NEW from, BeginsAt(m, i, Stops, from), NEW to, EndsAt(m, i, Stops, to)
  PROVE  from = 1 /\ to = Len(m)
  <1>1. Len(m) \in Nat
    BY DEF Texts
  <1>2. from \in 1 .. i /\ to \in i - 1 .. Len(m)
    BY DEF BeginsAt, EndsAt
  <1>3. from # 1 => from - 1 \in 1 .. Len(m)
    BY <1>1, <1>2
  <1>4. to # Len(m) => to + 1 \in 1 .. Len(m)
    BY <1>1, <1>2
  <1> QED BY <1>3, <1>4 DEF BeginsAt, EndsAt

LEMMA OneRun ==
  ASSUME NEW m \in Texts, \A j \in 1 .. Len(m) : m[j] \notin Stops,
         NEW run \in Runs(m)
  PROVE  run = m
  <1>1. Len(m) \in Nat /\ DOMAIN m = 1 .. Len(m) /\ SubSeq(m, 1, Len(m)) = m
    BY SubSeqFull DEF Texts
  <1>2. PICK i \in 1 .. Len(m) : run = RunBefore(m, i, Stops) \o RunFrom(m, i, Stops)
    BY <1>1 DEF Runs
  <1>3. StopAlike(m, m, Stops) /\ i \in 1 .. Len(m) + 1
    BY <1>1 DEF StopAlike
  <1>4. RunsAlike(m, m, Stops, i)
    BY <1>3, SameRuns
  <1>5. PICK from \in 1 .. i, to \in i - 1 .. Len(m) :
          /\ BeginsAt(m, i, Stops, from) /\ EndsAt(m, i, Stops, to)
          /\ RunBefore(m, i, Stops) = SubSeq(m, from, i - 1)
          /\ RunFrom(m, i, Stops) = SubSeq(m, i, to)
    BY <1>4 DEF RunsAlike
  <1>6. from = 1 /\ to = Len(m)
    BY <1>5, WholeRun
  <1> DEFINE h == i - 1
  <1>7. 1 \in 1 .. Len(m) + 1 /\ h \in 1 - 1 .. Len(m) /\ Len(m) \in h .. Len(m) /\ h + 1 = i
    BY <1>1
  <1> HIDE DEF h
  <1>8. SubSeq(m, 1, h) \o SubSeq(m, h + 1, Len(m)) = SubSeq(m, 1, Len(m))
    BY <1>1, <1>7, ConcatAdjacentSubSeq DEF Texts
  <1>9. RunBefore(m, i, Stops) = SubSeq(m, 1, h) /\ RunFrom(m, i, Stops) = SubSeq(m, h + 1, Len(m))
    BY <1>5, <1>6, <1>7 DEF h
  <1> QED BY <1>1, <1>2, <1>8, <1>9

\* A listed word in the other font.
LEMMA HeadingRead ==
  ASSUME NEW p, p.heading, NEW s, Spelled(s), s \in Dictionary,
         \A i \in 1 .. Len(s) : IsLetters(s[i]) /\ s[i] # "ff",
         Misread(s) \notin Dictionary, OneWord(Misread(s))
  PROVE  Read(Coded(p, s), s)
  <1> DEFINE t == Coded(p, s)
             c == Certain(t)
             w == Misread(s)
  <1>0. "fi" \in Signs /\ "ff" \in Signs
    BY SignFacts
  <1>1. IsCoded(t, p, s)
    BY CodedFacts
  <1> HIDE DEF t
  <1>2. /\ t \in Texts /\ Len(t) = Len(s) /\ Len(s) \in Nat /\ s \in Texts
        /\ \A i \in 1 .. Len(s) : t[i] = Letter(p, s[i])
    BY <1>1 DEF IsCoded, Spelled
  <1>3. \A i \in 1 .. Len(s) : s[i] \in Signs /\ s[i] \notin Ligatures /\ s[i] # "ff" /\ s[i] \notin Stops
    BY SpelledFacts, SignFacts DEF IsLetters
  <1>4. \A i \in 1 .. Len(s) : /\ s[i] = "fi" => t[i] = "E0"
                               /\ s[i] # "fi" => t[i] = s[i]
    BY <1>2, <1>3, LetterFacts
  <1>5. \A i \in 1 .. Len(s) : s[i] # "FI" /\ s[i] # "E0"
    BY <1>3, SignFacts
  <1>6. /\ w \in Texts /\ Len(w) = Len(s)
        /\ \A i \in 1 .. Len(s) : w[i] = IF s[i] = "fi" THEN "ff" ELSE s[i]
    BY <1>0, <1>2, ReplacedFacts DEF Misread
  <1> HIDE DEF w
  <1>7. \A i \in 1 .. Len(w) : w[i] \notin Stops
    BY <1>3, <1>6, SignFacts
  <1>8. Expanded(t) = w
    <2> DEFINE m == Expanded(t)
    <2>1. /\ m \in Texts /\ Len(m) = Len(t)
          /\ \A i \in 1 .. Len(t) : m[i] = IF t[i] = "FI" THEN "fi" ELSE
                                           IF t[i] = "E0" THEN "ff" ELSE t[i]
      BY <1>2, ExpandedFacts
    <2> HIDE DEF m
    <2>2. \A i \in 1 .. Len(m) : m[i] = w[i]
      BY <1>2, <1>4, <1>5, <1>6, <2>1, SignFacts
    <2>3. Len(m) = Len(w) /\ m \in Seq(Signs) /\ w \in Seq(Signs)
      BY <1>2, <1>6, <2>1 DEF Texts
    <2>4. m = w
      BY <2>2, <2>3, SeqEqual
    <2> QED BY <2>4 DEF m
  <1>9. RepairLigatureSpaces(t) = t
    <2>1. \A i \in 1 .. Len(t) : t[i] = "comma" => i = Len(t)
      <3> TAKE i \in 1 .. Len(t)
      <3>1. i \in 1 .. Len(s) /\ (t[i] = "comma" <=> s[i] = "comma")
        BY <1>1 DEF IsCoded
      <3> QED BY <1>3, <3>1, SignFacts
    <2>2. \A run \in Runs(w) : OneWord(run)
      <3>1. OneWord(w)
        BY DEF w
      <3> QED BY <1>6, <1>7, <3>1, OneRun
    <2> QED BY <1>2, <1>8, <2>1, <2>2, KeptTogether
  <1>10. ExpandLigatures(t) = s
    <2> DEFINE e == ExpandLigatures(t)
    <2>1. /\ c \in Texts /\ Len(c) = Len(t)
          /\ \A i \in 1 .. Len(t) : c[i] = IF t[i] = "FI" THEN "fi" ELSE t[i]
          /\ e \in Texts /\ Len(e) = Len(t)
          /\ \A i \in 1 .. Len(t) : e[i] = IF c[i] = "E0" THEN Resolved(c, i) ELSE c[i]
      BY <1>2, ExpandFacts
    <2> HIDE DEF e, c
    <2>2. \A i \in 1 .. Len(s) : /\ s[i] = "fi" => c[i] = "E0"
                                 /\ s[i] # "fi" => c[i] = s[i] /\ c[i] # "E0"
      BY <1>2, <1>4, <1>5, <2>1, SignFacts
    <2>3. Replaced(c, "E0", "ff") = w
      <3> DEFINE x == Replaced(c, "E0", "ff")
      <3>1. /\ x \in Texts /\ Len(x) = Len(c)
            /\ \A i \in 1 .. Len(c) : x[i] = IF c[i] = "E0" THEN "ff" ELSE c[i]
        BY <1>0, <2>1, ReplacedFacts
      <3> HIDE DEF x
      <3>2. \A i \in 1 .. Len(x) : x[i] = w[i]
        BY <1>2, <1>6, <2>1, <2>2, <3>1
      <3>3. Len(x) = Len(w) /\ x \in Seq(Signs) /\ w \in Seq(Signs)
        BY <1>2, <1>6, <2>1, <3>1 DEF Texts
      <3>4. x = w
        BY <3>2, <3>3, SeqEqual
      <3> QED BY <3>4 DEF x
    <2>4. Replaced(c, "E0", "fi") = s
      <3> DEFINE x == Replaced(c, "E0", "fi")
      <3>1. /\ x \in Texts /\ Len(x) = Len(c)
            /\ \A i \in 1 .. Len(c) : x[i] = IF c[i] = "E0" THEN "fi" ELSE c[i]
        BY <1>0, <2>1, ReplacedFacts
      <3> HIDE DEF x
      <3>2. \A i \in 1 .. Len(x) : x[i] = s[i]
        BY <1>2, <2>1, <2>2, <3>1
      <3>3. Len(x) = Len(s) /\ x \in Seq(Signs) /\ s \in Seq(Signs)
        BY <1>2, <2>1, <3>1 DEF Texts
      <3>4. x = s
        BY <3>2, <3>3, SeqEqual
      <3> QED BY <3>4 DEF x
    <2>5. ASSUME NEW i \in 1 .. Len(c) PROVE Resolved(c, i) = "fi"
      <3>1. PICK from \in 1 .. i, to \in i - 1 .. Len(c) :
              /\ BeginsAt(c, i, Stops, from) /\ EndsAt(c, i, Stops, to)
              /\ Resolved(c, i) =
                   IF SubSeq(w, from, to) \notin Dictionary /\ SubSeq(s, from, to) \in Dictionary
                   THEN "fi" ELSE "ff"
        BY <2>1, <2>3, <2>4, ResolvedIs
      <3>2. \A j \in 1 .. Len(c) : c[j] \notin Stops
        BY <1>2, <1>3, <2>1, <2>2, SignFacts
      <3>3. from = 1 /\ to = Len(c)
        BY <2>1, <3>1, <3>2, WholeRun
      <3>4. SubSeq(w, 1, Len(c)) = w /\ SubSeq(s, 1, Len(c)) = s
        <4>1. Len(c) = Len(w) /\ Len(c) = Len(s) /\ w \in Seq(Signs) /\ s \in Seq(Signs)
          BY <1>2, <1>6, <2>1 DEF Texts
        <4>2. SubSeq(w, 1, Len(w)) = w /\ SubSeq(s, 1, Len(s)) = s
          BY <4>1, SubSeqFull
        <4> QED BY <4>1, <4>2
      <3>5. w \notin Dictionary
        BY DEF w
      <3> QED BY <3>1, <3>3, <3>4, <3>5
    <2>6. \A i \in 1 .. Len(e) : e[i] = s[i]
      BY <1>2, <2>1, <2>2, <2>5
    <2>7. Len(e) = Len(s) /\ e \in Seq(Signs) /\ s \in Seq(Signs)
      BY <1>2, <2>1 DEF Texts
    <2>8. e = s
      BY <2>6, <2>7, SeqEqual
    <2> QED BY <2>8 DEF e
  <1>11. Read(t, s)
    BY <1>2, <1>9, <1>10 DEF Read
  <1> QED BY <1>11 DEF t

LEMMA SinglesFacts ==
  ASSUME NEW t \in Texts
  PROVE  /\ Singles(t) \in Seq(Texts) /\ Len(Singles(t)) = Len(t) /\ Len(t) \in Nat
         /\ FlattenSeq(Singles(t)) = t
         /\ \A i \in 1 .. Len(t) : Singles(t)[i] = <<t[i]>>
  <1>1. t \in Seq(Signs) /\ Len(t) \in Nat /\ DOMAIN t = 1 .. Len(t)
    BY DEF Texts
  <1>2. /\ Singles(t) \in Seq(Seq(Signs)) /\ Len(Singles(t)) = Len(t)
        /\ FlattenSeq(Singles(t)) = t
    BY <1>1, FlattenSingles
  <1>3. \A i \in 1 .. Len(t) : Singles(t)[i] = <<t[i]>>
    BY <1>1 DEF Singles
  <1> QED BY <1>1, <1>2, <1>3 DEF Texts

\* Two listed words that lost the space between them.
LEMMA PairRead ==
  ASSUME NEW p, ~p.heading, NEW q, ~q.heading, NEW f, Spelled(f), NEW s, Spelled(s),
         \A i \in 1 .. Len(f) : IsLetters(f[i]), \A i \in 1 .. Len(s) : IsLetters(s[i]),
         f # <<>>, s # <<>>, f \in Dictionary, s \in Dictionary, s[1] \in {"fi", "ff"},
         ClearPair(f, s)
  PROVE  RepairLigatureSpaces(Coded(p, f) \o Coded(q, s)) = Cut(Coded(p, f), " ", Coded(q, s))
  <1> DEFINE r == f \o s
             a == Coded(p, f)
             b == Coded(q, s)
             t == Coded(p, r)
             n == Len(f) + 1
  <1>1. /\ f \in Texts /\ s \in Texts /\ Len(f) \in Nat \ {0} /\ Len(s) \in Nat \ {0}
    BY EmptySeq DEF Spelled, Texts
  <1>2. /\ r \in Texts /\ Len(r) = Len(f) + Len(s)
        /\ \A i \in 1 .. Len(f) : r[i] = f[i]
        /\ \A i \in 1 .. Len(s) : r[Len(f) + i] = s[i]
    <2>1. /\ r \in Seq(Signs) /\ Len(r) = Len(f) + Len(s)
          /\ \A i \in 1 .. Len(f) + Len(s) : r[i] = IF i <= Len(f) THEN f[i] ELSE s[i - Len(f)]
      BY <1>1, ConcatProperties DEF Texts
    <2> HIDE DEF r
    <2>2. \A i \in 1 .. Len(f) : i \in 1 .. Len(f) + Len(s) /\ i <= Len(f)
      BY <1>1
    <2>3. \A i \in 1 .. Len(s) : /\ Len(f) + i \in 1 .. Len(f) + Len(s) /\ ~(Len(f) + i <= Len(f))
                                 /\ (Len(f) + i) - Len(f) = i
      BY <1>1
    <2> QED BY <2>1, <2>2, <2>3 DEF Texts
  <1> HIDE DEF r
  <1>3. \A i \in 1 .. Len(r) : \/ i \in 1 .. Len(f)
                               \/ i - Len(f) \in 1 .. Len(s) /\ i = Len(f) + (i - Len(f))
    BY <1>1, <1>2
  <1>4. \A i \in 1 .. Len(r) : IsLetters(r[i])
    BY <1>2, <1>3
  <1>5. Spelled(r)
    BY <1>2, <1>4 DEF Spelled
  <1>6. IsCoded(t, p, r) /\ IsCoded(a, p, f) /\ IsCoded(b, q, s)
    BY <1>5, CodedFacts
  <1>7. Expanded(t) = r
    BY <1>5, ExpandedCoded
  <1>8. \A c : Letter(p, c) = Letter(q, c)
    BY DEF Letter
  <1> HIDE DEF a, b, t
  <1>9. /\ t \in Texts /\ a \in Texts /\ b \in Texts
        /\ Len(t) = Len(r) /\ Len(a) = Len(f) /\ Len(b) = Len(s)
        /\ \A i \in 1 .. Len(r) : t[i] = Letter(p, r[i])
        /\ \A i \in 1 .. Len(f) : a[i] = Letter(p, f[i])
        /\ \A i \in 1 .. Len(s) : b[i] = Letter(p, s[i])
    BY <1>6, <1>8 DEF IsCoded
  <1>10. /\ \A i \in 1 .. Len(f) : t[i] = a[i]
         /\ \A i \in 1 .. Len(s) : t[Len(f) + i] = b[i]
    <2>1. \A i \in 1 .. Len(f) : i \in 1 .. Len(r)
      BY <1>1, <1>2
    <2>2. \A i \in 1 .. Len(s) : Len(f) + i \in 1 .. Len(r)
      BY <1>1, <1>2
    <2> QED BY <1>2, <1>9, <2>1, <2>2
  <1>11. t = a \o b
    <2> DEFINE d == a \o b
    <2>1. /\ d \in Seq(Signs) /\ Len(d) = Len(a) + Len(b)
          /\ \A i \in 1 .. Len(a) + Len(b) : d[i] = IF i <= Len(a) THEN a[i] ELSE b[i - Len(a)]
      <3>1. a \in Seq(Signs) /\ b \in Seq(Signs)
        BY <1>9 DEF Texts
      <3> QED BY <3>1, ConcatProperties
    <2> HIDE DEF d
    <2>2. ASSUME NEW i \in 1 .. Len(t) PROVE t[i] = d[i]
      <3>0. i \in 1 .. Len(a) + Len(b) /\ i \in 1 .. Len(r)
        BY <1>1, <1>2, <1>9
      <3>1. CASE i \in 1 .. Len(f)
        <4>1. i <= Len(a)
          BY <1>9, <3>1
        <4> QED BY <1>10, <2>1, <3>0, <3>1, <4>1
      <3>2. CASE i - Len(f) \in 1 .. Len(s) /\ i = Len(f) + (i - Len(f))
        <4> DEFINE k == i - Len(f)
        <4>1. k \in 1 .. Len(s) /\ i = Len(f) + k /\ ~(i <= Len(a)) /\ i - Len(a) = k
          BY <1>1, <1>9, <3>2
        <4> HIDE DEF k
        <4>2. t[i] = b[k] /\ d[i] = b[k]
          BY <1>10, <2>1, <3>0, <4>1
        <4> QED BY <4>2
      <3> QED BY <1>3, <3>0, <3>1, <3>2
    <2>3. Len(t) = Len(d) /\ t \in Seq(Signs)
      BY <1>2, <1>9, <2>1 DEF Texts
    <2>4. t = d
      BY <2>1, <2>2, <2>3, SeqEqual
    <2> QED BY <2>4 DEF d
  <1>12. \A i \in 1 .. Len(r) : r[i] \notin Stops /\ r[i] # "comma"
    BY <1>4, SignFacts DEF IsLetters
  <1>13. ASSUME NEW i \in 1 .. Len(t)
         PROVE  SpaceDropped(t, i) <=> i > 1 /\ IsLetters(t[i - 1]) /\ r \notin Dictionary \cup Exceptions
                                       /\ Splits(r, i)
    <2>1. PICK from \in 1 .. i, to \in i - 1 .. Len(t) :
           /\ BeginsAt(r, i, Stops, from) /\ EndsAt(r, i, Stops, to)
           /\ SpaceDropped(t, i) <=>
                /\ t[i] \in Ligatures /\ i > 1
                /\ \/ t[i - 1] = "comma"
                   \/ /\ IsLetters(t[i - 1])
                      /\ SubSeq(r, from, to) \notin Dictionary \cup Exceptions
                      /\ SubSeq(r, from, i - 1) \in Dictionary
                      /\ SubSeq(r, i, to) \in Dictionary
      <3>1. PICK from \in 1 .. i, to \in i - 1 .. Len(t) :
              BeginsAt(r, i, Stops, from) /\ EndsAt(r, i, Stops, to) /\ DroppedWith(t, r, i, from, to)
        BY <1>7, <1>9, DroppedIs
      <3> QED BY <3>1 DEF DroppedWith
    <2>2. from = 1 /\ to = Len(r)
      BY <1>2, <1>9, <1>12, <2>1, WholeRun
    <2>3. SubSeq(r, 1, Len(r)) = r
      BY <1>2, SubSeqFull DEF Texts
    <2>4. t[i] \in Ligatures <=> r[i] \in {"fi", "ff"}
      BY <1>6, <1>9 DEF IsCoded
    <2>5. i > 1 => t[i - 1] # "comma"
      <3>1. i > 1 => i - 1 \in 1 .. Len(r)
        <4>1. Len(t) = Len(r) /\ Len(r) \in Nat
          BY <1>1, <1>2, <1>9
        <4> QED BY <4>1
      <3>2. \A j \in 1 .. Len(r) : t[j] = "comma" <=> r[j] = "comma"
        BY <1>6 DEF IsCoded
      <3> QED BY <1>12, <3>1, <3>2
    <2> QED BY <2>1, <2>2, <2>3, <2>4, <2>5 DEF Splits
  <1>14. n \in 1 .. Len(t) /\ n - 1 = Len(f) /\ n = Len(f) + 1 /\ Len(t) = Len(f) + Len(s)
    BY <1>1, <1>2, <1>9
  <1>15. SpaceDropped(t, n)
    <2>1. n > 1
      BY <1>1
    <2>2. IsLetters(t[n - 1])
      <3>1. Len(f) \in 1 .. Len(f)
        BY <1>1
      <3>2. f[Len(f)] \notin {"fi", "ff"} /\ IsLetters(f[Len(f)])
        BY <3>1 DEF ClearPair, Last
      <3>3. f[Len(f)] \in Signs /\ f[Len(f)] \notin Ligatures
        BY <3>1, SpelledFacts
      <3>4. a[Len(f)] = f[Len(f)]
        BY <1>9, <3>1, <3>2, <3>3, LetterFacts
      <3> QED BY <1>10, <1>14, <3>1, <3>2, <3>4
    <2>3. r \notin Dictionary \cup Exceptions
      BY DEF ClearPair, r
    <2>4. Splits(r, n)
      <3>1. r[n] \in {"fi", "ff"}
        <4>1. 1 \in 1 .. Len(s)
          BY <1>1
        <4> QED BY <1>2, <1>14, <4>1
      <3>2. SubSeq(r, 1, n - 1) = f
        <4>1. 1 \in 1 .. Len(f) /\ Len(f) \in 1 .. Len(f)
          BY <1>1
        <4>2. SubSeq(r, 1, Len(f)) = SubSeq(f, 1, Len(f))
          BY <1>1, <4>1, SubSeqOfConcat1 DEF r, Texts
        <4>3. SubSeq(f, 1, Len(f)) = f
          BY <1>1, SubSeqFull DEF Texts
        <4> QED BY <1>14, <4>2, <4>3
      <3>3. SubSeq(r, n, Len(r)) = s
        <4>1. /\ n \in Len(f) + 1 .. Len(f) + Len(s) /\ Len(r) \in Len(f) + 1 .. Len(f) + Len(s)
              /\ n - Len(f) = 1 /\ Len(r) - Len(f) = Len(s)
          BY <1>1, <1>2
        <4> HIDE DEF n
        <4>2. SubSeq(r, n, Len(r)) = SubSeq(s, n - Len(f), Len(r) - Len(f))
          BY <1>1, <4>1, SubSeqOfConcat2 DEF r, Texts
        <4>3. SubSeq(s, 1, Len(s)) = s
          BY <1>1, SubSeqFull DEF Texts
        <4> QED BY <4>1, <4>2, <4>3
      <3> QED BY <3>1, <3>2, <3>3 DEF Splits
    <2> QED BY <1>13, <1>14, <2>1, <2>2, <2>3, <2>4
  <1>16. ASSUME NEW i \in 1 .. Len(t), i # n PROVE ~SpaceDropped(t, i)
    <2>1. i > 1 => i \in 2 .. Len(r)
      <3>1. Len(t) = Len(r) /\ Len(r) \in Nat
        BY <1>1, <1>2, <1>9
      <3> QED BY <3>1
    <2>2. i > 1 /\ Splits(r, i) => i = Len(f) + 1
      BY <2>1 DEF ClearPair, r
    <2> QED BY <1>13, <1>16, <2>2
  <1> DEFINE x == Singles(a)
             y == Singles(b)
  <1>17. /\ x \in Seq(Texts) /\ Len(x) = Len(a) /\ FlattenSeq(x) = a
         /\ \A i \in 1 .. Len(a) : x[i] = <<a[i]>>
    BY <1>9, SinglesFacts
  <1>18. /\ y \in Seq(Texts) /\ Len(y) = Len(b) /\ FlattenSeq(y) = b
         /\ \A i \in 1 .. Len(b) : y[i] = <<b[i]>>
    BY <1>9, SinglesFacts
  <1> HIDE DEF x, y
  <1>19. \A i \in 1 .. Len(t) :
           Spacing(t)[i] = IF SpaceDropped(t, i) THEN <<" ", t[i]>> ELSE <<t[i]>>
    BY <1>9, SpacingFacts
  <1>20. /\ Len(f) \in Nat \ {0} /\ Len(s) \in Nat \ {0} /\ Len(a) = Len(f) /\ Len(b) = Len(s)
         /\ Len(x) = Len(f) /\ Len(y) = Len(s) /\ Len(t) = Len(f) + Len(s)
    BY <1>1, <1>9, <1>14, <1>17, <1>18
  <1>21. Len(x) = n - 1 /\ Len(y) = Len(t) - n + 1
    BY <1>20
  <1>22. ASSUME NEW i \in 1 .. Len(x) PROVE x[i] = Spacing(t)[i]
    <2>1. i \in 1 .. Len(f) /\ i \in 1 .. Len(t) /\ i # n
      BY <1>20
    <2>2. Spacing(t)[i] = <<t[i]>>
      BY <1>16, <1>19, <2>1
    <2> QED BY <1>9, <1>10, <1>17, <2>1, <2>2
  <1>23. ASSUME NEW i \in 2 .. Len(y) PROVE y[i] = Spacing(t)[n - 1 + i]
    <2> DEFINE j == n - 1 + i
    <2>1. i \in 1 .. Len(s) /\ j = Len(f) + i /\ j \in 1 .. Len(t) /\ j # n
      BY <1>20
    <2> HIDE DEF j
    <2>2. Spacing(t)[j] = <<t[j]>>
      BY <1>16, <1>19, <2>1
    <2>3. y[i] = Spacing(t)[j]
      BY <1>9, <1>10, <1>18, <2>1, <2>2
    <2> QED BY <2>3 DEF j
  <1>24. y[1] = <<t[n]>>
    <2>1. 1 \in 1 .. Len(s) /\ n = Len(f) + 1
      BY <1>20
    <2> QED BY <1>9, <1>10, <1>18, <2>1
  <1> HIDE DEF n
  <1>25. RepairLigatureSpaces(t) = Cut(FlattenSeq(x), " ", FlattenSeq(y))
    BY <1>9, <1>14, <1>15, <1>17, <1>18, <1>21, <1>22, <1>23, <1>24, SpaceRestored
  <1> QED BY <1>11, <1>17, <1>18, <1>25 DEF a, b

-----------------------------------------------------------------------------
(* A words word *)

LEMMA SpelledPart ==
  ASSUME NEW w, Spelled(w), NEW a \in 1 .. Len(w) + 1, NEW b \in a - 1 .. Len(w)
  PROVE  /\ Spelled(SubSeq(w, a, b)) /\ Len(SubSeq(w, a, b)) = b - a + 1
         /\ \A i \in 1 .. b - a + 1 : SubSeq(w, a, b)[i] = w[a + i - 1]
  <1> DEFINE s == SubSeq(w, a, b)
  <1>1. /\ Len(w) \in Nat /\ \A i \in 1 .. Len(w) : w[i] \in Signs
        /\ \A i \in 1 .. Len(w) : IsLetters(w[i]) \/ w[i] = "hyphen" \/ (w[i] = "comma" /\ i = Len(w))
    BY SpelledFacts DEF Spelled
  <1>2. a \in Int /\ b \in Int /\ \A i \in a .. b : i \in 1 .. Len(w)
    BY <1>1
  <1>3. \A i \in a .. b : w[i] \in Signs
    BY <1>1, <1>2
  <1>4. /\ s \in Seq(Signs) /\ Len(s) = (IF a <= b THEN b - a + 1 ELSE 0)
        /\ \A i \in 1 .. b - a + 1 : s[i] = w[a + i - 1]
    BY <1>2, <1>3, SubSeqProperties
  <1> HIDE DEF s
  <1>5. Len(s) = b - a + 1
    BY <1>1, <1>4
  <1>6. ASSUME NEW i \in 1 .. Len(s)
        PROVE  IsLetters(s[i]) \/ s[i] = "hyphen" \/ (s[i] = "comma" /\ i = Len(s))
    <2> DEFINE j == a + i - 1
    <2>1. j \in 1 .. Len(w) /\ i \in 1 .. b - a + 1 /\ (j = Len(w) => i = Len(s))
      BY <1>1, <1>5
    <2>2. s[i] = w[j]
      BY <1>4, <2>1
    <2> HIDE DEF j
    <2>3. IsLetters(w[j]) \/ w[j] = "hyphen" \/ (w[j] = "comma" /\ j = Len(w))
      BY <1>1, <2>1
    <2> QED BY <2>1, <2>2, <2>3
  <1>7. Spelled(s)
    BY <1>4, <1>6 DEF Spelled, Texts
  <1> QED BY <1>4, <1>5, <1>7 DEF s

\* What comes before, at and after a place.
LEMMA SpelledSplit ==
  ASSUME NEW w, Spelled(w), NEW b \in 1 .. Len(w)
  PROVE  /\ w = Cut(SubSeq(w, 1, b - 1), w[b], SubSeq(w, b + 1, Len(w)))
         /\ SubSeq(w, 1, b) = SubSeq(w, 1, b - 1) \o <<w[b]>>
         /\ w = SubSeq(w, 1, b) \o SubSeq(w, b + 1, Len(w))
  <1>1. Len(w) \in Nat /\ w \in Seq(Signs) /\ SubSeq(w, 1, Len(w)) = w
    BY SubSeqFull DEF Spelled, Texts
  <1>2. 1 \in 1 .. Len(w) /\ b \in 1 .. Len(w)
    BY <1>1
  <1>3. SubSeq(w, 1, b) = SubSeq(w, 1, b - 1) \o <<w[b]>>
    BY <1>1, <1>2, SubSeqRecursiveSecond
  <1>4. /\ 1 \in 1 .. Len(w) + 1 /\ b \in 1 - 1 .. Len(w) /\ Len(w) \in b .. Len(w)
    BY <1>1
  <1>5. SubSeq(w, 1, b) \o SubSeq(w, b + 1, Len(w)) = SubSeq(w, 1, Len(w))
    BY <1>1, <1>4, ConcatAdjacentSubSeq
  <1> QED BY <1>1, <1>3, <1>5 DEF Cut

\* The word on paper, before and after its break.
Left(p) == SubSeq(p.word, 1, IF p.word[p.broken] = "hyphen" THEN p.broken - 1 ELSE p.broken)

Right(p) == SubSeq(p.word, p.broken + 1, Len(p.word))

OnPaper(p) == IF p.broken = 0 THEN p.word ELSE Cut(Left(p), "break", Right(p))

LEMMA GlyphsWhole ==
  ASSUME NEW p, Spelled(p.word), p.broken = 0
  PROVE  Glyphs(p) = Coded(p, p.word)
  <1> DEFINE c == Coded(p, p.word)
             g == [i \in DOMAIN p.word |->
                     IF i # p.broken THEN <<Letter(p, p.word[i])>>
                     ELSE IF p.word[i] = "hyphen" THEN <<"break">> ELSE <<Letter(p, p.word[i]), "break">>]
  <1>1. Len(p.word) \in Nat /\ DOMAIN p.word = 1 .. Len(p.word)
    BY SpelledFacts
  <1>2. IsCoded(c, p, p.word)
    BY CodedFacts
  <1> HIDE DEF c
  <1>3. c \in Texts /\ DOMAIN c = 1 .. Len(p.word) /\ \A i \in 1 .. Len(p.word) : c[i] = Letter(p, p.word[i])
    BY <1>2 DEF IsCoded, Texts
  <1>4. g = Singles(c)
    <2>1. \A i \in 1 .. Len(p.word) : i # p.broken
      BY <1>1
    <2> QED BY <1>1, <1>3, <2>1 DEF Singles
  <1>5. FlattenSeq(Singles(c)) = c
    BY <1>3, SinglesFacts
  <1>6. Glyphs(p) = FlattenSeq(g)
    BY DEF Glyphs
  <1> HIDE DEF g
  <1> QED BY <1>4, <1>5, <1>6 DEF c

LEMMA CodedParts ==
  ASSUME NEW p, NEW w, Spelled(w), NEW b \in 1 .. Len(w)
  PROVE  Coded(p, SubSeq(w, 1, b)) = Coded(p, SubSeq(w, 1, b - 1)) \o <<Letter(p, w[b])>>
  <1> DEFINE x == SubSeq(w, 1, b)
             y == SubSeq(w, 1, b - 1)
             c == Coded(p, x)
             d == Coded(p, y)
             l == Letter(p, w[b])
  <1>1. /\ Len(w) \in Nat /\ \A i \in 1 .. Len(w) : w[i] \in Signs /\ w[i] \notin Ligatures
        /\ b \in Nat \ {0}
    <2>1. Len(w) \in Nat /\ \A i \in 1 .. Len(w) : w[i] \in Signs /\ w[i] \notin Ligatures
      BY SpelledFacts
    <2>2. b \in Nat \ {0}
      BY <2>1
    <2> QED BY <2>1, <2>2
  <1>2. /\ Spelled(x) /\ Len(x) = b - 1 + 1 /\ \A i \in 1 .. b - 1 + 1 : x[i] = w[1 + i - 1]
    <2>1. 1 \in 1 .. Len(w) + 1 /\ b \in 1 - 1 .. Len(w)
      BY <1>1
    <2> QED BY <2>1, SpelledPart
  <1>3. /\ Spelled(y) /\ Len(y) = (b - 1) - 1 + 1 /\ \A i \in 1 .. (b - 1) - 1 + 1 : y[i] = w[1 + i - 1]
    <2> DEFINE k == b - 1
    <2>1. 1 \in 1 .. Len(w) + 1 /\ k \in 1 - 1 .. Len(w)
      BY <1>1
    <2> HIDE DEF k
    <2>2. /\ Spelled(SubSeq(w, 1, k)) /\ Len(SubSeq(w, 1, k)) = k - 1 + 1
          /\ \A i \in 1 .. k - 1 + 1 : SubSeq(w, 1, k)[i] = w[1 + i - 1]
      BY <2>1, SpelledPart
    <2> QED BY <2>2 DEF k
  <1>4. IsCoded(c, p, x) /\ IsCoded(d, p, y)
    BY <1>2, <1>3, CodedFacts
  <1>5. l \in Signs
    BY <1>1, LetterFacts
  <1> HIDE DEF x, y, c, d, l
  <1>6. Len(x) = b /\ Len(y) = b - 1 /\ \A i \in 1 .. b : x[i] = w[i]
    BY <1>1, <1>2, <1>3
  <1>7. \A i \in 1 .. b - 1 : y[i] = w[i]
    BY <1>1, <1>3
  <1>8. c \in Texts /\ d \in Texts /\ Len(c) = b /\ Len(d) = b - 1
    BY <1>4, <1>6 DEF IsCoded
  <1>9. \A i \in 1 .. b - 1 : c[i] = d[i]
    <2> TAKE i \in 1 .. b - 1
    <2>1. i \in 1 .. b
      BY <1>1
    <2> QED BY <1>4, <1>6, <1>7, <2>1 DEF IsCoded
  <1>10. c[b] = l
    <2>1. b \in 1 .. b
      BY <1>1
    <2> QED BY <1>4, <1>6, <2>1 DEF IsCoded, l
  <1> DEFINE u == <<l>>
             e == d \o u
  <1>11. u \in Seq(Signs) /\ Len(u) = 1 /\ u[1] = l
    BY <1>5
  <1> HIDE DEF u
  <1>12. /\ e \in Seq(Signs) /\ Len(e) = Len(d) + Len(u)
         /\ \A i \in 1 .. Len(d) + Len(u) : e[i] = IF i <= Len(d) THEN d[i] ELSE u[i - Len(d)]
    <2>1. d \in Seq(Signs)
      BY <1>8 DEF Texts
    <2> QED BY <1>11, <2>1, ConcatProperties
  <1> HIDE DEF e
  <1>13. ASSUME NEW i \in 1 .. Len(c) PROVE c[i] = e[i]
    <2>0. i \in 1 .. Len(d) + Len(u)
      BY <1>1, <1>8, <1>11
    <2>1. CASE i = b
      <3>1. ~(i <= Len(d)) /\ i - Len(d) = 1
        BY <1>1, <1>8, <2>1
      <3> QED BY <1>10, <1>11, <1>12, <2>0, <2>1, <3>1
    <2>2. CASE i # b
      <3>1. i \in 1 .. b - 1 /\ i <= Len(d)
        BY <1>1, <1>8, <2>2
      <3> QED BY <1>9, <1>12, <2>0, <3>1
    <2> QED BY <2>1, <2>2
  <1>14. Len(c) = Len(e) /\ c \in Seq(Signs)
    BY <1>1, <1>8, <1>11, <1>12 DEF Texts
  <1>15. c = e
    BY <1>12, <1>13, <1>14, SeqEqual
  <1> QED BY <1>15 DEF c, d, e, u, x, y, l

LEMMA GlyphsBroken ==
  ASSUME NEW p, Spelled(p.word), NEW b, b = p.broken, b \in 1 .. Len(p.word), b # Len(p.word)
  PROVE  Glyphs(p) = Cut(Coded(p, Left(p)), "break", Coded(p, Right(p)))
  <1> DEFINE w == p.word
             pre == SubSeq(w, 1, b - 1)
             post == Right(p)
             m == IF w[b] = "hyphen" THEN <<"break">> ELSE <<Letter(p, w[b]), "break">>
             c == Coded(p, pre)
             d == Coded(p, post)
             x == Singles(c)
             y == Singles(d)
             g == [i \in DOMAIN w |->
                     IF i # b THEN <<Letter(p, w[i])>>
                     ELSE IF w[i] = "hyphen" THEN <<"break">> ELSE <<Letter(p, w[i]), "break">>]
  <1>1. /\ Len(w) \in Nat /\ DOMAIN w = 1 .. Len(w)
        /\ \A i \in 1 .. Len(w) : w[i] \in Signs /\ w[i] \notin Ligatures
        /\ b \in Nat \ {0}
    <2>1. /\ Len(w) \in Nat /\ DOMAIN w = 1 .. Len(w)
          /\ \A i \in 1 .. Len(w) : w[i] \in Signs /\ w[i] \notin Ligatures
      BY SpelledFacts
    <2> HIDE DEF w
    <2>2. b \in Nat \ {0}
      <3>1. b \in 1 .. Len(w)
        BY DEF w
      <3> QED BY <2>1, <3>1
    <2> QED BY <2>1, <2>2
  <1>2. /\ Spelled(pre) /\ Len(pre) = b - 1 /\ \A i \in 1 .. b - 1 : pre[i] = w[i]
    <2> DEFINE k == b - 1
    <2>1. 1 \in 1 .. Len(w) + 1 /\ k \in 1 - 1 .. Len(w)
      BY <1>1
    <2> HIDE DEF k
    <2>2. /\ Spelled(SubSeq(w, 1, k)) /\ Len(SubSeq(w, 1, k)) = k - 1 + 1
          /\ \A i \in 1 .. k - 1 + 1 : SubSeq(w, 1, k)[i] = w[1 + i - 1]
      BY <2>1, SpelledPart
    <2>3. k - 1 + 1 = k /\ \A i \in 1 .. k : 1 + i - 1 = i
      BY <2>1
    <2> QED BY <2>2, <2>3 DEF k
  <1>3. /\ Spelled(post) /\ Len(post) = Len(w) - b /\ \A i \in 1 .. Len(w) - b : post[i] = w[b + i]
    <2> DEFINE k == b + 1
               n == Len(w)
    <2>1. k \in 1 .. n + 1 /\ n \in k - 1 .. n
      BY <1>1
    <2> HIDE DEF k
    <2>2. /\ Spelled(SubSeq(w, k, n)) /\ Len(SubSeq(w, k, n)) = n - k + 1
          /\ \A i \in 1 .. n - k + 1 : SubSeq(w, k, n)[i] = w[k + i - 1]
      BY <2>1, SpelledPart
    <2>3. n - k + 1 = n - b /\ \A i \in 1 .. n - b : k + i - 1 = b + i
      BY <1>1 DEF k
    <2>4. post = SubSeq(w, k, n)
      BY DEF Right, k
    <2> QED BY <2>2, <2>3, <2>4
  <1>4. IsCoded(c, p, pre) /\ IsCoded(d, p, post)
    BY <1>2, <1>3, CodedFacts
  <1>5. m \in Texts
    <2>1. w[b] \in Signs /\ w[b] \notin Ligatures
      BY <1>1
    <2>2. Letter(p, w[b]) \in Signs /\ "break" \in Signs
      BY <2>1, LetterFacts, SignFacts
    <2> QED BY <2>2, ShortSeqs DEF Texts
  <1> HIDE DEF pre, post, c, d, m
  <1>6. /\ c \in Texts /\ d \in Texts /\ Len(c) = b - 1 /\ Len(d) = Len(w) - b
        /\ \A i \in 1 .. b - 1 : c[i] = Letter(p, w[i])
        /\ \A i \in 1 .. Len(w) - b : d[i] = Letter(p, w[b + i])
    BY <1>2, <1>3, <1>4 DEF IsCoded
  <1>7. /\ x \in Seq(Texts) /\ Len(x) = Len(c) /\ FlattenSeq(x) = c
        /\ \A i \in 1 .. Len(c) : x[i] = <<c[i]>>
    BY <1>6, SinglesFacts
  <1>8. /\ y \in Seq(Texts) /\ Len(y) = Len(d) /\ FlattenSeq(y) = d
        /\ \A i \in 1 .. Len(d) : y[i] = <<d[i]>>
    BY <1>6, SinglesFacts
  <1> HIDE DEF x, y
  <1>9. /\ g \in Seq(Texts) /\ Len(g) = Len(w)
        /\ \A i \in 1 .. Len(w) : i # b => g[i] = <<Letter(p, w[i])>>
        /\ g[b] = m
    <2>1. \A i \in 1 .. Len(w) : Letter(p, w[i]) \in Signs
      BY <1>1, LetterFacts
    <2>2. \A i \in 1 .. Len(w) : <<Letter(p, w[i])>> \in Texts
      BY <2>1, ShortSeqs DEF Texts
    <2>3. \A i \in 1 .. Len(w) : i # b => g[i] = <<Letter(p, w[i])>>
      BY <1>1
    <2>4. g[b] = m
      BY <1>1 DEF m
    <2>5. DOMAIN g = 1 .. Len(w) /\ g = [i \in 1 .. Len(w) |-> g[i]]
      BY <1>1
    <2> HIDE DEF g
    <2>6. \A i \in 1 .. Len(w) : g[i] \in Texts
      BY <1>5, <2>2, <2>3, <2>4
    <2>7. g \in [1 .. Len(w) -> Texts]
      BY <2>5, <2>6
    <2> QED BY <1>1, <2>3, <2>4, <2>7, SeqOfFunction
  <1>10. Glyphs(p) = FlattenSeq(g)
    BY DEF Glyphs
  <1> HIDE DEF g
  <1>11. g = Cut(x, m, y)
    <2>0. /\ Len(w) \in Nat /\ b \in 1 .. Len(w) /\ Len(x) = b - 1 /\ Len(y) = Len(w) - b /\ Len(g) = Len(w)
      BY <1>1, <1>6, <1>7, <1>8, <1>9
    <2>1. Len(x) \in Nat /\ Len(y) \in Nat /\ Len(g) = Len(x) + 1 + Len(y) /\ Len(x) + 1 = b
      BY <2>0
    <2>2. \A i \in 1 .. Len(x) : g[i] = x[i]
      <3> TAKE i \in 1 .. Len(x)
      <3>1. i \in 1 .. b - 1 /\ i \in 1 .. Len(w) /\ i # b
        BY <2>0
      <3> QED BY <1>6, <1>7, <1>9, <3>1
    <2>3. \A i \in 1 .. Len(y) : g[Len(x) + 1 + i] = y[i]
      <3> TAKE i \in 1 .. Len(y)
      <3>1. i \in 1 .. Len(w) - b /\ b + i \in 1 .. Len(w) /\ b + i # b /\ Len(x) + 1 + i = b + i
        BY <2>0
      <3> QED BY <1>6, <1>8, <1>9, <3>1
    <2>4. IsCut(g, x, m, y)
      BY <1>9, <2>1, <2>2, <2>3 DEF IsCut
    <2> QED BY <1>5, <1>7, <1>8, <1>9, <2>4, CutIs
  <1>12. FlattenSeq(g) = (c \o m) \o d
    <2>1. x \in Seq(Seq(Signs)) /\ y \in Seq(Seq(Signs)) /\ m \in Seq(Signs)
      BY <1>5, <1>7, <1>8 DEF Texts
    <2>2. FlattensApart(x, m, y)
      BY <2>1, FlattenApart
    <2> QED BY <1>7, <1>8, <1>11, <2>2 DEF FlattensApart
  <1>13. c \o m = Coded(p, Left(p)) \o <<"break">>
    <2>1. CASE w[b] = "hyphen"
      <3>1. Left(p) = pre /\ m = <<"break">>
        BY <2>1 DEF Left, pre, m
      <3> QED BY <3>1 DEF c
    <2>2. CASE w[b] # "hyphen"
      <3>1. Left(p) = SubSeq(w, 1, b)
        BY <2>2 DEF Left
      <3>2. Coded(p, SubSeq(w, 1, b)) = c \o <<Letter(p, w[b])>>
        BY CodedParts DEF c, pre
      <3> DEFINE l == <<Letter(p, w[b])>>
                 k == <<"break">>
      <3>3. Letter(p, w[b]) \in Signs /\ "break" \in Signs
        BY <1>1, LetterFacts, SignFacts
      <3>4. l \in Seq(Signs) /\ k \in Seq(Signs) /\ m = l \o k
        BY <2>2, <3>3, ShortSeqs DEF m
      <3> HIDE DEF l, k
      <3>5. Associates(c, l, k)
        BY <1>6, <3>4, Associate DEF Texts
      <3>6. (c \o l) \o k = c \o m
        BY <3>4, <3>5 DEF Associates
      <3>7. Coded(p, Left(p)) = c \o l
        BY <3>1, <3>2 DEF l
      <3> QED BY <3>6, <3>7 DEF k
    <2> QED BY <2>1, <2>2
  <1> QED BY <1>10, <1>12, <1>13 DEF Cut, d, post

LEMMA CutRead ==
  ASSUME NEW a, NEW x, Read(a, x), NEW b, NEW y, Read(b, y), NEW c \in Stops, c # "comma"
  PROVE  Read(Cut(a, c, b), Cut(x, c, y))
  <1>1. /\ a \in Texts /\ b \in Texts /\ x \in Texts /\ y \in Texts /\ c \in Signs
        /\ RepairLigatureSpaces(a) = a /\ RepairLigatureSpaces(b) = b
        /\ ExpandLigatures(a) = x /\ ExpandLigatures(b) = y
    BY SignFacts DEF Read
  <1>2. Cut(a, c, b) \in Texts /\ Cut(x, c, y) \in Texts
    BY <1>1, CutFacts DEF Texts
  <1>3. RepairLigatureSpaces(Cut(a, c, b)) = Cut(a, c, b)
    BY <1>1, SpacesApart
  <1>4. ExpandLigatures(Cut(a, c, b)) = Cut(x, c, y)
    BY <1>1, ExpandApart
  <1> QED BY <1>2, <1>3, <1>4 DEF Read

\* What the theorem asks of a word.
Clear(w) ==
  /\ Spelled(w) /\ Len(w) \in Nat \ {0} /\ ClearFonts(w) /\ ClearBreaks(w)
  /\ \A i \in 1 .. Len(w) : w[i] = "hyphen" =>
       1 < i /\ i < Len(w) /\ IsLetters(w[i - 1]) /\ IsLetters(w[i + 1])
  /\ w \in Dictionary => \A i \in 1 .. Len(w) : IsLetters(w[i])

LEMMA WordsAreClear ==
  ASSUME ClearVocabulary(Vocabulary), NEW w \in Vocabulary
  PROVE  Clear(w)
  <1>1. WellSpelled(w) /\ ClearFonts(w) /\ ClearBreaks(w)
    BY DEF ClearVocabulary
  <1>2. w \in Seq(STRING) /\ w # <<>>
    BY <1>1 DEF WellSpelled
  <1>3. Len(w) \in Nat \ {0} /\ DOMAIN w = 1 .. Len(w) /\ \A i \in 1 .. Len(w) : w[i] \in STRING
    BY <1>2, EmptySeq
  <1>4. w \in Texts
    <2>1. \A i \in 1 .. Len(w) : w[i] \in Signs
      BY <1>3, SignFacts
    <2>2. w = [i \in 1 .. Len(w) |-> w[i]]
      BY <1>2
    <2>3. w \in [1 .. Len(w) -> Signs]
      BY <2>1, <2>2
    <2> QED BY <1>3, <2>3, SeqOfFunction DEF Texts
  <1>5. \A i \in 1 .. Len(w) :
          \/ IsLetters(w[i])
          \/ w[i] = "comma" /\ i = Len(w)
          \/ w[i] = "hyphen" /\ 1 < i /\ i < Len(w) /\ IsLetters(w[i - 1]) /\ IsLetters(w[i + 1])
    BY <1>1, <1>3 DEF WellSpelled
  <1>6. Spelled(w)
    BY <1>4, <1>5 DEF Spelled
  <1>7. \A i \in 1 .. Len(w) : w[i] = "hyphen" =>
          1 < i /\ i < Len(w) /\ IsLetters(w[i - 1]) /\ IsLetters(w[i + 1])
    <2>1. "hyphen" \in Marks /\ "hyphen" # "comma"
      BY SignFacts
    <2> QED BY <1>5, <2>1 DEF IsLetters
  <1>8. w \in Dictionary => \A i \in 1 .. Len(w) : IsLetters(w[i])
    BY <1>3 DEF ClearVocabulary
  <1> QED BY <1>1, <1>3, <1>6, <1>7, <1>8 DEF Clear

\* A word as the line prints it.
Printed(p) ==
  /\ p.word \in Vocabulary /\ p.broken \in Nat /\ p.broken < Len(p.word)
  /\ p.dropped => Begins(p)
  /\ p.heading => Contains(p.word, "fi")
  /\ p.broken # 0 => p.word[p.broken + 1] \notin {"hyphen", "comma"}

\* What recovering it takes, but for its space.
Tractable(p) ==
  /\ p.heading => p.broken = 0 /\ p.word \in Dictionary
  /\ p.broken # 0 /\ SubSeq(p.word, 1, p.broken) \in Dictionary => p.word \in Dictionary

\* The two parts of a broken word.
LEMMA BrokenParts ==
  ASSUME NEW p, Printed(p), Clear(p.word), NEW b, b = p.broken, b # 0
  PROVE  /\ b \in 1 .. Len(p.word) /\ b # Len(p.word)
         /\ Spelled(Left(p)) /\ Spelled(Right(p))
         /\ Left(p) \in Parts(p.word) /\ Right(p) \in Parts(p.word)
         /\ Len(Left(p)) = (IF p.word[b] = "hyphen" THEN b - 1 ELSE b) /\ Len(Left(p)) # 0
         /\ Len(Right(p)) = Len(p.word) - b
         /\ \A i \in 1 .. Len(Left(p)) : Left(p)[i] = p.word[i]
         /\ \A i \in 1 .. Len(Right(p)) : Right(p)[i] = p.word[b + i]
         /\ IsLetters(p.word[b]) \/ p.word[b] = "hyphen"
         /\ IsLetters(Left(p)[Len(Left(p))]) /\ IsLetters(Right(p)[1])
  <1> DEFINE w == p.word
             n == IF w[b] = "hyphen" THEN b - 1 ELSE b
  <1>1. /\ Len(w) \in Nat /\ b \in 1 .. Len(w) /\ b # Len(w) /\ DOMAIN w = 1 .. Len(w)
        /\ Spelled(w) /\ b + 1 \in 1 .. Len(w)
    <2>1. Len(w) \in Nat /\ b \in Nat /\ b < Len(w) /\ Spelled(w)
      BY DEF Printed, Clear
    <2>2. DOMAIN w = 1 .. Len(w)
      BY <2>1, SpelledFacts
    <2> HIDE DEF w
    <2> QED BY <2>1, <2>2
  <1>2. w[b] = "hyphen" => 1 < b /\ IsLetters(w[b - 1])
    BY <1>1 DEF Clear
  <1>3. /\ IsLetters(w[b]) \/ w[b] = "hyphen"
        /\ IsLetters(w[b + 1])
    <2>1. \A i \in 1 .. Len(w) : IsLetters(w[i]) \/ w[i] = "hyphen" \/ (w[i] = "comma" /\ i = Len(w))
      BY <1>1 DEF Spelled
    <2>2. w[b + 1] \notin {"hyphen", "comma"}
      BY DEF Printed
    <2> HIDE DEF w
    <2> QED BY <1>1, <2>1, <2>2
  <1>4. n \in 1 .. Len(w) /\ (w[b] = "hyphen" => n = b - 1) /\ (w[b] # "hyphen" => n = b)
    BY <1>1, <1>2
  <1>5. Left(p) = SubSeq(w, 1, n) /\ Right(p) = SubSeq(w, b + 1, Len(w))
    BY DEF Left, Right
  <1>6. Left(p) \in Parts(w) /\ Right(p) \in Parts(w)
    <2> HIDE DEF w, n
    <2> QED BY <1>1, <1>4, <1>5 DEF Parts
  <1>7. n = IF w[b] = "hyphen" THEN b - 1 ELSE b
    OBVIOUS
  <1> HIDE DEF w, n
  <1>8. /\ Spelled(Left(p)) /\ Len(Left(p)) = n /\ \A i \in 1 .. n : Left(p)[i] = w[i]
    <2>1. 1 \in 1 .. Len(w) + 1 /\ n \in 1 - 1 .. Len(w)
      BY <1>1, <1>4
    <2>2. /\ Spelled(SubSeq(w, 1, n)) /\ Len(SubSeq(w, 1, n)) = n - 1 + 1
          /\ \A i \in 1 .. n - 1 + 1 : SubSeq(w, 1, n)[i] = w[1 + i - 1]
      BY <1>1, <2>1, SpelledPart
    <2>3. n - 1 + 1 = n /\ \A i \in 1 .. n : 1 + i - 1 = i
      BY <1>4
    <2> QED BY <1>5, <2>2, <2>3
  <1>9. /\ Spelled(Right(p)) /\ Len(Right(p)) = Len(w) - b
        /\ \A i \in 1 .. Len(w) - b : Right(p)[i] = w[b + i]
    <2> DEFINE k == b + 1
               m == Len(w)
    <2>1. k \in 1 .. m + 1 /\ m \in k - 1 .. m
      BY <1>1
    <2>3. m - k + 1 = m - b /\ \A i \in 1 .. m - b : k + i - 1 = b + i
      BY <1>1
    <2> HIDE DEF k
    <2>2. /\ Spelled(SubSeq(w, k, m)) /\ Len(SubSeq(w, k, m)) = m - k + 1
          /\ \A i \in 1 .. m - k + 1 : SubSeq(w, k, m)[i] = w[k + i - 1]
      BY <1>1, <2>1, SpelledPart
    <2>4. Right(p) = SubSeq(w, k, m)
      BY <1>5 DEF k
    <2> QED BY <2>2, <2>3, <2>4
  <1>10. IsLetters(Left(p)[Len(Left(p))])
    <2>1. n \in 1 .. n
      BY <1>4
    <2>2. Left(p)[Len(Left(p))] = w[n]
      BY <1>8, <2>1
    <2> QED BY <1>2, <1>3, <1>4, <2>2
  <1>11. IsLetters(Right(p)[1])
    <2>1. 1 \in 1 .. Len(w) - b
      BY <1>1
    <2> QED BY <1>3, <1>9, <2>1
  <1>12. /\ Len(Left(p)) = n /\ n # 0
    BY <1>4, <1>8
  <1> QED BY <1>1, <1>3, <1>6, <1>7, <1>8, <1>9, <1>10, <1>11, <1>12 DEF w

LEMMA PartRead ==
  ASSUME NEW p, ~p.heading, NEW w, ClearFonts(w), NEW part \in Parts(w), Spelled(part)
  PROVE  Read(Coded(p, part), part)
  BY PieceRead DEF ClearFonts

\* A tractable word is read.
LEMMA WordRead ==
  ASSUME NEW p, Printed(p), Clear(p.word), Tractable(p)
  PROVE  Read(Glyphs(p), OnPaper(p))
  <1> DEFINE w == p.word
  <1>1. /\ Spelled(w) /\ Len(w) \in Nat \ {0} /\ ClearFonts(w) /\ DOMAIN w = 1 .. Len(w)
        /\ w \in Dictionary => \A i \in 1 .. Len(w) : IsLetters(w[i])
    BY SpelledFacts DEF Clear
  <1>2. CASE p.broken = 0
    <2>1. Glyphs(p) = Coded(p, w) /\ OnPaper(p) = w
      BY <1>1, <1>2, GlyphsWhole DEF OnPaper
    <2>2. CASE p.heading
      <3>1. w \in Dictionary /\ Contains(w, "fi")
        BY <2>2 DEF Tractable, Printed
      <3>2. ~Contains(w, "ff") /\ Misread(w) \notin Dictionary /\ OneWord(Misread(w))
        BY <1>1, <3>1 DEF ClearFonts
      <3>3. \A i \in 1 .. Len(w) : IsLetters(w[i]) /\ w[i] # "ff"
        BY <1>1, <3>1, <3>2 DEF Contains
      <3> HIDE DEF w
      <3> QED BY <1>1, <2>1, <2>2, <3>1, <3>2, <3>3, HeadingRead
    <2>3. CASE ~p.heading
      <3>1. SubSeq(w, 1, Len(w)) = w
        BY <1>1, SubSeqFull DEF Spelled, Texts
      <3>2. Len(w) \in DOMAIN w
        BY <1>1
      <3> HIDE DEF w
      <3>3. w \in Parts(w)
        BY <3>1, <3>2 DEF Parts
      <3>4. Read(Coded(p, w), w)
        BY <1>1, <2>3, <3>3, PartRead
      <3> QED BY <2>1, <3>4
    <2> QED BY <2>2, <2>3
  <1>3. CASE p.broken # 0
    <2> DEFINE b == p.broken
    <2>1. /\ b \in 1 .. Len(w) /\ b # Len(w)
          /\ Spelled(Left(p)) /\ Spelled(Right(p)) /\ Left(p) \in Parts(w) /\ Right(p) \in Parts(w)
      BY <1>3, BrokenParts
    <2>2. ~p.heading
      BY <1>3 DEF Tractable
    <2>3. Glyphs(p) = Cut(Coded(p, Left(p)), "break", Coded(p, Right(p)))
      BY <1>1, <2>1, GlyphsBroken
    <2>4. OnPaper(p) = Cut(Left(p), "break", Right(p))
      BY <1>3 DEF OnPaper
    <2>5. Read(Coded(p, Left(p)), Left(p)) /\ Read(Coded(p, Right(p)), Right(p))
      BY <1>1, <2>1, <2>2, PartRead
    <2>6. "break" \in Stops /\ "break" # "comma"
      BY SignFacts
    <2> QED BY <2>3, <2>4, <2>5, <2>6, CutRead
  <1> QED BY <1>2, <1>3

\* The first and the last glyph of a word.
LEMMA GlyphsEnds ==
  ASSUME NEW p, Printed(p), Clear(p.word)
  PROVE  /\ Glyphs(p) \in Texts
         /\ Begins(p) => Glyphs(p) # <<>> /\ Glyphs(p)[1] \in Ligatures
         /\ Last(p.word) = "comma" => \E t \in Texts : Glyphs(p) = t \o <<"comma">>
  <1> DEFINE w == p.word
             g == Glyphs(p)
  <1>1. /\ Spelled(w) /\ Len(w) \in Nat \ {0}
    BY DEF Clear
  <1>2. "comma" \in Signs /\ "comma" \notin Ligatures /\ "comma" \notin {"fi", "ff"} /\ "break" \in Signs
    BY SignFacts
  <1>3. Letter(p, "comma") = "comma"
    BY <1>2, LetterFacts
  <1>4. ASSUME NEW s, Spelled(s), Len(s) # 0, s[Len(s)] = "comma"
        PROVE  \E t \in Texts : Coded(p, s) = t \o <<"comma">>
    <2>1. Len(s) \in Nat /\ Len(s) \in 1 .. Len(s) /\ SubSeq(s, 1, Len(s)) = s /\ Len(s) - 1 \in 1 - 1 .. Len(s)
          /\ 1 \in 1 .. Len(s) + 1
      <3>1. Len(s) \in Nat
        BY <1>4, SpelledFacts
      <3>2. SubSeq(s, 1, Len(s)) = s
        BY <1>4, SubSeqFull DEF Spelled, Texts
      <3> QED BY <1>4, <3>1, <3>2
    <2>2. Coded(p, SubSeq(s, 1, Len(s))) = Coded(p, SubSeq(s, 1, Len(s) - 1)) \o <<Letter(p, s[Len(s)])>>
      BY <1>4, <2>1, CodedParts
    <2>3. Spelled(SubSeq(s, 1, Len(s) - 1))
      BY <1>4, <2>1, SpelledPart
    <2>4. Coded(p, SubSeq(s, 1, Len(s) - 1)) \in Texts
      BY <2>3, CodedFacts DEF IsCoded
    <2> QED BY <1>3, <1>4, <2>1, <2>2, <2>4
  <1>5. ASSUME NEW s, Spelled(s), Len(s) # 0, s[1] \in {"fi", "ff"}
        PROVE  LET c == Coded(p, s) IN c \in Texts /\ Len(c) # 0 /\ Len(c) \in Nat /\ c[1] \in Ligatures
    <2> DEFINE c == Coded(p, s)
    <2>1. IsCoded(c, p, s)
      BY <1>5, CodedFacts
    <2>2. 1 \in 1 .. Len(s)
      <3>1. Len(s) \in Nat
        BY <1>5, SpelledFacts
      <3> QED BY <1>5, <3>1
    <2> HIDE DEF c
    <2>3. c \in Texts /\ Len(c) = Len(s) /\ Len(s) \in Nat /\ c[1] \in Ligatures
      BY <1>5, <2>1, <2>2 DEF IsCoded
    <2> QED BY <1>5, <2>3 DEF c
  <1>6. CASE p.broken = 0
    <2>1. g = Coded(p, w)
      BY <1>1, <1>6, GlyphsWhole
    <2>2. g \in Texts
      BY <1>1, <2>1, CodedFacts DEF IsCoded
    <2>3. Begins(p) => g # <<>> /\ g[1] \in Ligatures
      <3>1. SUFFICES ASSUME Begins(p) PROVE g # <<>> /\ g[1] \in Ligatures
        OBVIOUS
      <3>2. w[1] \in {"fi", "ff"}
        BY <3>1 DEF Begins
      <3>3. g \in Texts /\ Len(g) # 0 /\ g[1] \in Ligatures
        BY <1>1, <1>5, <2>1, <3>2
      <3> HIDE DEF g
      <3> QED BY <3>3, EmptySeq
    <2>4. Last(w) = "comma" => \E t \in Texts : g = t \o <<"comma">>
      BY <1>1, <1>4, <2>1 DEF Last
    <2> QED BY <2>2, <2>3, <2>4
  <1>7. CASE p.broken # 0
    <2> DEFINE b == p.broken
               l == Left(p)
               r == Right(p)
               c == Coded(p, l)
               d == Coded(p, r)
    <2>1. /\ b \in 1 .. Len(w) /\ b # Len(w) /\ Spelled(l) /\ Spelled(r)
          /\ Len(l) # 0 /\ Len(r) = Len(w) - b
          /\ \A i \in 1 .. Len(l) : l[i] = w[i]
          /\ \A i \in 1 .. Len(r) : r[i] = w[b + i]
      BY <1>7, BrokenParts
    <2>2. g = Cut(c, "break", d)
      BY <1>1, <2>1, GlyphsBroken
    <2>3. c \in Texts /\ d \in Texts
      BY <2>1, CodedFacts DEF IsCoded
    <2>4. g \in Texts /\ IsCut(g, c, "break", d)
      BY <1>2, <2>2, <2>3, CutFacts DEF Texts
    <2>5. Len(l) \in Nat /\ Len(r) \in Nat
      BY <2>1, SpelledFacts
    <2>6. Begins(p) => g # <<>> /\ g[1] \in Ligatures
      <3>1. SUFFICES ASSUME Begins(p) PROVE g # <<>> /\ g[1] \in Ligatures
        OBVIOUS
      <3>2. w[1] \in {"fi", "ff"}
        BY <3>1 DEF Begins
      <3> HIDE DEF g, l, w
      <3>3. l[1] \in {"fi", "ff"}
        BY <2>1, <2>5, <3>2
      <3>4. c \in Texts /\ Len(c) # 0 /\ Len(c) \in Nat /\ c[1] \in Ligatures
        BY <1>5, <2>1, <3>3
      <3> HIDE DEF c, d
      <3>5. Len(g) # 0 /\ g[1] = c[1]
        BY <2>4, <3>4 DEF IsCut
      <3> QED BY <2>4, <3>4, <3>5, EmptySeq
    <2>7. Last(w) = "comma" => \E t \in Texts : g = t \o <<"comma">>
      <3>1. SUFFICES ASSUME Last(w) = "comma" PROVE \E t \in Texts : g = t \o <<"comma">>
        OBVIOUS
      <3>2. w[Len(w)] = "comma"
        BY <3>1 DEF Last
      <3> HIDE DEF g, l, r, w, b
      <3>3. Len(r) # 0 /\ r[Len(r)] = "comma"
        <4>1. Len(r) \in 1 .. Len(r) /\ b + Len(r) = Len(w)
          BY <1>1, <2>1, <2>5
        <4> QED BY <2>1, <3>2, <4>1
      <3>4. PICK t \in Texts : d = t \o <<"comma">>
        BY <1>4, <2>1, <3>3
      <3> DEFINE k == <<"comma">>
                 e == <<"break">>
                 h == c \o e
      <3>5. k \in Texts /\ e \in Texts
        BY <1>2, ShortSeqs DEF Texts
      <3>6. d = t \o k /\ g = h \o d
        BY <2>2, <3>4 DEF Cut
      <3> HIDE DEF k, e, c, d
      <3>7. h \in Texts
        BY <2>3, <3>5, Associate DEF Texts
      <3> HIDE DEF h
      <3>8. Associates(h, t, k) /\ h \o t \in Texts
        BY <3>5, <3>7, Associate DEF Texts
      <3>9. g = (h \o t) \o k
        BY <3>6, <3>8 DEF Associates
      <3> QED BY <3>8, <3>9 DEF k
    <2> QED BY <2>4, <2>6, <2>7
  <1> QED BY <1>6, <1>7

-----------------------------------------------------------------------------
(* Line breaks *)

Space == " "

LEMMA SpaceFacts ==
  Space \in Stops /\ Space \in Signs /\ Space \in Marks /\ Space # "break" /\ Space # "comma"
  BY SignFacts DEF Space

\* A break between letters, and whether its hyphen is kept.
Between(text, i) ==
  /\ text[i] = "break" /\ 1 < i /\ i < Len(text)
  /\ IsLetters(text[i - 1]) /\ IsLetters(text[i + 1])

Kept(text, i) ==
  LET head == RunBefore(text, i, Marks)
      tail == RunFrom(text, i + 1, Marks)
  IN Dictionary # {} /\ head \o tail \notin Dictionary /\ head \in Dictionary

Pieces(text) ==
  [i \in DOMAIN text |->
     IF ~Between(text, i) THEN <<text[i]>> ELSE IF Kept(text, i) THEN <<"hyphen">> ELSE <<>>]

\* No two breaks in one word.
BreaksApart(text) ==
  \A i, j \in 1 .. Len(text) :
    text[i] = "break" /\ text[j] = "break" /\ i < j => \E k \in i .. j : text[k] = Space

\* Where the run before a place begins, by its length.
LEMMA RunBeforeLength ==
  ASSUME NEW text \in Texts, NEW i \in 1 .. Len(text), NEW stops
  PROVE  \E from \in 1 .. i :
           /\ BeginsAt(text, i, stops, from)
           /\ i - Len(RunBefore(text, i, stops)) - 1 = from - 1
  <1>1. Len(text) \in Nat /\ \A j \in 1 .. Len(text) : text[j] \in Signs
    BY DEF Texts
  <1>2. i \in 1 .. Len(text) + 1 /\ i \in Nat \ {0}
    BY <1>1
  <1>3. PICK from : BeginsAt(text, i, stops, from)
    BY <1>1, <1>2, RunsEnd
  <1>4. from \in 1 .. i
    BY <1>3 DEF BeginsAt
  <1>5. RunBefore(text, i, stops) = SubSeq(text, from, i - 1)
    BY <1>2, <1>3, RunBeforeIs
  <1> DEFINE h == i - 1
             s == SubSeq(text, from, h)
  <1>6. from \in Int /\ h \in Int /\ \A j \in from .. h : j \in 1 .. Len(text)
    BY <1>1, <1>2, <1>4
  <1>7. \A j \in from .. h : text[j] \in Signs
    BY <1>1, <1>6
  <1>8. Len(s) = IF from <= h THEN h - from + 1 ELSE 0
    <2> HIDE DEF h
    <2> QED BY <1>6, <1>7, SubSeqProperties
  <1> HIDE DEF s
  <1>9. i - Len(s) - 1 = from - 1
    BY <1>2, <1>4, <1>8
  <1> QED BY <1>3, <1>4, <1>5, <1>9 DEF s

LEMMA MatchesAre ==
  ASSUME NEW text \in Texts, BreaksApart(text)
  PROVE  \A i \in DOMAIN text : i \in Matches(text) <=> Between(text, i)
  <1> DEFINE before(i) == i - Len(RunBefore(text, i, Marks)) - 1
             Eq(f) == f = [i \in DOMAIN text |->
                             Between(text, i) /\ (before(i) = 0 \/ ~f[before(i)])]
             match == CHOOSE f : Eq(f)
             F == [i \in DOMAIN text |-> Between(text, i)]
  <1>1. Len(text) \in Nat /\ DOMAIN text = 1 .. Len(text)
    BY DEF Texts
  <1>2. Matches(text) = {i \in DOMAIN text : match[i]}
    BY DEF Matches, Between
  <1>3. ASSUME NEW i \in DOMAIN text, Between(text, i)
        PROVE  before(i) = 0 \/ (before(i) \in DOMAIN text /\ ~Between(text, before(i)))
    <2>1. PICK from \in 1 .. i : BeginsAt(text, i, Marks, from) /\ before(i) = from - 1
      BY <1>1, RunBeforeLength
    <2> DEFINE k == from - 1
    <2> HIDE DEF before
    <2>2. SUFFICES ASSUME from # 1 PROVE k \in DOMAIN text /\ text[k] # "break"
      BY <2>1 DEF Between
    <2>3. k \in 1 .. Len(text) /\ k < i /\ i \in 1 .. Len(text)
      BY <1>1, <2>2
    <2>4. SUFFICES ASSUME text[k] = "break" PROVE FALSE
      BY <1>1, <2>3
    <2>5. text[i] = "break"
      BY <1>3 DEF Between
    <2>6. PICK l \in k .. i : text[l] = Space
      BY <2>3, <2>4, <2>5 DEF BreaksApart
    <2>7. Space # "break" /\ Space \in Marks
      BY SpaceFacts
    <2>8. l # k /\ l # i
      BY <2>4, <2>5, <2>6, <2>7
    <2>9. l \in from .. i - 1
      BY <2>3, <2>8
    <2> QED BY <2>1, <2>6, <2>7, <2>9 DEF BeginsAt
  <1>4. ASSUME NEW f, Eq(f), NEW i \in DOMAIN text PROVE f[i] <=> Between(text, i)
    <2>1. \A j \in DOMAIN text : f[j] = (Between(text, j) /\ (before(j) = 0 \/ ~f[before(j)]))
      <3> HIDE DEF before
      <3> QED BY <1>4
    <2> HIDE DEF Eq, before
    <2>2. CASE ~Between(text, i)
      BY <2>1, <2>2
    <2>3. CASE Between(text, i)
      <3>1. before(i) = 0 \/ (before(i) \in DOMAIN text /\ ~Between(text, before(i)))
        BY <1>3, <2>3
      <3>2. before(i) \in DOMAIN text /\ ~Between(text, before(i)) => ~f[before(i)]
        BY <2>1
      <3> QED BY <2>1, <2>3, <3>1, <3>2
    <2> QED BY <2>2, <2>3
  <1>5. Eq(F)
    <2>1. ASSUME NEW i \in DOMAIN text
          PROVE  Between(text, i) = (Between(text, i) /\ (before(i) = 0 \/ ~F[before(i)]))
      <3> HIDE DEF before
      <3>1. CASE ~Between(text, i)
        BY <3>1 DEF Between
      <3>2. CASE Between(text, i)
        <4>1. before(i) = 0 \/ ~F[before(i)]
          BY <1>3, <3>2
        <4> QED BY <3>2, <4>1 DEF Between
      <3> QED BY <3>1, <3>2
    <2> QED BY <2>1
  <1>6. Eq(match)
    <2> HIDE DEF Eq, F
    <2> QED BY <1>5
  <1> HIDE DEF Eq, match
  <1> QED BY <1>2, <1>4, <1>6

LEMMA PiecesFacts ==
  ASSUME NEW text \in Texts
  PROVE  /\ Pieces(text) \in Seq(Texts) /\ Len(Pieces(text)) = Len(text) /\ Len(text) \in Nat
         /\ \A i \in 1 .. Len(text) :
              Pieces(text)[i] = IF ~Between(text, i) THEN <<text[i]>>
                                ELSE IF Kept(text, i) THEN <<"hyphen">> ELSE <<>>
  <1>1. Len(text) \in Nat /\ DOMAIN text = 1 .. Len(text) /\ \A i \in 1 .. Len(text) : text[i] \in Signs
    BY DEF Texts
  <1>2. "hyphen" \in Signs
    BY SignFacts
  <1>3. <<>> \in Texts /\ <<"hyphen">> \in Texts /\ \A i \in 1 .. Len(text) : <<text[i]>> \in Texts
    BY <1>1, <1>2, ShortSeqs, EmptySeq DEF Texts
  <1>4. Pieces(text) \in [1 .. Len(text) -> Texts]
    BY <1>1, <1>3 DEF Pieces
  <1>5. Pieces(text) \in Seq(Texts) /\ Len(Pieces(text)) = Len(text)
    BY <1>1, <1>4, SeqOfFunction
  <1> QED BY <1>1, <1>5 DEF Pieces

LEMMA DehyphenateIs ==
  ASSUME NEW text \in Texts, BreaksApart(text)
  PROVE  Dehyphenate(text) = FlattenSeq(Pieces(text)) /\ Dehyphenate(text) \in Texts
  <1> DEFINE g == [i \in DOMAIN text |->
                     IF i \notin Matches(text) THEN <<text[i]>>
                     ELSE IF Kept(text, i) THEN <<"hyphen">> ELSE <<>>]
  <1>1. Dehyphenate(text) = FlattenSeq(g)
    BY DEF Dehyphenate, Kept
  <1>2. g = Pieces(text)
    BY MatchesAre DEF Pieces
  <1>3. Pieces(text) \in Seq(Seq(Signs))
    BY PiecesFacts DEF Texts
  <1>4. FlattenSeq(Pieces(text)) \in Texts
    BY <1>3, FlattenType DEF Texts
  <1> HIDE DEF g
  <1> QED BY <1>1, <1>2, <1>4

\* Words apart are dehyphenated each for itself.
LEMMA BreaksRepairedApart ==
  ASSUME NEW u \in Texts, NEW v \in Texts, BreaksApart(u), BreaksApart(v)
  PROVE  /\ BreaksApart(Cut(u, Space, v))
         /\ Dehyphenate(Cut(u, Space, v)) = Cut(Dehyphenate(u), Space, Dehyphenate(v))
  <1> DEFINE w == Cut(u, Space, v)
             x == Pieces(u)
             y == Pieces(v)
             z == Pieces(w)
             m == <<Space>>
  <1>0. Space \in Signs /\ Space \in Marks /\ Space # "break" /\ m \in Texts
    <2>1. Space \in Signs /\ Space \in Marks /\ Space # "break"
      BY SpaceFacts
    <2> QED BY <2>1, ShortSeqs DEF Texts
  <1> HIDE DEF m
  <1>1. w \in Texts /\ IsCut(w, u, Space, v)
    BY <1>0, CutFacts DEF Texts
  <1> HIDE DEF w
  <1>2. /\ Len(u) \in Nat /\ Len(v) \in Nat /\ Len(w) = Len(u) + 1 + Len(v)
        /\ \A i \in 1 .. Len(u) : w[i] = u[i]
        /\ w[Len(u) + 1] = Space
        /\ \A i \in 1 .. Len(v) : w[Len(u) + 1 + i] = v[i]
    BY <1>1 DEF IsCut
  <1>3. BreaksApart(w)
    <2> SUFFICES ASSUME NEW i \in 1 .. Len(w), NEW j \in 1 .. Len(w),
                        w[i] = "break", w[j] = "break", i < j
                 PROVE  \E k \in i .. j : w[k] = Space
      BY DEF BreaksApart
    <2>1. CASE j <= Len(u)
      <3>1. i \in 1 .. Len(u) /\ j \in 1 .. Len(u)
        BY <1>2, <2>1
      <3>2. PICK k \in i .. j : u[k] = Space
        BY <1>2, <3>1 DEF BreaksApart
      <3>3. k \in 1 .. Len(u)
        BY <1>2, <3>1
      <3> QED BY <1>2, <3>2, <3>3
    <2>2. CASE i > Len(u) + 1
      <3> DEFINE a == i - (Len(u) + 1)
                 b == j - (Len(u) + 1)
      <3>1. /\ a \in 1 .. Len(v) /\ b \in 1 .. Len(v) /\ a < b
            /\ i = Len(u) + 1 + a /\ j = Len(u) + 1 + b
        BY <1>2, <2>2
      <3> HIDE DEF a, b
      <3>2. v[a] = "break" /\ v[b] = "break"
        BY <1>2, <3>1
      <3>3. PICK k \in a .. b : v[k] = Space
        BY <3>1, <3>2 DEF BreaksApart
      <3>4. k \in 1 .. Len(v) /\ Len(u) + 1 + k \in i .. j
        BY <1>2, <3>1
      <3> QED BY <1>2, <3>3, <3>4
    <2>3. CASE i <= Len(u) + 1 /\ j > Len(u)
      <3>1. Len(u) + 1 \in i .. j
        BY <1>2, <2>3
      <3> QED BY <1>2, <3>1
    <2>4. j <= Len(u) \/ i > Len(u) + 1 \/ (i <= Len(u) + 1 /\ j > Len(u))
      BY <1>2
    <2> QED BY <2>1, <2>2, <2>3, <2>4
  <1>4. /\ \A i \in 1 .. Len(u) + 1 :
             /\ RunBefore(w, i, Marks) = RunBefore(u, i, Marks)
             /\ RunFrom(w, i, Marks) = RunFrom(u, i, Marks)
        /\ \A i \in 1 .. Len(v) + 1 :
             /\ RunBefore(w, Len(u) + 1 + i, Marks) = RunBefore(v, i, Marks)
             /\ RunFrom(w, Len(u) + 1 + i, Marks) = RunFrom(v, i, Marks)
    <2>1. u \in Seq(Signs) /\ v \in Seq(Signs) /\ w \in Seq(Signs)
      BY <1>1 DEF Texts
    <2>2. Space \in Marks /\ IsCut(w, u, Space, v)
      BY <1>0, <1>1
    <2> QED BY <2>1, <2>2, RunsApart
  <1>5. ASSUME NEW i \in 1 .. Len(u)
        PROVE  /\ Between(w, i) <=> Between(u, i)
               /\ Kept(w, i) <=> Kept(u, i)
    <2>1. /\ w[i] = u[i] /\ i \in 1 .. Len(u) + 1 /\ i + 1 \in 1 .. Len(u) + 1 /\ i < Len(w)
      BY <1>2
    <2>2. i > 1 => w[i - 1] = u[i - 1]
      <3>1. i > 1 => i - 1 \in 1 .. Len(u)
        BY <1>2
      <3> QED BY <1>2, <3>1
    <2>3. i < Len(u) => w[i + 1] = u[i + 1]
      <3>1. i < Len(u) => i + 1 \in 1 .. Len(u)
        BY <1>2
      <3> QED BY <1>2, <3>1
    <2>4. ~(i < Len(u)) => ~IsLetters(w[i + 1])
      <3>1. ~(i < Len(u)) => i + 1 = Len(u) + 1
        BY <1>2
      <3> QED BY <1>0, <1>2, <3>1 DEF IsLetters
    <2>5. Between(w, i) <=> Between(u, i)
      BY <2>1, <2>2, <2>3, <2>4 DEF Between
    <2>6. Kept(w, i) <=> Kept(u, i)
      <3>1. RunBefore(w, i, Marks) = RunBefore(u, i, Marks) /\ RunFrom(w, i + 1, Marks) = RunFrom(u, i + 1, Marks)
        BY <1>4, <2>1
      <3> QED BY <3>1 DEF Kept
    <2> QED BY <2>5, <2>6
  <1>6. ASSUME NEW i \in 1 .. Len(v)
        PROVE  /\ Between(w, Len(u) + 1 + i) <=> Between(v, i)
               /\ Kept(w, Len(u) + 1 + i) <=> Kept(v, i)
    <2> DEFINE j == Len(u) + 1 + i
    <2>1. /\ w[j] = v[i] /\ i \in 1 .. Len(v) + 1 /\ i + 1 \in 1 .. Len(v) + 1 /\ 1 < j
          /\ j < Len(w) <=> i < Len(v)
          /\ j + 1 = Len(u) + 1 + (i + 1)
      <3>1. Len(u) \in Nat /\ Len(v) \in Nat /\ Len(w) = Len(u) + 1 + Len(v) /\ w[j] = v[i]
        BY <1>2
      <3>2. /\ i \in 1 .. Len(v) + 1 /\ i + 1 \in 1 .. Len(v) + 1 /\ 1 < j
            /\ j < Len(u) + 1 + Len(v) <=> i < Len(v)
            /\ j + 1 = Len(u) + 1 + (i + 1)
        BY <3>1
      <3> QED BY <3>1, <3>2
    <2>2. i > 1 => w[j - 1] = v[i - 1]
      <3>1. i > 1 => i - 1 \in 1 .. Len(v) /\ j - 1 = Len(u) + 1 + (i - 1)
        BY <1>2
      <3> QED BY <1>2, <3>1
    <2>3. i < Len(v) => w[j + 1] = v[i + 1]
      <3>1. i < Len(v) => i + 1 \in 1 .. Len(v) /\ j + 1 = Len(u) + 1 + (i + 1)
        BY <1>2
      <3> QED BY <1>2, <3>1
    <2>4. ~(i > 1) => ~IsLetters(w[j - 1])
      <3>1. ~(i > 1) => j - 1 = Len(u) + 1
        BY <1>2
      <3> QED BY <1>0, <1>2, <3>1 DEF IsLetters
    <2>6. Kept(w, j) <=> Kept(v, i)
      <3>1. RunBefore(w, j, Marks) = RunBefore(v, i, Marks)
        BY <1>4, <2>1
      <3>2. RunFrom(w, j + 1, Marks) = RunFrom(v, i + 1, Marks)
        BY <1>4, <2>1
      <3> HIDE DEF j
      <3> QED BY <3>1, <3>2 DEF Kept
    <2> HIDE DEF j
    <2>5. Between(w, j) <=> Between(v, i)
      BY <2>1, <2>2, <2>3, <2>4 DEF Between
    <2> QED BY <2>5, <2>6 DEF j
  <1>7. ~Between(w, Len(u) + 1)
    BY <1>0, <1>2 DEF Between
  <1>8. /\ x \in Seq(Texts) /\ Len(x) = Len(u)
        /\ \A i \in 1 .. Len(u) : x[i] = IF ~Between(u, i) THEN <<u[i]>>
                                         ELSE IF Kept(u, i) THEN <<"hyphen">> ELSE <<>>
    BY PiecesFacts
  <1>9. /\ y \in Seq(Texts) /\ Len(y) = Len(v)
        /\ \A i \in 1 .. Len(v) : y[i] = IF ~Between(v, i) THEN <<v[i]>>
                                         ELSE IF Kept(v, i) THEN <<"hyphen">> ELSE <<>>
    BY PiecesFacts
  <1>10. /\ z \in Seq(Texts) /\ Len(z) = Len(w)
         /\ \A i \in 1 .. Len(w) : z[i] = IF ~Between(w, i) THEN <<w[i]>>
                                          ELSE IF Kept(w, i) THEN <<"hyphen">> ELSE <<>>
    BY <1>1, PiecesFacts
  <1> HIDE DEF x, y, z
  <1>11. z = Cut(x, m, y)
    <2>0. /\ \A i \in 1 .. Len(u) : i \in 1 .. Len(w) /\ w[i] = u[i]
          /\ Len(u) + 1 \in 1 .. Len(w)
          /\ \A i \in 1 .. Len(v) : Len(u) + 1 + i \in 1 .. Len(w) /\ w[Len(u) + 1 + i] = v[i]
      BY <1>2
    <2>1. \A i \in 1 .. Len(u) : z[i] = x[i]
      <3> TAKE i \in 1 .. Len(u)
      <3>1. z[i] = IF ~Between(w, i) THEN <<w[i]>> ELSE IF Kept(w, i) THEN <<"hyphen">> ELSE <<>>
        BY <1>10, <2>0
      <3>2. x[i] = IF ~Between(u, i) THEN <<u[i]>> ELSE IF Kept(u, i) THEN <<"hyphen">> ELSE <<>>
        BY <1>8
      <3>3. w[i] = u[i] /\ (Between(w, i) <=> Between(u, i)) /\ (Kept(w, i) <=> Kept(u, i))
        BY <1>5, <2>0
      <3> QED BY <3>1, <3>2, <3>3, Zenon
    <2>2. z[Len(u) + 1] = m
      BY <1>2, <1>7, <1>10, <2>0 DEF m
    <2>3. \A i \in 1 .. Len(v) : z[Len(u) + 1 + i] = y[i]
      <3> TAKE i \in 1 .. Len(v)
      <3> DEFINE j == Len(u) + 1 + i
      <3>3. w[j] = v[i] /\ (Between(w, j) <=> Between(v, i)) /\ (Kept(w, j) <=> Kept(v, i))
            /\ j \in 1 .. Len(w)
        BY <1>6, <2>0
      <3> HIDE DEF j
      <3>1. z[j] = IF ~Between(w, j) THEN <<w[j]>> ELSE IF Kept(w, j) THEN <<"hyphen">> ELSE <<>>
        BY <1>10, <3>3
      <3>2. y[i] = IF ~Between(v, i) THEN <<v[i]>> ELSE IF Kept(v, i) THEN <<"hyphen">> ELSE <<>>
        BY <1>9
      <3>4. z[j] = y[i]
        BY <3>1, <3>2, <3>3, Zenon
      <3> QED BY <3>4 DEF j
    <2> HIDE DEF m
    <2>4. IsCut(z, x, m, y)
      BY <1>2, <1>8, <1>9, <1>10, <2>1, <2>2, <2>3 DEF IsCut
    <2> QED BY <1>0, <1>8, <1>9, <1>10, <2>4, CutIs
  <1>12. FlattenSeq(z) = (FlattenSeq(x) \o m) \o FlattenSeq(y)
    <2>1. x \in Seq(Seq(Signs)) /\ y \in Seq(Seq(Signs)) /\ m \in Seq(Signs)
      BY <1>0, <1>8, <1>9 DEF Texts
    <2> HIDE DEF m
    <2>2. FlattensApart(x, m, y)
      BY <2>1, FlattenApart
    <2> QED BY <1>11, <2>2 DEF FlattensApart
  <1>13. /\ Dehyphenate(u) = FlattenSeq(x) /\ Dehyphenate(v) = FlattenSeq(y)
         /\ Dehyphenate(w) = FlattenSeq(z)
    BY <1>1, <1>3, DehyphenateIs DEF x, y, z
  <1> QED BY <1>3, <1>12, <1>13 DEF Cut, w, m

LEMMA SameStops ==
  ASSUME NEW text, NEW A, NEW B, Len(text) \in Nat, NEW i \in 1 .. Len(text) + 1,
         \A m \in 1 .. Len(text) : text[m] \in A <=> text[m] \in B
  PROVE  /\ RunBefore(text, i, A) = RunBefore(text, i, B)
         /\ RunFrom(text, i, A) = RunFrom(text, i, B)
  <1> DEFINE before(stops) == {l \in 1 .. i : \A m \in l .. i - 1 : text[m] \notin stops}
             after(stops) == {r \in i - 1 .. Len(text) : \A m \in i .. r : text[m] \notin stops}
  <1>1. before(A) = before(B)
    <2>1. \A l \in 1 .. i : \A m \in l .. i - 1 : m \in 1 .. Len(text)
      OBVIOUS
    <2> QED BY <2>1
  <1>2. after(A) = after(B)
    <2>1. \A r \in i - 1 .. Len(text) : \A m \in i .. r : m \in 1 .. Len(text)
      OBVIOUS
    <2> QED BY <2>1
  <1>3. \A stops : /\ RunBefore(text, i, stops) = SubSeq(text, Min(before(stops)), i - 1)
                   /\ RunFrom(text, i, stops) = SubSeq(text, i, Max(after(stops)))
    BY DEF RunBefore, RunFrom
  <1> HIDE DEF before, after
  <1> QED BY <1>1, <1>2, <1>3

\* A word on one line has no breaks to repair.
LEMMA WholeRepaired ==
  ASSUME NEW w, Spelled(w)
  PROVE  BreaksApart(w) /\ Dehyphenate(w) = w
  <1>1. /\ w \in Texts /\ Len(w) \in Nat /\ \A i \in 1 .. Len(w) : w[i] # "break"
    BY SpelledFacts DEF Spelled
  <1>2. BreaksApart(w)
    BY <1>1 DEF BreaksApart
  <1>3. \A i \in 1 .. Len(w) : ~Between(w, i)
    BY <1>1 DEF Between
  <1> DEFINE x == Pieces(w)
             y == Singles(w)
  <1>4. /\ x \in Seq(Texts) /\ Len(x) = Len(w)
        /\ \A i \in 1 .. Len(w) : x[i] = <<w[i]>>
    BY <1>1, <1>3, PiecesFacts
  <1>5. /\ y \in Seq(Texts) /\ Len(y) = Len(w) /\ FlattenSeq(y) = w
        /\ \A i \in 1 .. Len(w) : y[i] = <<w[i]>>
    BY <1>1, SinglesFacts
  <1> HIDE DEF x, y
  <1>6. x = y
    BY <1>4, <1>5, SeqEqual
  <1>7. Dehyphenate(w) = FlattenSeq(x)
    BY <1>1, <1>2, DehyphenateIs DEF x
  <1> QED BY <1>2, <1>5, <1>6, <1>7

\* A text broken once.
LEMMA OneBreak ==
  ASSUME NEW l \in Texts, NEW r \in Texts, Len(l) # 0, Len(r) # 0,
         \A i \in 1 .. Len(l) : l[i] # "break", \A i \in 1 .. Len(r) : r[i] # "break",
         IsLetters(l[Len(l)]), IsLetters(r[1])
  PROVE  LET t    == Cut(l, "break", r)
             head == RunBefore(l, Len(l) + 1, Marks)
             tail == RunFrom(r, 1, Marks)
             keep == Dictionary # {} /\ head \o tail \notin Dictionary /\ head \in Dictionary
         IN /\ BreaksApart(t)
            /\ keep => Dehyphenate(t) = Cut(l, "hyphen", r)
            /\ ~keep => Dehyphenate(t) = l \o r
  <1> DEFINE t == Cut(l, "break", r)
             head == RunBefore(l, Len(l) + 1, Marks)
             tail == RunFrom(r, 1, Marks)
             keep == Dictionary # {} /\ head \o tail \notin Dictionary /\ head \in Dictionary
             n == Len(l) + 1
             k == IF keep THEN <<"hyphen">> ELSE <<>>
             x == Singles(l)
             y == Singles(r)
             z == Pieces(t)
  <1>0. "break" \in Signs /\ "break" \in Marks
    BY SignFacts
  <1>1. t \in Texts /\ IsCut(t, l, "break", r)
    BY <1>0, CutFacts DEF Texts
  <1> HIDE DEF t
  <1>2. /\ Len(l) \in Nat \ {0} /\ Len(r) \in Nat \ {0} /\ Len(t) = Len(l) + 1 + Len(r)
        /\ \A i \in 1 .. Len(l) : t[i] = l[i]
        /\ t[n] = "break"
        /\ \A i \in 1 .. Len(r) : t[n + i] = r[i]
    BY <1>1 DEF IsCut
  <1>3. \A i \in 1 .. Len(t) : \/ i \in 1 .. Len(l) \/ i = n
                               \/ i - n \in 1 .. Len(r) /\ i = n + (i - n)
    BY <1>2
  <1>4. \A i \in 1 .. Len(t) : t[i] = "break" => i = n
    <2> TAKE i \in 1 .. Len(t)
    <2>1. CASE i \in 1 .. Len(l)
      BY <1>2, <2>1
    <2>2. CASE i - n \in 1 .. Len(r) /\ i = n + (i - n)
      <3>1. t[n + (i - n)] = r[i - n]
        BY <1>2, <2>2
      <3>2. t[i] # "break"
        BY <2>2, <3>1
      <3> QED BY <3>2
    <2>3. CASE i = n
      BY <2>3
    <2> QED BY <1>3, <2>1, <2>2, <2>3
  <1>5. BreaksApart(t)
    <2>1. n \in Nat
      BY <1>2
    <2> HIDE DEF n
    <2> QED BY <1>4, <2>1 DEF BreaksApart
  <1>6. Between(t, n)
    <2>1. /\ 1 < n /\ n < Len(t) /\ n - 1 \in 1 .. Len(l) /\ n - 1 = Len(l)
          /\ 1 \in 1 .. Len(r)
      BY <1>2
    <2>2. t[n - 1] = l[Len(l)] /\ t[n + 1] = r[1]
      BY <1>2, <2>1
    <2> QED BY <1>2, <2>1, <2>2 DEF Between
  <1>7. Kept(t, n) <=> keep
    <2>1. /\ \A i \in 1 .. Len(l) + 1 :
               /\ RunBefore(t, i, Marks) = RunBefore(l, i, Marks)
               /\ RunFrom(t, i, Marks) = RunFrom(l, i, Marks)
          /\ \A i \in 1 .. Len(r) + 1 :
               /\ RunBefore(t, Len(l) + 1 + i, Marks) = RunBefore(r, i, Marks)
               /\ RunFrom(t, Len(l) + 1 + i, Marks) = RunFrom(r, i, Marks)
      <3>1. l \in Seq(Signs) /\ r \in Seq(Signs) /\ t \in Seq(Signs)
        BY <1>1 DEF Texts
      <3> QED BY <1>0, <1>1, <3>1, RunsApart
    <2>2. n \in 1 .. Len(l) + 1 /\ 1 \in 1 .. Len(r) + 1
      BY <1>2
    <2>3. RunBefore(t, n, Marks) = head /\ RunFrom(t, n + 1, Marks) = tail
      BY <2>1, <2>2
    <2> HIDE DEF n, head, tail
    <2> QED BY <2>3 DEF Kept
  <1> HIDE DEF keep
  <1>8. /\ x \in Seq(Texts) /\ Len(x) = Len(l) /\ FlattenSeq(x) = l
        /\ \A i \in 1 .. Len(l) : x[i] = <<l[i]>>
    BY SinglesFacts
  <1>9. /\ y \in Seq(Texts) /\ Len(y) = Len(r) /\ FlattenSeq(y) = r
        /\ \A i \in 1 .. Len(r) : y[i] = <<r[i]>>
    BY SinglesFacts
  <1>10. /\ z \in Seq(Texts) /\ Len(z) = Len(t)
         /\ \A i \in 1 .. Len(t) : z[i] = IF ~Between(t, i) THEN <<t[i]>>
                                          ELSE IF Kept(t, i) THEN <<"hyphen">> ELSE <<>>
    BY <1>1, PiecesFacts
  <1>11. k \in Texts
    <2>1. "hyphen" \in Signs
      BY SignFacts
    <2> QED BY <2>1, ShortSeqs, EmptySeq DEF Texts
  <1> HIDE DEF x, y, z
  <1>12. z = Cut(x, k, y)
    <2>0. n \in 1 .. Len(t) /\ n = Len(l) + 1
      BY <1>2
    <2>1. \A i \in 1 .. Len(l) : z[i] = x[i]
      <3> TAKE i \in 1 .. Len(l)
      <3>1. i \in 1 .. Len(t) /\ i # n
        BY <1>2
      <3>2. ~Between(t, i)
        BY <1>4, <3>1 DEF Between
      <3> QED BY <1>2, <1>8, <1>10, <3>1, <3>2
    <2>2. z[n] = k
      <3>1. z[n] = IF ~Between(t, n) THEN <<t[n]>> ELSE IF Kept(t, n) THEN <<"hyphen">> ELSE <<>>
        BY <1>10, <2>0
      <3> HIDE DEF n
      <3> QED BY <1>6, <1>7, <3>1
    <2>3. \A i \in 1 .. Len(r) : z[n + i] = y[i]
      <3> TAKE i \in 1 .. Len(r)
      <3> DEFINE j == n + i
      <3>1. j \in 1 .. Len(t) /\ j # n
        BY <1>2
      <3>2. t[j] = r[i]
        BY <1>2
      <3> HIDE DEF j, n
      <3>3. ~Between(t, j)
        BY <1>4, <3>1 DEF Between
      <3>4. z[j] = <<t[j]>>
        BY <1>10, <3>1, <3>3
      <3>5. z[j] = y[i]
        BY <1>9, <3>2, <3>4
      <3> QED BY <3>5 DEF j
    <2> HIDE DEF k
    <2>4. IsCut(z, x, k, y)
      <3>1. Len(x) \in Nat /\ Len(y) \in Nat /\ Len(z) = Len(x) + 1 + Len(y) /\ Len(x) + 1 = n
        BY <1>2, <1>8, <1>9, <1>10
      <3> HIDE DEF n
      <3> QED BY <1>8, <1>9, <2>1, <2>2, <2>3, <3>1 DEF IsCut
    <2> QED BY <1>8, <1>9, <1>10, <1>11, <2>4, CutIs
  <1>13. FlattenSeq(z) = (l \o k) \o r
    <2>1. x \in Seq(Seq(Signs)) /\ y \in Seq(Seq(Signs)) /\ k \in Seq(Signs)
      BY <1>8, <1>9, <1>11 DEF Texts
    <2> HIDE DEF k
    <2>2. FlattensApart(x, k, y)
      BY <2>1, FlattenApart
    <2> QED BY <1>8, <1>9, <1>12, <2>2 DEF FlattensApart
  <1>14. Dehyphenate(t) = (l \o k) \o r
    BY <1>1, <1>5, <1>13, DehyphenateIs DEF z
  <1>15. keep => Dehyphenate(t) = Cut(l, "hyphen", r)
    BY <1>14 DEF Cut, k
  <1>16. ~keep => Dehyphenate(t) = l \o r
    <2>1. l \o <<>> = l
      BY ConcatEmptySeq DEF Texts
    <2> QED BY <1>14, <2>1 DEF k
  <1> QED BY <1>5, <1>15, <1>16 DEF keep, t

\* A hyphen of the word's own is kept, and one of the line's is not.
LEMMA BrokenRepaired ==
  ASSUME NEW p, Printed(p), Clear(p.word), Tractable(p), p.broken # 0
  PROVE  BreaksApart(OnPaper(p)) /\ Dehyphenate(OnPaper(p)) = p.word
  <1> DEFINE w == p.word
             b == p.broken
             l == Left(p)
             r == Right(p)
             head == RunBefore(l, Len(l) + 1, Marks)
             tail == RunFrom(r, 1, Marks)
             keep == Dictionary # {} /\ head \o tail \notin Dictionary /\ head \in Dictionary
  <1>1. /\ b \in 1 .. Len(w) /\ b # Len(w)
        /\ Spelled(l) /\ Spelled(r)
        /\ Len(l) = (IF w[b] = "hyphen" THEN b - 1 ELSE b) /\ Len(l) # 0
        /\ Len(r) = Len(w) - b
        /\ \A i \in 1 .. Len(l) : l[i] = w[i]
        /\ \A i \in 1 .. Len(r) : r[i] = w[b + i]
        /\ IsLetters(w[b]) \/ w[b] = "hyphen"
        /\ IsLetters(l[Len(l)]) /\ IsLetters(r[1])
    <2>1. /\ b \in 1 .. Len(w) /\ b # Len(w) /\ Spelled(l) /\ Spelled(r)
          /\ Len(r) = Len(w) - b /\ Len(l) # 0
          /\ IsLetters(w[b]) \/ w[b] = "hyphen"
          /\ IsLetters(l[Len(l)]) /\ IsLetters(r[1])
      BY BrokenParts
    <2>2. Len(l) = (IF w[b] = "hyphen" THEN b - 1 ELSE b)
      BY BrokenParts
    <2>3. \A i \in 1 .. Len(l) : l[i] = w[i]
      BY BrokenParts
    <2>4. \A i \in 1 .. Len(r) : r[i] = w[b + i]
      BY BrokenParts
    <2> HIDE DEF w, b, l, r
    <2> QED BY <2>1, <2>2, <2>3, <2>4
  <1>2. /\ Len(w) \in Nat /\ Len(l) \in Nat /\ Len(r) \in Nat
        /\ w \in Texts /\ l \in Texts /\ r \in Texts
        /\ \A i \in 1 .. Len(w) : w[i] \in Signs /\ w[i] \notin Ligatures
        /\ \A i \in 1 .. Len(l) : l[i] # "break" /\ l[i] \notin Ligatures
        /\ \A i \in 1 .. Len(r) : r[i] # "break" /\ r[i] \notin Ligatures
    <2>1. Spelled(w) /\ Spelled(l) /\ Spelled(r)
      BY <1>1 DEF Clear
    <2>2. w \in Texts /\ l \in Texts /\ r \in Texts
      BY <2>1 DEF Spelled
    <2>3. Len(w) \in Nat /\ \A i \in 1 .. Len(w) : w[i] \in Signs /\ w[i] \notin Ligatures
      BY <2>1, SpelledFacts
    <2>4. Len(l) \in Nat /\ \A i \in 1 .. Len(l) : l[i] # "break" /\ l[i] \notin Ligatures
      BY <2>1, SpelledFacts
    <2>5. Len(r) \in Nat /\ \A i \in 1 .. Len(r) : r[i] # "break" /\ r[i] \notin Ligatures
      BY <2>1, SpelledFacts
    <2> QED BY <2>2, <2>3, <2>4, <2>5
  <1>3. Spelled(w)
    BY DEF Clear
  <1>4. OnPaper(p) = Cut(l, "break", r)
    BY DEF OnPaper
  <1>5. l = SubSeq(w, 1, IF w[b] = "hyphen" THEN b - 1 ELSE b) /\ r = SubSeq(w, b + 1, Len(w))
    BY DEF Left, Right
  <1> HIDE DEF w, b, l, r
  <1>6. Len(r) # 0 /\ b \in Nat /\ b + Len(r) = Len(w) /\ 1 \in 1 .. Len(r) + 1 /\ Len(l) + 1 \in 1 .. Len(l) + 1
    BY <1>1, <1>2
  <1>7. /\ BreaksApart(Cut(l, "break", r))
        /\ keep => Dehyphenate(Cut(l, "break", r)) = Cut(l, "hyphen", r)
        /\ ~keep => Dehyphenate(Cut(l, "break", r)) = l \o r
    BY <1>1, <1>2, <1>6, OneBreak
  <1>8. /\ w = Cut(SubSeq(w, 1, b - 1), w[b], SubSeq(w, b + 1, Len(w)))
        /\ w = SubSeq(w, 1, b) \o SubSeq(w, b + 1, Len(w))
    BY <1>1, <1>3, SpelledSplit
  <1>9. CASE w[b] = "hyphen"
    <2>1. w = Cut(l, "hyphen", r)
      BY <1>5, <1>8, <1>9
    <2>2. b = Len(l) + 1 /\ b + 1 = Len(l) + 1 + 1
      BY <1>1, <1>6, <1>9
    <2>3. "hyphen" \in Stops /\ "hyphen" \in Signs /\ Marks = Stops \cup Ligatures
      BY SignFacts DEF Marks
    <2>4. IsCut(w, l, "hyphen", r)
      BY <1>2, <2>1, <2>3, CutFacts DEF Texts
    <2>5. RunBefore(w, b, Stops) = RunBefore(l, Len(l) + 1, Stops) /\ RunFrom(w, b + 1, Stops) = RunFrom(r, 1, Stops)
      <3>1. l \in Seq(Signs) /\ r \in Seq(Signs) /\ w \in Seq(Signs)
        BY <1>2 DEF Texts
      <3>2. /\ \A i \in 1 .. Len(l) + 1 :
                 /\ RunBefore(w, i, Stops) = RunBefore(l, i, Stops)
                 /\ RunFrom(w, i, Stops) = RunFrom(l, i, Stops)
            /\ \A i \in 1 .. Len(r) + 1 :
                 /\ RunBefore(w, Len(l) + 1 + i, Stops) = RunBefore(r, i, Stops)
                 /\ RunFrom(w, Len(l) + 1 + i, Stops) = RunFrom(r, i, Stops)
        BY <2>3, <2>4, <3>1, RunsApart
      <3> QED BY <1>6, <2>2, <3>2
    <2>6. head = RunBefore(l, Len(l) + 1, Stops) /\ tail = RunFrom(r, 1, Stops)
      <3>1. \A m \in 1 .. Len(l) : l[m] \in Marks <=> l[m] \in Stops
        BY <1>2, <2>3
      <3>2. \A m \in 1 .. Len(r) : r[m] \in Marks <=> r[m] \in Stops
        BY <1>2, <2>3
      <3>3. RunBefore(l, Len(l) + 1, Marks) = RunBefore(l, Len(l) + 1, Stops)
        BY <1>2, <1>6, <3>1, SameStops
      <3>4. RunFrom(r, 1, Marks) = RunFrom(r, 1, Stops)
        BY <1>2, <1>6, <3>2, SameStops
      <3> QED BY <3>3, <3>4
    <2>7. RunBefore(w, b, Stops) \in Dictionary
          /\ RunBefore(w, b, Stops) \o RunFrom(w, b + 1, Stops) \notin Dictionary
      <3>1. b \in DOMAIN w /\ w[b] = "hyphen"
        BY <1>1, <1>9, <1>2 DEF Texts
      <3>2. ClearBreaks(w)
        BY DEF Clear, w
      <3> QED BY <3>1, <3>2 DEF ClearBreaks
    <2>8. keep
      BY <2>5, <2>6, <2>7
    <2> QED BY <1>4, <1>7, <2>1, <2>8 DEF w
  <1>10. CASE w[b] # "hyphen"
    <2>0. /\ IsLetters(w[b]) /\ Len(l) = b /\ Marks = Stops \cup Ligatures
      BY <1>1, <1>10 DEF Marks
    <2>1. w = l \o r
      BY <1>5, <1>8, <1>10
    <2> DEFINE n == b + 1
    <2>20. n \in 1 .. Len(l) + 1 /\ n = Len(l) + 1 /\ n \in Nat \ {0} /\ n - 1 = b
      BY <1>6, <2>0
    <2> HIDE DEF n
    <2>2. PICK f : BeginsAt(l, n, Marks, f)
      BY <1>2, <2>20, RunsEnd
    <2>3. PICK to : EndsAt(r, 1, Marks, to)
      BY <1>2, <1>6, RunsEnd
    <2>4. f \in 1 .. n /\ to \in 1 - 1 .. Len(r)
      BY <2>2, <2>3 DEF BeginsAt, EndsAt
    <2>5. f # n
      <3>1. n # 1 /\ l[n - 1] \notin Marks
        BY <1>1, <1>6, <2>0, <2>20 DEF IsLetters
      <3> QED BY <2>2, <3>1 DEF BeginsAt
    <2>6. to # 0
      <3>1. r[0 + 1] \notin Marks
        BY <1>1 DEF IsLetters
      <3> QED BY <1>6, <2>3, <3>1 DEF EndsAt
    <2>7. f \in 1 .. b /\ to \in 1 .. Len(r) /\ b + to \in b .. Len(w)
      BY <1>2, <1>6, <2>4, <2>5, <2>6, <2>20
    <2>8. head = SubSeq(l, f, b) /\ tail = SubSeq(r, 1, to)
      <3>1. RunBefore(l, n, Marks) = SubSeq(l, f, n - 1)
        BY <2>2, <2>20, RunBeforeIs
      <3>2. RunFrom(r, 1, Marks) = SubSeq(r, 1, to)
        BY <1>2, <2>3, RunFromIs
      <3> QED BY <2>20, <3>1, <3>2
    <2>9. head = SubSeq(w, f, b)
      <3>1. Within(w, 0, l)
        BY <1>1, <1>2, <1>6, <2>0 DEF Within
      <3>2. f \in Nat \ {0} /\ b \in Nat /\ b <= Len(l) /\ 0 + f = f /\ 0 + b = b
        BY <1>6, <2>0, <2>7
      <3>3. l \in Seq(Signs) /\ w \in Seq(Signs)
        BY <1>2 DEF Texts
      <3>4. SubSeq(w, 0 + f, 0 + b) = SubSeq(l, f, b)
        BY <3>1, <3>2, <3>3, SubSeqWithin
      <3> QED BY <2>8, <3>2, <3>4
    <2>10. tail = SubSeq(w, n, b + to)
      <3>1. Within(w, b, r)
        BY <1>1, <1>2, <1>6, <2>0 DEF Within
      <3>2. b \in Nat /\ 1 \in Nat \ {0} /\ to \in Nat /\ to <= Len(r)
        BY <1>6, <2>7, <1>2
      <3>3. r \in Seq(Signs) /\ w \in Seq(Signs)
        BY <1>2 DEF Texts
      <3>4. SubSeq(w, b + 1, b + to) = SubSeq(r, 1, to)
        BY <3>1, <3>2, <3>3, SubSeqWithin
      <3> QED BY <2>8, <3>4 DEF n
    <2> DEFINE e == b + to
    <2>11. head \o tail = SubSeq(w, f, e)
      <3>1. f \in 1 .. Len(w) + 1 /\ b \in f - 1 .. Len(w) /\ e \in b .. Len(w)
        BY <1>1, <1>2, <1>6, <2>7
      <3> HIDE DEF e
      <3>2. SubSeq(w, f, b) \o SubSeq(w, b + 1, e) = SubSeq(w, f, e)
        BY <1>2, <3>1, ConcatAdjacentSubSeq DEF Texts
      <3> QED BY <2>9, <2>10, <3>2 DEF n, e
    <2>12. SUFFICES ASSUME keep PROVE FALSE
      <3> HIDE DEF keep
      <3> QED BY <1>4, <1>7, <2>1 DEF w
    <2>13. head \in Dictionary /\ head \o tail \notin Dictionary
      BY <2>12
    <2> HIDE DEF head, tail, keep
    <2>14. \A i \in 1 .. Len(r) : b + i \in 1 .. Len(w)
      BY <1>6
    <2>15. CASE f = 1
      <3>1. SubSeq(w, 1, b) \in Dictionary
        BY <2>9, <2>13, <2>15
      <3>2. w \in Dictionary /\ \A i \in 1 .. Len(w) : IsLetters(w[i])
        BY <3>1 DEF Tractable, Clear, w, b
      <3>3. to = Len(r)
        <4>1. SUFFICES ASSUME to # Len(r) PROVE FALSE
          OBVIOUS
        <4>2. to + 1 \in 1 .. Len(r)
          BY <1>2, <2>7, <4>1
        <4>3. r[to + 1] \notin Marks
          BY <1>1, <2>14, <3>2, <4>2 DEF IsLetters
        <4> QED BY <2>3, <4>1, <4>3 DEF EndsAt
      <3>4. e = Len(w) /\ SubSeq(w, 1, Len(w)) = w
        BY <1>2, <1>6, <3>3, SubSeqFull DEF Texts
      <3> QED BY <2>11, <2>13, <2>15, <3>2, <3>4
    <2>16. CASE f # 1
      <3> DEFINE i == f - 1
      <3>1. i \in 1 .. Len(w) /\ i \in 1 .. Len(l) /\ i # Len(w) /\ i + 1 = f
        BY <1>1, <1>2, <1>6, <2>0, <2>7, <2>16
      <3>2. w[i] \in Marks
        BY <1>1, <2>2, <2>16, <3>1 DEF BeginsAt
      <3> HIDE DEF i
      <3>3. w[i] = "hyphen"
        BY <1>3, <3>1, <3>2 DEF Spelled, IsLetters
      <3>4. EndsAt(w, f, Stops, e)
        <4>1. e \in f - 1 .. Len(w)
          BY <1>6, <1>2, <2>7
        <4>2. ASSUME NEW m \in f .. e PROVE w[m] \notin Stops
          <5>1. CASE m <= b
            <6>1. m \in f .. n - 1 /\ m \in 1 .. Len(l)
              BY <1>6, <2>0, <2>7, <2>20, <5>1
            <6>2. l[m] \notin Marks
              BY <2>2, <6>1 DEF BeginsAt
            <6> QED BY <1>1, <2>0, <6>1, <6>2
          <5>2. CASE m > b
            <6> DEFINE k == m - b
            <6>1. k \in 1 .. to /\ k \in 1 .. Len(r) /\ b + k = m
              BY <1>2, <1>6, <2>7, <5>2
            <6> HIDE DEF k
            <6>2. r[k] \notin Marks /\ r[k] = w[b + k]
              BY <1>1, <2>3, <6>1 DEF EndsAt
            <6> QED BY <2>0, <6>1, <6>2
          <5>3. m <= b \/ m > b
            BY <1>6, <2>7
          <5> QED BY <5>1, <5>2, <5>3
        <4>3. e = Len(w) \/ w[e + 1] \in Stops
          <5>1. CASE to = Len(r)
            BY <1>6, <5>1
          <5>2. CASE to # Len(r)
            <6>1. to + 1 \in 1 .. Len(r) /\ b + (to + 1) = e + 1
              BY <1>2, <1>6, <2>7, <5>2
            <6>2. r[to + 1] \in Marks /\ r[to + 1] \notin Ligatures
              BY <1>2, <2>3, <5>2, <6>1 DEF EndsAt
            <6>3. r[to + 1] = w[e + 1]
              BY <1>1, <6>1
            <6> QED BY <2>0, <6>2, <6>3
          <5> QED BY <5>1, <5>2
        <4> HIDE DEF e
        <4> QED BY <4>1, <4>2, <4>3 DEF EndsAt
      <3> DEFINE rest == RunFrom(w, i + 1, Stops)
      <3>5. rest = head \o tail
        <4>1. f \in Nat \ {0}
          BY <2>7
        <4>2. RunFrom(w, f, Stops) = SubSeq(w, f, e)
          <5> HIDE DEF e
          <5> QED BY <1>2, <3>4, <4>1, RunFromIs
        <4> QED BY <2>11, <3>1, <4>2
      <3>6. \A k \in 1 .. Len(rest) - 1 : SubSeq(rest, 1, k) \in Dictionary => rest \in Dictionary
        <4>1. i \in DOMAIN w /\ ClearBreaks(w)
          BY <1>2, <3>1 DEF Clear, w, Texts
        <4> QED BY <3>3, <4>1 DEF ClearBreaks
      <3>7. head \in Seq(Signs) /\ tail \in Seq(Signs) /\ Len(head) \in Nat \ {0} /\ Len(tail) \in Nat \ {0}
        <4>1. \A j \in f .. b : j \in 1 .. Len(w)
          BY <1>1, <1>2, <2>7
        <4>2. \A j \in n .. e : j \in 1 .. Len(w)
          BY <1>2, <1>6, <2>7, <2>20
        <4>3. f \in Int /\ b \in Int /\ n \in Int /\ e \in Int /\ f <= b /\ n <= e
          BY <1>6, <2>7, <2>20
        <4>4. \A j \in 1 .. Len(w) : w[j] \in Signs
          BY <1>2
        <4> HIDE DEF e
        <4>5. SubSeq(w, f, b) \in Seq(Signs) /\ Len(SubSeq(w, f, b)) = b - f + 1
          BY <4>1, <4>3, <4>4, SubSeqProperties
        <4>6. SubSeq(w, n, e) \in Seq(Signs) /\ Len(SubSeq(w, n, e)) = e - n + 1
          BY <4>2, <4>3, <4>4, SubSeqProperties
        <4>7. b - f + 1 \in Nat \ {0} /\ e - n + 1 \in Nat \ {0}
          BY <4>3
        <4> QED BY <2>9, <2>10, <4>5, <4>6, <4>7 DEF e
      <3>8. SubSeq(rest, 1, Len(head)) = head /\ Len(head) \in 1 .. Len(rest) - 1
        <4>1. 1 \in 1 .. Len(head) /\ Len(head) \in 1 .. Len(head)
          BY <3>7
        <4>2. SubSeq(head \o tail, 1, Len(head)) = SubSeq(head, 1, Len(head))
          BY <3>7, <4>1, SubSeqOfConcat1
        <4>3. SubSeq(head, 1, Len(head)) = head
          BY <3>7, SubSeqFull
        <4>4. Len(head \o tail) = Len(head) + Len(tail)
          BY <3>7, ConcatProperties
        <4>5. Len(head) \in 1 .. Len(head \o tail) - 1
          BY <3>7, <4>4
        <4> QED BY <3>5, <4>2, <4>3, <4>5
      <3> HIDE DEF rest
      <3> QED BY <2>13, <3>5, <3>6, <3>8
    <2> QED BY <2>15, <2>16
  <1> QED BY <1>9, <1>10

-----------------------------------------------------------------------------
(* A line, word by word *)

\* What the extracted text e becomes on its way to the words m.
Reads(e, s, o, m) ==
  /\ e \in Texts /\ s \in Texts /\ o \in Texts /\ m \in Texts
  /\ RepairLigatureSpaces(e) = s /\ ExpandLigatures(s) = o
  /\ BreaksApart(o) /\ Dehyphenate(o) = m

\* What comes before the last word is repaired alike whatever follows that begins like it.
Opens(e, s, g) ==
  \E a, b \in Texts :
    /\ e = a \o g /\ s = b \o g
    /\ \A v \in Texts : v # <<>> /\ v[1] = g[1] =>
         RepairLigatureSpaces(a \o v) = b \o RepairLigatureSpaces(v)

EndsInComma(e) == \E t \in Texts : e = t \o <<"comma">>

\* The glyphs g of a word, which is h on paper, are read as w.
Word(g, h, w) ==
  /\ g \in Texts /\ h \in Texts /\ w \in Texts
  /\ RepairLigatureSpaces(g) = g /\ ExpandLigatures(g) = h
  /\ BreaksApart(h) /\ Dehyphenate(h) = w

LEMMA RepairedType ==
  ASSUME NEW t \in Texts
  PROVE  RepairLigatureSpaces(t) \in Texts
  BY SpacingFacts

LEMMA CutType ==
  ASSUME NEW u \in Texts, NEW v \in Texts
  PROVE  Cut(u, Space, v) \in Texts
  BY SpaceFacts, CutFacts DEF Texts

LEMMA ReadFirst ==
  ASSUME NEW g, NEW h, NEW w, Word(g, h, w)
  PROVE  Reads(g, g, h, w) /\ Opens(g, g, g)
  <1>1. Reads(g, g, h, w)
    BY DEF Reads, Word
  <1> DEFINE e == <<>>
  <1>2. e \in Texts /\ \A v \in Texts : e \o v = v
    BY EmptySeq, ConcatEmptySeq DEF Texts
  <1> HIDE DEF e
  <1>3. g \in Texts /\ g = e \o g
    BY <1>2 DEF Word
  <1>4. ASSUME NEW v \in Texts PROVE RepairLigatureSpaces(e \o v) = e \o RepairLigatureSpaces(v)
    <2>1. RepairLigatureSpaces(v) \in Texts
      BY RepairedType
    <2> QED BY <1>2, <2>1
  <1>5. Opens(g, g, g)
    BY <1>2, <1>3, <1>4 DEF Opens
  <1> QED BY <1>1, <1>5

LEMMA ReadNext ==
  ASSUME NEW e, NEW s, NEW o, NEW m, Reads(e, s, o, m),
         NEW g, NEW h, NEW w, Word(g, h, w),
         NEW d \in Texts, RepairLigatureSpaces(d) = Cut(s, Space, g)
  PROVE  Reads(d, Cut(s, Space, g), Cut(o, Space, h), Cut(m, Space, w))
  <1>1. /\ s \in Texts /\ o \in Texts /\ m \in Texts /\ g \in Texts /\ h \in Texts /\ w \in Texts
        /\ ExpandLigatures(s) = o /\ BreaksApart(o) /\ Dehyphenate(o) = m
        /\ ExpandLigatures(g) = h /\ BreaksApart(h) /\ Dehyphenate(h) = w
    BY DEF Reads, Word
  <1>2. Cut(s, Space, g) \in Texts /\ Cut(o, Space, h) \in Texts /\ Cut(m, Space, w) \in Texts
    BY <1>1, CutType
  <1>3. ExpandLigatures(Cut(s, Space, g)) = Cut(o, Space, h)
    BY <1>1, SpaceFacts, ExpandApart
  <1>4. BreaksApart(Cut(o, Space, h)) /\ Dehyphenate(Cut(o, Space, h)) = Cut(m, Space, w)
    BY <1>1, BreaksRepairedApart
  <1> QED BY <1>2, <1>3, <1>4 DEF Reads

\* A word after its space.
LEMMA ReadSpaced ==
  ASSUME NEW e, NEW s, NEW o, NEW m, Reads(e, s, o, m),
         NEW g, NEW h, NEW w, Word(g, h, w)
  PROVE  LET d == Cut(e, Space, g)
         IN /\ Reads(d, Cut(s, Space, g), Cut(o, Space, h), Cut(m, Space, w))
            /\ Opens(d, Cut(s, Space, g), g)
  <1>1. /\ e \in Texts /\ s \in Texts /\ RepairLigatureSpaces(e) = s
        /\ g \in Texts /\ RepairLigatureSpaces(g) = g
    BY DEF Reads, Word
  <1>2. ASSUME NEW v \in Texts
        PROVE  RepairLigatureSpaces(Cut(e, Space, v)) = Cut(s, Space, RepairLigatureSpaces(v))
    BY <1>1, SpaceFacts, SpacesApart
  <1>3. Cut(e, Space, g) \in Texts /\ RepairLigatureSpaces(Cut(e, Space, g)) = Cut(s, Space, g)
    BY <1>1, <1>2, CutType
  <1>4. Reads(Cut(e, Space, g), Cut(s, Space, g), Cut(o, Space, h), Cut(m, Space, w))
    BY <1>3, ReadNext
  <1> DEFINE k == <<Space>>
             a == e \o k
             b == s \o k
  <1>5. k \in Texts
    BY SpaceFacts, ShortSeqs DEF Texts
  <1>6. \A v : Cut(e, Space, v) = a \o v /\ Cut(s, Space, v) = b \o v
    BY DEF Cut
  <1> HIDE DEF k
  <1>7. a \in Texts /\ b \in Texts
    BY <1>1, <1>5, Associate DEF Texts
  <1> HIDE DEF a, b
  <1>8. Opens(Cut(e, Space, g), Cut(s, Space, g), g)
    <2>1. ASSUME NEW v \in Texts PROVE RepairLigatureSpaces(a \o v) = b \o RepairLigatureSpaces(v)
      <3>1. Cut(e, Space, v) = a \o v
        BY <1>6
      <3>2. Cut(s, Space, RepairLigatureSpaces(v)) = b \o RepairLigatureSpaces(v)
        BY <1>6
      <3> QED BY <1>2, <3>1, <3>2
    <2>2. Cut(e, Space, g) = a \o g /\ Cut(s, Space, g) = b \o g
      BY <1>6
    <2> QED BY <1>7, <2>1, <2>2 DEF Opens
  <1> QED BY <1>4, <1>8

\* One whose lost space the punctuation before it shows.
LEMMA ReadAfterComma ==
  ASSUME NEW e, NEW s, NEW o, NEW m, Reads(e, s, o, m), EndsInComma(e),
         NEW g, NEW h, NEW w, Word(g, h, w), g # <<>>, g[1] \in Ligatures
  PROVE  LET d == e \o g
         IN /\ Reads(d, Cut(s, Space, g), Cut(o, Space, h), Cut(m, Space, w))
            /\ Opens(d, Cut(s, Space, g), g)
  <1>1. /\ e \in Texts /\ s \in Texts /\ RepairLigatureSpaces(e) = s
        /\ g \in Texts /\ RepairLigatureSpaces(g) = g
    BY DEF Reads, Word
  <1>2. PICK t \in Texts : e = t \o <<"comma">>
    BY DEF EndsInComma
  <1>3. ASSUME NEW v \in Texts, v # <<>>, v[1] \in Ligatures
        PROVE  RepairLigatureSpaces(e \o v) = Cut(s, Space, RepairLigatureSpaces(v))
    <2>1. RepairLigatureSpaces(Cut(t, "comma", v)) =
            Cut(RepairLigatureSpaces(t \o <<"comma">>), " ", RepairLigatureSpaces(v))
      BY <1>2, <1>3, SpaceAfterComma
    <2> QED BY <1>1, <1>2, <2>1 DEF Cut, Space
  <1>4. e \o g \in Texts
    BY <1>1, Associate DEF Texts
  <1>5. RepairLigatureSpaces(e \o g) = Cut(s, Space, g)
    BY <1>1, <1>3
  <1>6. Reads(e \o g, Cut(s, Space, g), Cut(o, Space, h), Cut(m, Space, w))
    BY <1>4, <1>5, ReadNext
  <1> DEFINE k == <<Space>>
             b == s \o k
  <1>7. k \in Texts
    BY SpaceFacts, ShortSeqs DEF Texts
  <1>8. \A v : Cut(s, Space, v) = b \o v
    BY DEF Cut
  <1> HIDE DEF k
  <1>9. b \in Texts
    BY <1>1, <1>7, Associate DEF Texts
  <1> HIDE DEF b
  <1>10. Opens(e \o g, Cut(s, Space, g), g)
    <2>1. \A v \in Texts : v # <<>> /\ v[1] = g[1] =>
            RepairLigatureSpaces(e \o v) = b \o RepairLigatureSpaces(v)
      BY <1>3, <1>8
    <2>2. Cut(s, Space, g) = b \o g
      BY <1>8
    <2> QED BY <1>1, <1>9, <2>1, <2>2 DEF Opens
  <1> QED BY <1>6, <1>10

\* One whose lost space the dictionary shows.
LEMMA ReadGuessed ==
  ASSUME NEW e, NEW s, NEW o, NEW m, Reads(e, s, o, m),
         NEW q \in Texts, q # <<>>, Opens(e, s, q),
         NEW g, NEW h, NEW w, Word(g, h, w),
         RepairLigatureSpaces(q \o g) = Cut(q, Space, g)
  PROVE  Reads(e \o g, Cut(s, Space, g), Cut(o, Space, h), Cut(m, Space, w))
  <1>1. e \in Texts /\ s \in Texts /\ g \in Texts
    BY DEF Reads, Word
  <1>2. PICK a \in Texts, b \in Texts :
          /\ e = a \o q /\ s = b \o q
          /\ \A v \in Texts : v # <<>> /\ v[1] = q[1] =>
               RepairLigatureSpaces(a \o v) = b \o RepairLigatureSpaces(v)
    BY DEF Opens
  <1> DEFINE v == q \o g
             k == <<Space>>
  <1>3. v \in Texts /\ v # <<>> /\ v[1] = q[1]
    <2>1. /\ v \in Seq(Signs) /\ Len(v) = Len(q) + Len(g)
          /\ \A i \in 1 .. Len(q) + Len(g) : v[i] = IF i <= Len(q) THEN q[i] ELSE g[i - Len(q)]
      <3>1. q \in Seq(Signs) /\ g \in Seq(Signs)
        BY <1>1 DEF Texts
      <3> QED BY <3>1, ConcatProperties
    <2>2. Len(q) \in Nat \ {0} /\ Len(g) \in Nat
      BY <1>1, EmptySeq DEF Texts
    <2> HIDE DEF v
    <2>3. Len(v) # 0 /\ v[1] = q[1]
      <3>1. 1 \in 1 .. Len(q) + Len(g) /\ 1 <= Len(q) /\ Len(q) + Len(g) # 0
        BY <2>2
      <3> QED BY <2>1, <3>1
    <2> QED BY <2>1, <2>3, EmptySeq DEF Texts
  <1>4. Associates(a, q, g)
    BY <1>1, Associate DEF Texts
  <1>5. e \o g = a \o v
    BY <1>2, <1>4 DEF Associates
  <1>6. RepairLigatureSpaces(a \o v) = b \o Cut(q, Space, g)
    <2>1. RepairLigatureSpaces(v) = Cut(q, Space, g)
      OBVIOUS
    <2> HIDE DEF v
    <2> QED BY <1>2, <1>3, <2>1
  <1>7. b \o Cut(q, Space, g) = Cut(s, Space, g)
    <2>1. k \in Texts
      BY SpaceFacts, ShortSeqs DEF Texts
    <2> HIDE DEF k
    <2>2. Associates(b, q \o k, g) /\ Associates(b, q, k)
      <3>1. q \o k \in Texts
        BY <2>1, Associate DEF Texts
      <3> QED BY <1>1, <2>1, <3>1, Associate DEF Texts
    <2> DEFINE c == Cut(q, Space, g)
    <2>3. c = (q \o k) \o g /\ Cut(s, Space, g) = (s \o k) \o g
      BY DEF Cut, k
    <2> HIDE DEF c
    <2>4. b \o c = (s \o k) \o g
      BY <1>2, <2>2, <2>3 DEF Associates
    <2> QED BY <2>3, <2>4 DEF c
  <1>8. e \o g \in Texts
    BY <1>1, Associate DEF Texts
  <1> HIDE DEF v
  <1>9. RepairLigatureSpaces(e \o g) = Cut(s, Space, g)
    BY <1>5, <1>6, <1>7
  <1> QED BY <1>8, <1>9, ReadNext

PrintedWords ==
  {p \in [word : Vocabulary, dropped : BOOLEAN, broken : 0 .. 3, heading : BOOLEAN] : Printed(p)}

LEMMA AppendFacts ==
  ASSUME NEW Q, NEW s \in Seq(Q), NEW x \in Q
  PROVE  /\ Append(s, x) \in Seq(Q) /\ Len(s) \in Nat /\ Len(Append(s, x)) = Len(s) + 1
         /\ DOMAIN s = 1 .. Len(s) /\ DOMAIN Append(s, x) = 1 .. Len(s) + 1
         /\ \A i \in 1 .. Len(s) : Append(s, x)[i] = s[i] /\ s[i] \in Q
         /\ Append(s, x)[Len(s) + 1] = x
         /\ s = <<>> <=> Len(s) = 0
  BY EmptySeq

\* The functions f and g on 1 .. n and 1 .. n + 1 differ in the last value y alone.
Grows(f, g, y, n, Q) ==
  /\ n \in Nat /\ y \in Q
  /\ f = [i \in 1 .. n |-> f[i]] /\ g = [i \in 1 .. n + 1 |-> g[i]]
  /\ \A i \in 1 .. n : f[i] \in Q /\ g[i] = f[i]
  /\ g[n + 1] = y

Grown(f, g, y, Q) == f \in Seq(Q) /\ g = Append(f, y)

LEMMA MapIs ==
  ASSUME NEW f, NEW g, NEW y, NEW n, NEW Q, Grows(f, g, y, n, Q)
  PROVE  Grown(f, g, y, Q)
  <1>0. /\ n \in Nat /\ y \in Q
        /\ f = [i \in 1 .. n |-> f[i]] /\ g = [i \in 1 .. n + 1 |-> g[i]]
        /\ \A i \in 1 .. n : f[i] \in Q /\ g[i] = f[i]
        /\ g[n + 1] = y
    BY DEF Grows
  <1>1. f \in [1 .. n -> Q]
    BY <1>0
  <1>2. f \in Seq(Q) /\ Len(f) = n
    BY <1>0, <1>1, SeqOfFunction
  <1>3. \A i \in 1 .. n + 1 : i \in 1 .. n \/ i = n + 1
    BY <1>0
  <1>4. g \in [1 .. n + 1 -> Q]
    BY <1>0, <1>3
  <1>5. g \in Seq(Q) /\ Len(g) = n + 1
    <2>1. n + 1 \in Nat
      BY <1>0
    <2> QED BY <1>4, <2>1, SeqOfFunction
  <1> DEFINE h == Append(f, y)
  <1>6. /\ h \in Seq(Q) /\ Len(h) = n + 1
        /\ \A i \in 1 .. n : h[i] = f[i]
        /\ h[n + 1] = y
    BY <1>0, <1>2, AppendFacts
  <1> HIDE DEF h
  <1>7. \A i \in 1 .. Len(g) : g[i] = h[i]
    BY <1>0, <1>3, <1>5, <1>6
  <1>8. g = h
    BY <1>5, <1>6, <1>7, SeqEqual
  <1> QED BY <1>2, <1>8 DEF h, Grown

LEMMA NothingPrinted == Extracted(<<>>) = <<>> /\ Meant(<<>>) = <<>>
  <1> DEFINE y == [i \in DOMAIN <<>> |->
                     IF i = 1 \/ <<>>[i].dropped THEN Glyphs(<<>>[i]) ELSE <<" ">> \o Glyphs(<<>>[i])]
             z == [i \in DOMAIN <<>> |-> IF i = 1 THEN <<>>[i].word ELSE <<" ">> \o <<>>[i].word]
  <1>1. Extracted(<<>>) = FlattenSeq(y) /\ Meant(<<>>) = FlattenSeq(z)
    BY DEF Extracted, Meant
  <1>2. y = <<>> /\ z = <<>>
    OBVIOUS
  <1> HIDE DEF y, z
  <1> QED BY <1>1, <1>2, FlattenNone

\* What the words of a line put on the page and were meant to.
LEMMA ExtractedAppend ==
  ASSUME ClearVocabulary(Vocabulary), NEW words \in Seq(PrintedWords), NEW p \in PrintedWords
  PROVE  Extracted(Append(words, p)) =
              Extracted(words) \o (IF words = <<>> \/ p.dropped THEN Glyphs(p)
                                   ELSE <<Space>> \o Glyphs(p))
  <1> DEFINE L == Append(words, p)
             n == Len(words)
             f == [i \in DOMAIN words |->
                     IF i = 1 \/ words[i].dropped THEN Glyphs(words[i]) ELSE <<" ">> \o Glyphs(words[i])]
             g == [i \in DOMAIN L |->
                     IF i = 1 \/ L[i].dropped THEN Glyphs(L[i]) ELSE <<" ">> \o Glyphs(L[i])]
             y == IF n + 1 = 1 \/ p.dropped THEN Glyphs(p) ELSE <<" ">> \o Glyphs(p)
  <1>1. /\ n \in Nat /\ DOMAIN words = 1 .. n /\ DOMAIN L = 1 .. n + 1
        /\ \A i \in 1 .. n : L[i] = words[i] /\ words[i] \in PrintedWords
        /\ L[n + 1] = p
        /\ words = <<>> <=> n = 0
    BY AppendFacts
  <1>2. ASSUME NEW q \in PrintedWords PROVE Glyphs(q) \in Texts /\ <<" ">> \o Glyphs(q) \in Texts
    <2>1. Printed(q)
      BY DEF PrintedWords
    <2>2. Clear(q.word)
      BY <2>1, WordsAreClear DEF Printed
    <2>3. Glyphs(q) \in Texts
      BY <2>1, <2>2, GlyphsEnds
    <2> DEFINE k == <<" ">>
    <2>4. k \in Texts
      BY SpaceFacts, ShortSeqs DEF Texts, Space
    <2> HIDE DEF k
    <2>5. k \o Glyphs(q) \in Texts
      BY <2>3, <2>4, Associate DEF Texts
    <2> QED BY <2>3, <2>5 DEF k
  <1> HIDE DEF L
  <1>3. \A i \in 1 .. n : f[i] \in Texts
    BY <1>1, <1>2
  <1>4. \A i \in 1 .. n : g[i] = f[i]
    <2>1. \A i \in 1 .. n : i \in 1 .. n + 1
      BY <1>1
    <2> HIDE DEF n
    <2> QED BY <1>1, <2>1
  <1>5. g[n + 1] = y
    <2>1. n + 1 \in 1 .. n + 1
      BY <1>1
    <2> HIDE DEF n
    <2> QED BY <1>1, <2>1
  <1>6. y \in Texts
    BY <1>2
  <1>7. f = [i \in 1 .. n |-> f[i]] /\ g = [i \in 1 .. n + 1 |-> g[i]]
    <2> HIDE DEF n
    <2> QED BY <1>1
  <1>8. Extracted(words) = FlattenSeq(f) /\ Extracted(L) = FlattenSeq(g)
    BY DEF Extracted
  <1>9. n + 1 = 1 <=> words = <<>>
    BY <1>1
  <1>13. n \in Nat
    BY <1>1
  <1> HIDE DEF f, g, y, n
  <1>14. Grows(f, g, y, n, Texts)
    BY <1>3, <1>4, <1>5, <1>6, <1>7, <1>13 DEF Grows
  <1>10. f \in Seq(Texts) /\ g = Append(f, y)
    BY <1>14, MapIs DEF Grown
  <1>11. FlattenSeq(g) = FlattenSeq(f) \o y
    BY <1>6, <1>10, FlattenAppend DEF Texts
  <1> QED BY <1>8, <1>9, <1>11 DEF L, y, Space

LEMMA MeantAppend ==
  ASSUME ClearVocabulary(Vocabulary), NEW words \in Seq(PrintedWords), NEW p \in PrintedWords
  PROVE  Meant(Append(words, p)) =
              Meant(words) \o (IF words = <<>> THEN p.word ELSE <<Space>> \o p.word)
  <1> DEFINE L == Append(words, p)
             n == Len(words)
             f == [i \in DOMAIN words |-> IF i = 1 THEN words[i].word ELSE <<" ">> \o words[i].word]
             g == [i \in DOMAIN L |-> IF i = 1 THEN L[i].word ELSE <<" ">> \o L[i].word]
             y == IF n + 1 = 1 THEN p.word ELSE <<" ">> \o p.word
  <1>1. /\ n \in Nat /\ DOMAIN words = 1 .. n /\ DOMAIN L = 1 .. n + 1
        /\ \A i \in 1 .. n : L[i] = words[i] /\ words[i] \in PrintedWords
        /\ L[n + 1] = p
        /\ words = <<>> <=> n = 0
    BY AppendFacts
  <1>2. ASSUME NEW q \in PrintedWords PROVE q.word \in Texts /\ <<" ">> \o q.word \in Texts
    <2>1. Printed(q)
      BY DEF PrintedWords
    <2>2. Clear(q.word)
      BY <2>1, WordsAreClear DEF Printed
    <2>3. q.word \in Texts
      BY <2>2 DEF Clear, Spelled
    <2> DEFINE k == <<" ">>
    <2>4. k \in Texts
      BY SpaceFacts, ShortSeqs DEF Texts, Space
    <2> HIDE DEF k
    <2>5. k \o q.word \in Texts
      BY <2>3, <2>4, Associate DEF Texts
    <2> QED BY <2>3, <2>5 DEF k
  <1> HIDE DEF L
  <1>3. \A i \in 1 .. n : f[i] \in Texts
    BY <1>1, <1>2
  <1>4. \A i \in 1 .. n : g[i] = f[i]
    <2>1. \A i \in 1 .. n : i \in 1 .. n + 1
      BY <1>1
    <2> HIDE DEF n
    <2> QED BY <1>1, <2>1
  <1>5. g[n + 1] = y
    <2>1. n + 1 \in 1 .. n + 1
      BY <1>1
    <2> HIDE DEF n
    <2> QED BY <1>1, <2>1
  <1>6. y \in Texts
    BY <1>2
  <1>7. f = [i \in 1 .. n |-> f[i]] /\ g = [i \in 1 .. n + 1 |-> g[i]]
    <2> HIDE DEF n
    <2> QED BY <1>1
  <1>8. Meant(words) = FlattenSeq(f) /\ Meant(L) = FlattenSeq(g)
    BY DEF Meant
  <1>9. n + 1 = 1 <=> words = <<>>
    BY <1>1
  <1>13. n \in Nat
    BY <1>1
  <1> HIDE DEF f, g, y, n
  <1>14. Grows(f, g, y, n, Texts)
    BY <1>3, <1>4, <1>5, <1>6, <1>7, <1>13 DEF Grows
  <1>10. f \in Seq(Texts) /\ g = Append(f, y)
    BY <1>14, MapIs DEF Grown
  <1>11. FlattenSeq(g) = FlattenSeq(f) \o y
    BY <1>6, <1>10, FlattenAppend DEF Texts
  <1> QED BY <1>8, <1>9, <1>11 DEF L, y, Space

\* What recovering a line takes of its last word.
LEMMA RecoverableStep ==
  ASSUME NEW words \in Seq(PrintedWords), NEW p \in PrintedWords, NEW L, L = Append(words, p),
         words = <<>> => ~p.dropped, words # <<>> => ~words[1].dropped,
         Recoverable(L)
  PROVE  LET q == words[Len(words)]
         IN /\ Recoverable(words) /\ Tractable(p)
            /\ Guessed(L, Len(L)) <=> words # <<>> /\ p.dropped /\ Last(q.word) # "comma"
            /\ words # <<>> /\ p.dropped /\ Last(q.word) # "comma" =>
                 Plain(p) /\ Plain(q) /\ ~Guessed(words, Len(words))
  <1> DEFINE n == Len(words)
             q == words[n]
  <1>1. /\ n \in Nat /\ DOMAIN words = 1 .. n /\ DOMAIN L = 1 .. n + 1 /\ Len(L) = n + 1
        /\ \A i \in 1 .. n : L[i] = words[i]
        /\ L[n + 1] = p
        /\ words = <<>> <=> n = 0
    BY AppendFacts
  <1> HIDE DEF n
  <1>2. ASSUME NEW i \in 0 .. n PROVE Guessed(L, i) <=> Guessed(words, i)
    <2>1. CASE i \in 2 .. n
      <3>1. i \in 1 .. n /\ i - 1 \in 1 .. n /\ i \in 1 .. n + 1
        BY <1>1, <2>1
      <3>2. L[i] = words[i] /\ L[i - 1] = words[i - 1] /\ i \in DOMAIN L /\ i \in DOMAIN words
        BY <1>1, <3>1
      <3> QED BY <3>2 DEF Guessed
    <2>2. CASE i = 1
      <3>1. 1 \in 1 .. n /\ words # <<>> /\ L[1] = words[1]
        BY <1>1, <2>2
      <3> QED BY <2>2, <3>1 DEF Guessed
    <2>3. CASE i = 0
      <3>1. 0 \notin DOMAIN L /\ 0 \notin DOMAIN words
        BY <1>1
      <3> QED BY <2>3, <3>1 DEF Guessed
    <2>4. i \in 2 .. n \/ i = 1 \/ i = 0
      BY <1>1
    <2> QED BY <2>1, <2>2, <2>3, <2>4
  <1>3. Guessed(L, n + 1) <=> n # 0 /\ p.dropped /\ Last(q.word) # "comma"
    <2>1. n + 1 \in DOMAIN L /\ n + 1 - 1 = n
      BY <1>1
    <2>2. Guessed(L, n + 1) <=> p.dropped /\ Last(L[n].word) # "comma"
      BY <1>1, <2>1 DEF Guessed
    <2>3. n # 0 => L[n] = q
      BY <1>1
    <2>4. p.dropped => n # 0
      BY <1>1
    <2> QED BY <2>2, <2>3, <2>4
  <1>4. Tractable(p) /\ (Guessed(L, n + 1) => Plain(p) /\ Plain(L[n]) /\ ~Guessed(L, n))
    <2>1. n + 1 \in DOMAIN L /\ n + 1 - 1 = n
      BY <1>1
    <2> DEFINE k == n + 1
    <2>2. k \in DOMAIN L /\ k - 1 = n /\ L[k] = p
      BY <1>1, <2>1
    <2> HIDE DEF k
    <2>3. /\ Guessed(L, k) => Plain(L[k]) /\ Plain(L[k - 1]) /\ ~Guessed(L, k - 1)
          /\ L[k].heading => L[k].broken = 0 /\ L[k].word \in Dictionary
          /\ L[k].broken # 0 /\ SubSeq(L[k].word, 1, L[k].broken) \in Dictionary => L[k].word \in Dictionary
      BY <2>2 DEF Recoverable
    <2>4. Tractable(p) /\ (Guessed(L, k) => Plain(p) /\ Plain(L[n]) /\ ~Guessed(L, n))
      BY <2>2, <2>3 DEF Tractable
    <2> QED BY <2>4 DEF k
  <1>5. Recoverable(words)
    <2>1. ASSUME NEW i \in 1 .. n
          PROVE  /\ Guessed(words, i) => Plain(words[i]) /\ Plain(words[i - 1]) /\ ~Guessed(words, i - 1)
                 /\ words[i].heading => words[i].broken = 0 /\ words[i].word \in Dictionary
                 /\ words[i].broken # 0 /\ SubSeq(words[i].word, 1, words[i].broken) \in Dictionary =>
                      words[i].word \in Dictionary
      <3>1. i \in 0 .. n /\ i - 1 \in 0 .. n /\ i \in DOMAIN L
        BY <1>1
      <3>2. (Guessed(L, i) <=> Guessed(words, i)) /\ (Guessed(L, i - 1) <=> Guessed(words, i - 1))
        BY <1>2, <3>1
      <3>3. L[i] = words[i]
        BY <1>1
      <3>4. Guessed(words, i) => L[i - 1] = words[i - 1]
        <4>1. Guessed(words, i) => i # 1
          <5>1. words # <<>>
            BY <1>1
          <5> QED BY <5>1 DEF Guessed
        <4>2. i # 1 => i - 1 \in 1 .. n
          BY <1>1
        <4> QED BY <1>1, <4>1, <4>2
      <3>5. /\ Guessed(L, i) => Plain(L[i]) /\ Plain(L[i - 1]) /\ ~Guessed(L, i - 1)
            /\ L[i].heading => L[i].broken = 0 /\ L[i].word \in Dictionary
            /\ L[i].broken # 0 /\ SubSeq(L[i].word, 1, L[i].broken) \in Dictionary => L[i].word \in Dictionary
        BY <3>1 DEF Recoverable
      <3> QED BY <3>2, <3>3, <3>4, <3>5
    <2> QED BY <1>1, <2>1 DEF Recoverable
  <1>6. n # 0 => L[n] = q /\ n \in 0 .. n
    BY <1>1
  <1>7. n # 0 /\ p.dropped /\ Last(q.word) # "comma" => Plain(p) /\ Plain(q) /\ ~Guessed(words, n)
    BY <1>2, <1>3, <1>4, <1>6
  <1> QED BY <1>1, <1>3, <1>4, <1>5, <1>7 DEF n

LEMMA WordIs ==
  ASSUME ClearVocabulary(Vocabulary), NEW p \in PrintedWords, Tractable(p)
  PROVE  Word(Glyphs(p), OnPaper(p), p.word)
  <1>1. Printed(p) /\ p.word \in Vocabulary
    BY DEF PrintedWords, Printed
  <1>2. Clear(p.word) /\ Spelled(p.word) /\ p.word \in Texts
    BY <1>1, WordsAreClear DEF Clear, Spelled
  <1>3. Read(Glyphs(p), OnPaper(p))
    BY <1>1, <1>2, WordRead
  <1>4. BreaksApart(OnPaper(p)) /\ Dehyphenate(OnPaper(p)) = p.word
    <2>1. CASE p.broken = 0
      <3>1. OnPaper(p) = p.word
        BY <2>1 DEF OnPaper
      <3> QED BY <1>2, <3>1, WholeRepaired
    <2>2. CASE p.broken # 0
      BY <1>1, <1>2, <2>2, BrokenRepaired
    <2> QED BY <2>1, <2>2
  <1> QED BY <1>2, <1>3, <1>4 DEF Word, Read

LEMMA WordEnds ==
  ASSUME ClearVocabulary(Vocabulary), NEW p \in PrintedWords
  PROVE  /\ Glyphs(p) \in Texts /\ p.word \in Texts
         /\ p.dropped => Glyphs(p) # <<>> /\ Glyphs(p)[1] \in Ligatures
         /\ Last(p.word) = "comma" => EndsInComma(Glyphs(p))
  <1>1. Printed(p) /\ p.word \in Vocabulary /\ (p.dropped => Begins(p))
    BY DEF PrintedWords, Printed
  <1>2. Clear(p.word) /\ p.word \in Texts
    BY <1>1, WordsAreClear DEF Clear, Spelled
  <1> QED BY <1>1, <1>2, GlyphsEnds DEF EndsInComma

LEMMA EndsCarry ==
  ASSUME NEW a \in Texts, NEW g \in Texts, EndsInComma(g)
  PROVE  EndsInComma(a \o g)
  <1>1. PICK t \in Texts : g = t \o <<"comma">>
    BY DEF EndsInComma
  <1> DEFINE k == <<"comma">>
  <1>2. k \in Texts
    <2>1. "comma" \in Signs
      BY SignFacts
    <2> QED BY <2>1, ShortSeqs DEF Texts
  <1>3. g = t \o k
    BY <1>1
  <1> HIDE DEF k
  <1>4. Associates(a, t, k) /\ a \o t \in Texts
    BY <1>2, Associate DEF Texts
  <1>5. a \o g = (a \o t) \o k
    BY <1>3, <1>4 DEF Associates
  <1> QED BY <1>4, <1>5 DEF EndsInComma, k

SpacedApart(u, v) == u \o (<<Space>> \o v) = Cut(u, Space, v)

LEMMA CutTwice ==
  ASSUME NEW u \in Texts, NEW v \in Texts
  PROVE  SpacedApart(u, v)
  <1> DEFINE k == <<Space>>
  <1>1. k \in Texts
    BY SpaceFacts, ShortSeqs DEF Texts
  <1>2. SpacedApart(u, v) <=> u \o (k \o v) = (u \o k) \o v
    BY DEF SpacedApart, Cut
  <1> HIDE DEF k
  <1>3. Associates(u, k, v)
    BY <1>1, Associate DEF Texts
  <1> QED BY <1>2, <1>3 DEF Associates

\* The line e, meant as m, up to the word p.
Follows(e, m, p, guessed) ==
  \E s, o : /\ Reads(e, s, o, m)
            /\ Last(p.word) = "comma" => EndsInComma(e)
            /\ ~guessed => Opens(e, s, Glyphs(p))

LEMMA FollowsFirst ==
  ASSUME ClearVocabulary(Vocabulary), NEW p \in PrintedWords, Tractable(p)
  PROVE  Follows(Glyphs(p), p.word, p, FALSE)
  <1>1. Word(Glyphs(p), OnPaper(p), p.word)
    BY WordIs
  <1>2. Reads(Glyphs(p), Glyphs(p), OnPaper(p), p.word) /\ Opens(Glyphs(p), Glyphs(p), Glyphs(p))
    BY <1>1, ReadFirst
  <1>3. Last(p.word) = "comma" => EndsInComma(Glyphs(p))
    BY WordEnds
  <1> QED BY <1>2, <1>3 DEF Follows

LEMMA FollowsSpace ==
  ASSUME ClearVocabulary(Vocabulary), NEW p \in PrintedWords, Tractable(p),
         NEW e, NEW m, NEW q, NEW guessed, Follows(e, m, q, guessed)
  PROVE  Follows(e \o (<<Space>> \o Glyphs(p)), m \o (<<Space>> \o p.word), p, FALSE)
  <1> DEFINE g == Glyphs(p)
             w == p.word
  <1>1. PICK s, o : Reads(e, s, o, m)
    BY DEF Follows
  <1>2. Word(g, OnPaper(p), w)
    BY WordIs
  <1>3. /\ g \in Texts /\ w \in Texts /\ e \in Texts /\ m \in Texts
        /\ Last(w) = "comma" => EndsInComma(g)
    BY <1>1, WordEnds DEF Reads
  <1>4. e \o (<<Space>> \o g) = Cut(e, Space, g) /\ m \o (<<Space>> \o w) = Cut(m, Space, w)
    BY <1>3, CutTwice DEF SpacedApart
  <1>5. /\ Reads(Cut(e, Space, g), Cut(s, Space, g), Cut(o, Space, OnPaper(p)), Cut(m, Space, w))
        /\ Opens(Cut(e, Space, g), Cut(s, Space, g), g)
    BY <1>1, <1>2, ReadSpaced
  <1>6. Last(w) = "comma" => EndsInComma(Cut(e, Space, g))
    <2> DEFINE k == <<Space>>
               a == e \o k
    <2>1. k \in Texts
      BY SpaceFacts, ShortSeqs DEF Texts
    <2>2. Cut(e, Space, g) = a \o g
      BY DEF Cut
    <2> HIDE DEF k
    <2>3. a \in Texts
      BY <1>3, <2>1, Associate DEF Texts
    <2> HIDE DEF a, g
    <2> QED BY <1>3, <2>2, <2>3, EndsCarry
  <1> QED BY <1>4, <1>5, <1>6 DEF Follows

LEMMA FollowsComma ==
  ASSUME ClearVocabulary(Vocabulary), NEW p \in PrintedWords, Tractable(p), p.dropped,
         NEW e, NEW m, NEW q, NEW guessed, Follows(e, m, q, guessed), Last(q.word) = "comma"
  PROVE  Follows(e \o Glyphs(p), m \o (<<Space>> \o p.word), p, FALSE)
  <1> DEFINE g == Glyphs(p)
             w == p.word
  <1>1. PICK s, o : Reads(e, s, o, m) /\ EndsInComma(e)
    BY DEF Follows
  <1>2. Word(g, OnPaper(p), w)
    BY WordIs
  <1>3. /\ g \in Texts /\ w \in Texts /\ e \in Texts /\ m \in Texts
        /\ Last(w) = "comma" => EndsInComma(g)
        /\ g # <<>> /\ g[1] \in Ligatures
    BY <1>1, WordEnds DEF Reads
  <1>4. m \o (<<Space>> \o w) = Cut(m, Space, w)
    BY <1>3, CutTwice DEF SpacedApart
  <1>5. /\ Reads(e \o g, Cut(s, Space, g), Cut(o, Space, OnPaper(p)), Cut(m, Space, w))
        /\ Opens(e \o g, Cut(s, Space, g), g)
    BY <1>1, <1>2, <1>3, ReadAfterComma
  <1>6. Last(w) = "comma" => EndsInComma(e \o g)
    BY <1>3, EndsCarry
  <1> QED BY <1>4, <1>5, <1>6 DEF Follows

LEMMA PairSpaced ==
  ASSUME NEW p, ~p.heading, NEW q, ~q.heading, NEW f, Spelled(f), NEW s, Spelled(s),
         \A i \in 1 .. Len(f) : IsLetters(f[i]), \A i \in 1 .. Len(s) : IsLetters(s[i]),
         f # <<>>, s # <<>>, f \in Dictionary, s \in Dictionary, s[1] \in {"fi", "ff"},
         ClearPair(f, s)
  PROVE  RepairLigatureSpaces(Coded(p, f) \o Coded(q, s)) = Cut(Coded(p, f), Space, Coded(q, s))
  BY PairRead, Zenon DEF Space

LEMMA FollowsGuessed ==
  ASSUME ClearVocabulary(Vocabulary), NEW p \in PrintedWords, Tractable(p), p.dropped, Plain(p),
         NEW q \in PrintedWords, Plain(q), NEW e, NEW m, Follows(e, m, q, FALSE)
  PROVE  Follows(e \o Glyphs(p), m \o (<<Space>> \o p.word), p, TRUE)
  <1> DEFINE g == Glyphs(p)
             w == p.word
             h == Glyphs(q)
             f == q.word
  <1>1. PICK s, o : Reads(e, s, o, m) /\ Opens(e, s, h)
    BY DEF Follows
  <1>2. Word(g, OnPaper(p), w)
    BY WordIs
  <1>3. /\ g \in Texts /\ w \in Texts /\ e \in Texts /\ m \in Texts
        /\ Last(w) = "comma" => EndsInComma(g)
        /\ h \in Texts
    BY <1>1, WordEnds DEF Reads
  <1>4. m \o (<<Space>> \o w) = Cut(m, Space, w)
    BY <1>3, CutTwice DEF SpacedApart
  <1>5. ASSUME NEW r \in PrintedWords, Plain(r)
        PROVE  /\ ~r.heading /\ Spelled(r.word) /\ r.word # <<>> /\ r.word \in Dictionary
               /\ \A i \in 1 .. Len(r.word) : IsLetters(r.word[i])
               /\ Glyphs(r) = Coded(r, r.word)
               /\ Glyphs(r) # <<>>
               /\ r.word \in Vocabulary
    <2>1. Printed(r) /\ r.word \in Vocabulary
      BY DEF PrintedWords, Printed
    <2>2. Clear(r.word)
      BY <2>1, WordsAreClear
    <2>3. ~r.heading /\ r.word \in Dictionary /\ r.broken = 0
      BY <1>5 DEF Plain
    <2>4. Spelled(r.word) /\ Len(r.word) \in Nat \ {0} /\ \A i \in 1 .. Len(r.word) : IsLetters(r.word[i])
      BY <2>2, <2>3 DEF Clear
    <2>5. Glyphs(r) = Coded(r, r.word)
      BY <2>3, <2>4, GlyphsWhole
    <2>6. IsCoded(Coded(r, r.word), r, r.word)
      BY <2>4, CodedFacts
    <2>7. Glyphs(r) \in Texts /\ Len(Glyphs(r)) # 0
      BY <2>4, <2>5, <2>6 DEF IsCoded
    <2>8. Glyphs(r) # <<>> /\ r.word # <<>>
      BY <2>4, <2>7, EmptySeq
    <2> QED BY <2>1, <2>3, <2>4, <2>5, <2>8
  <1>6. w[1] \in {"fi", "ff"}
    <2>1. Begins(p)
      BY DEF PrintedWords, Printed
    <2> QED BY <2>1 DEF Begins
  <1>7. /\ ~p.heading /\ Spelled(w) /\ w # <<>> /\ w \in Dictionary
        /\ \A i \in 1 .. Len(w) : IsLetters(w[i])
        /\ g = Coded(p, w) /\ w \in Vocabulary
    BY <1>5
  <1>8. /\ ~q.heading /\ Spelled(f) /\ f # <<>> /\ f \in Dictionary
        /\ \A i \in 1 .. Len(f) : IsLetters(f[i])
        /\ h = Coded(q, f) /\ h # <<>> /\ f \in Vocabulary
    BY <1>5
  <1>9. ClearPair(f, w)
    BY <1>6, <1>7, <1>8 DEF ClearVocabulary
  <1> HIDE DEF g, h, w, f
  <1>10. RepairLigatureSpaces(h \o g) = Cut(h, Space, g)
    BY <1>6, <1>7, <1>8, <1>9, PairSpaced
  <1>11. Reads(e \o g, Cut(s, Space, g), Cut(o, Space, OnPaper(p)), Cut(m, Space, w))
    BY <1>1, <1>2, <1>3, <1>8, <1>10, ReadGuessed
  <1>12. Last(w) = "comma" => EndsInComma(e \o g)
    BY <1>3, EndsCarry
  <1> QED BY <1>4, <1>11, <1>12 DEF Follows, g, w

LineRead(l) == Follows(Extracted(l), Meant(l), l[Len(l)], Guessed(l, Len(l)))

\* A line that was recoverable and read stays so with another word.
LEMMA LineGrows ==
  ASSUME ClearVocabulary(Vocabulary), NEW l \in Seq(PrintedWords), NEW p \in PrintedWords,
         l = <<>> => ~p.dropped, l # <<>> => ~l[1].dropped,
         l # <<>> /\ Recoverable(l) => LineRead(l),
         NEW L, L = Append(l, p), Recoverable(L)
  PROVE  LineRead(L)
  <1> DEFINE q == l[Len(l)]
             e == Extracted(l)
             m == Meant(l)
  <1>1. /\ Recoverable(l) /\ Tractable(p)
        /\ Guessed(L, Len(L)) <=> l # <<>> /\ p.dropped /\ Last(q.word) # "comma"
        /\ l # <<>> /\ p.dropped /\ Last(q.word) # "comma" =>
             Plain(p) /\ Plain(q) /\ ~Guessed(l, Len(l))
    BY RecoverableStep
  <1>2. L[Len(L)] = p /\ Len(l) \in Nat /\ (l # <<>> => q \in PrintedWords)
    <2>1. /\ Len(l) \in Nat /\ Len(L) = Len(l) + 1 /\ L[Len(l) + 1] = p
          /\ \A i \in 1 .. Len(l) : l[i] \in PrintedWords
          /\ l = <<>> <=> Len(l) = 0
      BY AppendFacts
    <2>2. l # <<>> => Len(l) \in 1 .. Len(l)
      BY <2>1
    <2> QED BY <2>1, <2>2
  <1>3. /\ Extracted(L) = e \o (IF l = <<>> \/ p.dropped THEN Glyphs(p) ELSE <<Space>> \o Glyphs(p))
        /\ Meant(L) = m \o (IF l = <<>> THEN p.word ELSE <<Space>> \o p.word)
        /\ l = <<>> => e = <<>> /\ m = <<>>
    BY ExtractedAppend, MeantAppend, NothingPrinted
  <1>4. Glyphs(p) \in Texts /\ p.word \in Texts
    BY WordEnds
  <1> HIDE DEF e, m, q
  <1>5. CASE l = <<>>
    <2>1. Extracted(L) = Glyphs(p) /\ Meant(L) = p.word
      BY <1>3, <1>4, <1>5, ConcatEmptySeq DEF Texts
    <2>2. ~Guessed(L, Len(L))
      BY <1>1, <1>5
    <2>3. Follows(Glyphs(p), p.word, p, FALSE)
      BY <1>1, FollowsFirst
    <2> QED BY <1>2, <2>1, <2>2, <2>3 DEF LineRead, Follows
  <1>6. CASE l # <<>>
    <2>1. Follows(e, m, q, Guessed(l, Len(l))) /\ q \in PrintedWords
      BY <1>1, <1>2, <1>6 DEF LineRead, e, m, q
    <2>2. Meant(L) = m \o (<<Space>> \o p.word)
      BY <1>3, <1>6
    <2>3. CASE ~p.dropped
      <3>1. Extracted(L) = e \o (<<Space>> \o Glyphs(p))
        BY <1>3, <1>6, <2>3
      <3>2. Follows(e \o (<<Space>> \o Glyphs(p)), m \o (<<Space>> \o p.word), p, FALSE)
        BY <1>1, <2>1, FollowsSpace
      <3>3. ~Guessed(L, Len(L))
        BY <1>1, <2>3
      <3> QED BY <1>2, <2>2, <3>1, <3>2, <3>3 DEF LineRead, Follows
    <2>4. CASE p.dropped /\ Last(q.word) = "comma"
      <3>1. Extracted(L) = e \o Glyphs(p)
        BY <1>3, <2>4
      <3>2. Follows(e \o Glyphs(p), m \o (<<Space>> \o p.word), p, FALSE)
        BY <1>1, <2>1, <2>4, FollowsComma
      <3>3. ~Guessed(L, Len(L))
        BY <1>1, <2>4
      <3> QED BY <1>2, <2>2, <3>1, <3>2, <3>3 DEF LineRead, Follows
    <2>5. CASE p.dropped /\ Last(q.word) # "comma"
      <3>1. Extracted(L) = e \o Glyphs(p)
        BY <1>3, <2>5
      <3>2. Plain(p) /\ Plain(q) /\ ~Guessed(l, Len(l))
        BY <1>1, <1>6, <2>5
      <3>3. Follows(e, m, q, FALSE)
        BY <2>1, <3>2 DEF Follows
      <3>4. Follows(e \o Glyphs(p), m \o (<<Space>> \o p.word), p, TRUE)
        BY <1>1, <2>1, <2>5, <3>2, <3>3, FollowsGuessed
      <3>5. Guessed(L, Len(L))
        BY <1>1, <1>6, <2>5
      <3> QED BY <1>2, <2>2, <3>1, <3>4, <3>5 DEF LineRead, Follows
    <2> QED BY <2>3, <2>4, <2>5
  <1> QED BY <1>5, <1>6

\* A line that can be recovered has been, word by word.
LineInv ==
  /\ line \in Seq(PrintedWords)
  /\ line # <<>> => ~line[1].dropped
  /\ line # <<>> /\ Recoverable(line) => LineRead(line)

LEMMA LineInvStep ==
  ASSUME ClearVocabulary(Vocabulary), LineInv, [Next]_vars
  PROVE  LineInv'
  <1>1. CASE PrintWord
    <2>1. PICK p \in [word : Vocabulary, dropped : BOOLEAN, broken : 0 .. 3, heading : BOOLEAN] :
            /\ p.dropped => line # <<>> /\ Begins(p)
            /\ p.heading => Contains(p.word, "fi")
            /\ p.broken < Len(p.word)
            /\ p.broken # 0 => p.word[p.broken + 1] \notin {"hyphen", "comma"}
            /\ line' = Append(line, p)
      BY <1>1 DEF PrintWord
    <2>2. p \in PrintedWords
      <3>1. p.word \in Vocabulary /\ p.broken \in Nat
        OBVIOUS
      <3> QED BY <2>1, <3>1 DEF PrintedWords, Printed
    <2>3. line = <<>> => ~p.dropped
      BY <2>1
    <2>4. /\ line' \in Seq(PrintedWords)
          /\ line' # <<>> => ~line'[1].dropped
      <3>1. /\ Len(line) \in Nat /\ Len(line') = Len(line) + 1
            /\ line' \in Seq(PrintedWords)
            /\ \A i \in 1 .. Len(line) : line'[i] = line[i]
            /\ line'[Len(line) + 1] = p
            /\ line = <<>> <=> Len(line) = 0
        BY <2>1, <2>2, AppendFacts DEF LineInv
      <3>2. CASE line = <<>>
        BY <2>3, <3>1, <3>2
      <3>3. CASE line # <<>>
        <4>1. 1 \in 1 .. Len(line)
          BY <3>1, <3>3
        <4> QED BY <3>1, <3>3, <4>1 DEF LineInv
      <3> QED BY <3>2, <3>3, <3>1
    <2>5. Recoverable(line') => LineRead(line')
      BY <2>1, <2>2, <2>3, LineGrows DEF LineInv
    <2> QED BY <2>4, <2>5 DEF LineInv
  <1>2. CASE UNCHANGED line
    BY <1>2 DEF LineInv
  <1> QED BY <1>1, <1>2 DEF Next, ShowOp, AddUnit, vars

LEMMA LineInvRestores ==
  ASSUME ClearVocabulary(Vocabulary), LineInv
  PROVE  Restored
  <1>1. SUFFICES ASSUME Recoverable(line) PROVE NormalizeLigatures(Extracted(line)) = Meant(line)
    BY DEF Restored, WordsRestored
  <1>2. CASE line = <<>>
    <2> DEFINE z == <<>>
    <2>1. z \in Texts /\ Len(z) = 0 /\ Spelled(z)
      BY EmptySeq DEF Texts, Spelled
    <2>2. Extracted(line) = z /\ Meant(line) = z
      BY <1>2, NothingPrinted
    <2> HIDE DEF z
    <2>3. RepairLigatureSpaces(z) = z
      BY <2>1, NoSpaceMissing
    <2>4. ExpandLigatures(z) = z
      <3>1. ExpandLigatures(z) \in Texts /\ Len(ExpandLigatures(z)) = 0
        BY <2>1, ExpandFacts
      <3> QED BY <2>1, <3>1, EmptySeq DEF Texts
    <2>5. Dehyphenate(z) = z
      BY <2>1, WholeRepaired
    <2> QED BY <2>2, <2>3, <2>4, <2>5 DEF NormalizeLigatures
  <1>3. CASE line # <<>>
    <2>1. Follows(Extracted(line), Meant(line), line[Len(line)], Guessed(line, Len(line)))
      BY <1>1, <1>3 DEF LineInv, LineRead
    <2>2. PICK s, o : Reads(Extracted(line), s, o, Meant(line))
      BY <2>1 DEF Follows
    <2> QED BY <2>2 DEF Reads, NormalizeLigatures
  <1> QED BY <1>2, <1>3

(* Whatever words a line prints, in whichever font, over however many lines *)
(* and with whichever of the spaces before a ligature lost, what is indexed *)
(* is what was meant, as long as the dictionary can tell (Recoverable): the *)
(* spaces are restored while the codepoints still mark where words began    *)
(* (text_normalization.py:192-266), the ligatures read, and the broken      *)
(* words joined last (130-162, 269-298).  It asks of the vocabulary that no *)
(* word of it is misleading by itself, or in a pair (ClearVocabulary).      *)
THEOREM LinesAreRestored ==
  ASSUME ClearVocabulary(Vocabulary)
  PROVE  Spec => []Restored
  <1>1. Init => LineInv
    BY EmptySeq DEF Init, LineInv
  <1>2. LineInv /\ [Next]_vars => LineInv'
    BY LineInvStep
  <1>3. LineInv => Restored
    BY LineInvRestores
  <1> QED BY <1>1, <1>2, <1>3, PTL DEF Spec
=============================================================================
