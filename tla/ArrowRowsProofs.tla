-------------------------- MODULE ArrowRowsProofs --------------------------
(***************************************************************************)
(* The rows made of a table, for any schema, values, sizes of slices and   *)
(* batches.  The schema is a tree of fields, so the proofs go through its  *)
(* levels, upwards for what Visit adds and downwards for what Arrow holds. *)
(***************************************************************************)
EXTENDS ArrowRows, SequenceTheorems, FiniteSetTheorems, WellFoundedInduction, TLAPS

-----------------------------------------------------------------------------
(* Induction.                                                              *)

\* Induction over the rounds of a loop, on a set of rounds.
LEMMA Rounds ==
    ASSUME NEW N \in Nat, NEW S, 0 \in S, \A n \in 1..N : n - 1 \in S => n \in S
    PROVE  \A n \in 0..N : n \in S
<1> DEFINE T == (0..N) \ S
           R == OpToRel(<, Nat)
<1> SUFFICES ASSUME T # {} PROVE FALSE
    OBVIOUS
<1> HIDE DEF R
<1>1. IsWellFoundedOn(R, Nat)
    BY NatLessThanWellFounded DEF R
<1>2. T \subseteq Nat
    OBVIOUS
<1>3. PICK x \in T : \A y \in T : ~ (<<y, x>> \in R)
    <2> HIDE DEF T
    <2> QED
        BY <1>1, <1>2, WFMin
<1>4. ASSUME NEW y \in T PROVE ~(y < x)
    <2>1. y \in Nat /\ x \in Nat /\ <<y, x>> \notin R
        BY <1>3
    <2> QED
        BY <2>1 DEF OpToRel, R
<1>5. x \in 1..N /\ x \notin S
    BY <1>3
<1>6. x - 1 \in 0..N /\ x - 1 < x
    BY <1>5
<1>7. x - 1 \in S
    BY <1>4, <1>6
<1> QED
    BY <1>5, <1>7

-----------------------------------------------------------------------------
(* Sequences in a row.                                                     *)

\* flat has the first sequences of ss in a row.
IsFlat(flat, ss) ==
    /\ DOMAIN flat = 0..Len(ss)
    /\ flat[0] = <<>>
    /\ \A k \in 1..Len(ss) : flat[k] = flat[k - 1] \o ss[k]

LEMMA FlattenRounds ==
    ASSUME NEW V, NEW ss \in Seq(Seq(V))
    PROVE  \E flat : IsFlat(flat, ss) /\ flat[Len(ss)] = FlattenSeq(ss)
<1> DEFINE N == Len(ss)
           Is(f, m) == f = [i \in 1..m |-> IF i = 1 THEN ss[i] ELSE f[i - 1] \o ss[i]]
           Reached(m) == \E f : Is(f, m)
           result == CHOOSE f : Is(f, N)
<1>1. N \in Nat /\ \A k \in 1..N : ss[k] \in Seq(V)
    BY LenProperties, ElementOfSeq
<1>2. Reached(0)
    <2> DEFINE g == [i \in 1..0 |-> <<>>]
    <2>1. Is(g, 0)
        OBVIOUS
    <2> HIDE DEF g, Is
    <2> QED
        BY <2>1
<1>3. ASSUME NEW m \in 1..N, Reached(m - 1) PROVE Reached(m)
    <2> HIDE DEF Is
    <2>1. PICK f : Is(f, m - 1)
        BY <1>3
    <2> DEFINE g == [i \in 1..m |-> IF i = 1 THEN ss[i] ELSE f[i - 1] \o ss[i]]
    <2>2. ASSUME NEW i \in 1..m, i # 1 PROVE g[i - 1] = f[i - 1]
        <3>1. i - 1 \in 1..m - 1 /\ i - 1 \in 1..m
            BY <2>2
        <3>2. f = [j \in 1..m - 1 |-> IF j = 1 THEN ss[j] ELSE f[j - 1] \o ss[j]]
            BY <2>1 DEF Is
        <3>3. f[i - 1] = IF i - 1 = 1 THEN ss[i - 1] ELSE f[i - 1 - 1] \o ss[i - 1]
            BY <3>1, <3>2
        <3> QED
            BY <3>1, <3>3
    <2>3. \A i \in 1..m : g[i] = IF i = 1 THEN ss[i] ELSE g[i - 1] \o ss[i]
        BY <2>2
    <2>4. g = [i \in 1..m |-> g[i]]
        OBVIOUS
    <2> HIDE DEF g
    <2>5. Is(g, m)
        BY <2>3, <2>4 DEF Is
    <2> QED
        BY <2>5
<1>4. Reached(N)
    <2> DEFINE S == {m \in 0..N : Reached(m)}
    <2> HIDE DEF Reached
    <2>1. 0 \in S
        BY <1>1, <1>2
    <2>2. ASSUME NEW m \in 1..N, m - 1 \in S PROVE m \in S
        BY <1>1, <1>3, <2>2
    <2> HIDE DEF S
    <2>3. \A m \in 0..N : m \in S
        BY <1>1, <2>1, <2>2, Rounds
    <2>4. N \in S
        BY <1>1, <2>3
    <2> QED
        BY <2>4 DEF S
<1>5. Is(result, N)
    <2> HIDE DEF Is
    <2> QED
        BY <1>4
<1>6. \A i \in 1..N : result[i] = IF i = 1 THEN ss[i] ELSE result[i - 1] \o ss[i]
    BY <1>5
<1>7. N # 0 => FlattenSeq(ss) = result[N]
    BY DEF FlattenSeq
<1> HIDE DEF result, Is
<1> DEFINE flat == [k \in 0..N |-> IF k = 0 THEN <<>> ELSE result[k]]
<1>8. \A k \in 1..N : flat[k] = flat[k - 1] \o ss[k]
    <2> TAKE k \in 1..N
    <2>1. CASE k = 1
        <3>1. flat[k] = ss[k] /\ flat[k - 1] = <<>>
            BY <1>1, <1>6, <2>1
        <3>2. <<>> \o ss[k] = ss[k]
            BY <1>1, ConcatEmptySeq
        <3> QED
            BY <3>1, <3>2
    <2>2. CASE k # 1
        <3>1. k - 1 \in 0..N /\ k - 1 # 0 /\ k \in 0..N /\ k # 0
            BY <1>1, <2>2
        <3> QED
            BY <1>6, <2>2, <3>1
    <2> QED
        BY <2>1, <2>2
<1>9. flat[N] = FlattenSeq(ss)
    <2>1. CASE N = 0
        <3>1. ss = <<>>
            BY <2>1, EmptySeq
        <3> QED
            BY <2>1, <3>1 DEF FlattenSeq
    <2>2. CASE N # 0
        BY <1>1, <1>7, <2>2
    <2> QED
        BY <2>1, <2>2
<1>10. IsFlat(flat, ss)
    <2>1. DOMAIN flat = 0..N /\ flat[0] = <<>>
        BY <1>1
    <2> HIDE DEF flat
    <2> QED
        BY <1>8, <2>1 DEF IsFlat
<1> HIDE DEF flat
<1> QED
    BY <1>9, <1>10

\* c is a and then b.
Joins(c, a, b) ==
    /\ Len(c) = Len(a) + Len(b)
    /\ Len(a) \in Nat /\ Len(b) \in Nat
    /\ \A i \in 1..Len(a) : i \in 1..Len(c) /\ c[i] = a[i]
    /\ \A j \in 1..Len(b) :
        Len(a) + j \in 1..Len(c) /\ c[Len(a) + j] = b[j]

LEMMA ConcatPlaces ==
    ASSUME NEW V, NEW a \in Seq(V), NEW b \in Seq(V)
    PROVE  a \o b \in Seq(V) /\ Joins(a \o b, a, b)
<1> DEFINE c == a \o b
<1>1. /\ c \in Seq(V) /\ Len(c) = Len(a) + Len(b)
      /\ \A i \in 1..Len(a) + Len(b) :
            c[i] = IF i <= Len(a) THEN a[i] ELSE b[i - Len(a)]
    BY ConcatProperties
<1>2. Len(a) \in Nat /\ Len(b) \in Nat
    BY LenProperties
<1>3. \A i \in 1..Len(a) : i \in 1..Len(c) /\ c[i] = a[i]
    BY <1>1, <1>2
<1>4. ASSUME NEW j \in 1..Len(b)
      PROVE  Len(a) + j \in 1..Len(c) /\ c[Len(a) + j] = b[j]
    <2>1. /\ Len(a) + j \in 1..Len(a) + Len(b)
          /\ ~(Len(a) + j <= Len(a)) /\ Len(a) + j - Len(a) = j
        BY <1>2
    <2> QED
        BY <1>1, <2>1
<1> QED
    BY <1>1, <1>2, <1>3, <1>4 DEF Joins

\* Where each sequence of ss begins in the row: off[k - 1] entries are before the kth.
IsOffsets(off, ss) ==
    /\ off \in [0..Len(ss) -> Nat]
    /\ off[0] = 0
    /\ \A k \in 1..Len(ss) : off[k] = off[k - 1] + Len(ss[k])

\* flat is the sequences of ss in a row, at these offsets.
LiesAt(flat, ss, off, n) ==
    /\ Len(flat) = off[n]
    /\ \A k \in 1..n : \A j \in 1..Len(ss[k]) :
        off[k - 1] + j \in 1..off[n] /\ flat[off[k - 1] + j] = ss[k][j]

\* FlattenSeq puts each sequence at its offset.
LEMMA FlattenOffsets ==
    ASSUME NEW V, NEW ss \in Seq(Seq(V))
    PROVE  /\ FlattenSeq(ss) \in Seq(V)
           /\ \E off : IsOffsets(off, ss) /\ LiesAt(FlattenSeq(ss), ss, off, Len(ss))
<1> DEFINE N == Len(ss)
<1>1. N \in Nat /\ \A k \in 1..N : ss[k] \in Seq(V) /\ Len(ss[k]) \in Nat
    BY LenProperties, ElementOfSeq
<1>2. PICK flat : IsFlat(flat, ss) /\ flat[N] = FlattenSeq(ss)
    BY FlattenRounds
<1> HIDE DEF N
<1>3. /\ DOMAIN flat = 0..N /\ flat[0] = <<>>
      /\ \A k \in 1..N : flat[k] = flat[k - 1] \o ss[k]
    BY <1>2 DEF IsFlat, N
<1> DEFINE off == [k \in 0..N |-> Len(flat[k])]
           S == {n \in 0..N : flat[n] \in Seq(V) /\ LiesAt(flat[n], ss, off, n)}
<1>4. off[0] = 0 /\ flat[0] \in Seq(V)
    <2>1. <<>> \in Seq(V) /\ Len(<<>>) = 0
        BY EmptySeq
    <2> QED
        BY <1>1, <1>3, <2>1
<1>5. 0 \in S
    <2>1. LiesAt(flat[0], ss, off, 0)
        BY <1>1, <1>3, <1>4 DEF LiesAt
    <2> QED
        BY <1>1, <1>4, <2>1
<1>6. ASSUME NEW n \in 1..N, n - 1 \in S PROVE n \in S /\ off[n] = off[n - 1] + Len(ss[n])
    <2>1. n \in 0..N /\ n - 1 \in 0..N /\ n - 1 \in Nat /\ n \in Nat
        BY <1>1
    <2>2. flat[n - 1] \in Seq(V) /\ LiesAt(flat[n - 1], ss, off, n - 1)
        BY <1>6
    <2>3. flat[n] = flat[n - 1] \o ss[n] /\ ss[n] \in Seq(V)
        BY <1>1, <1>3
    <2>4. flat[n] \in Seq(V) /\ Joins(flat[n], flat[n - 1], ss[n])
        <3>1. flat[n - 1] \in Seq(V)
            BY <2>2
        <3>2. /\ flat[n - 1] \o ss[n] \in Seq(V)
              /\ Joins(flat[n - 1] \o ss[n], flat[n - 1], ss[n])
            BY <2>3, <3>1, ConcatPlaces
        <3> QED
            BY <2>3, <3>2
    <2>5. off[n] = Len(flat[n]) /\ off[n - 1] = Len(flat[n - 1])
        BY <2>1
    <2> HIDE DEF off
    <2>6. /\ \A i \in 1..off[n - 1] : i \in 1..off[n] /\ flat[n][i] = flat[n - 1][i]
          /\ \A j \in 1..Len(ss[n]) :
                off[n - 1] + j \in 1..off[n] /\ flat[n][off[n - 1] + j] = ss[n][j]
        BY <2>4, <2>5 DEF Joins
    <2>7. ASSUME NEW k \in 1..n, NEW j \in 1..Len(ss[k])
          PROVE  off[k - 1] + j \in 1..off[n] /\ flat[n][off[k - 1] + j] = ss[k][j]
        <3>1. CASE k = n
            BY <2>6, <3>1
        <3>2. CASE k # n
            <4>1. k \in 1..n - 1
                BY <2>1, <3>2
            <4>2. off[k - 1] + j \in 1..off[n - 1] /\ flat[n - 1][off[k - 1] + j] = ss[k][j]
                BY <2>2, <4>1 DEF LiesAt
            <4> DEFINE i == off[k - 1] + j
            <4> HIDE DEF i
            <4>3. i \in 1..off[n] /\ flat[n][i] = flat[n - 1][i]
                BY <2>6, <4>2 DEF i
            <4> QED
                BY <4>2, <4>3 DEF i
        <3> QED
            BY <3>1, <3>2
    <2>8. LiesAt(flat[n], ss, off, n)
        BY <2>5, <2>7 DEF LiesAt
    <2> QED
        BY <2>1, <2>4, <2>5, <2>8 DEF Joins
<1> HIDE DEF off
<1>7. \A n \in 0..N : n \in S
    <2> HIDE DEF S
    <2> QED
        BY <1>1, <1>5, <1>6, Rounds
<1>8. IsOffsets(off, ss)
    <2>1. off \in [0..N -> Nat]
        <3>1. \A n \in 0..N : flat[n] \in Seq(V)
            BY <1>7
        <3>2. \A n \in 0..N : Len(flat[n]) \in Nat
            BY <3>1, LenProperties
        <3> QED
            BY <3>2 DEF off
    <2>2. \A k \in 1..N : off[k] = off[k - 1] + Len(ss[k])
        <3> TAKE k \in 1..N
        <3>1. k - 1 \in 0..N
            BY <1>1
        <3>2. k - 1 \in S
            BY <1>7, <3>1
        <3> HIDE DEF S
        <3> QED
            BY <1>6, <3>2
    <2> QED
        BY <1>4, <2>1, <2>2 DEF IsOffsets, N
<1>9. flat[N] \in Seq(V) /\ LiesAt(flat[N], ss, off, N)
    BY <1>1, <1>7
<1> QED
    BY <1>2, <1>8, <1>9 DEF N

SameLengths(ss, tt, n) == \A k \in 1..n : Len(ss[k]) = Len(tt[k])

\* Offsets depend on nothing but lengths, and not on what follows.
LEMMA OffsetsAgree ==
    ASSUME NEW ss, NEW tt, NEW p, NEW q, IsOffsets(p, ss), IsOffsets(q, tt),
           NEW N \in Nat, N <= Len(ss), N <= Len(tt), Len(ss) \in Nat, Len(tt) \in Nat,
           SameLengths(ss, tt, N)
    PROVE  \A k \in 0..N : p[k] = q[k]
<1> DEFINE S == {n \in 0..N : p[n] = q[n]}
<1>1. 0 \in S
    BY DEF IsOffsets
<1>2. ASSUME NEW n \in 1..N, n - 1 \in S PROVE n \in S
    <2>1. n \in 0..N /\ n \in 1..Len(ss) /\ n \in 1..Len(tt)
        OBVIOUS
    <2>2. p[n - 1] = q[n - 1] /\ Len(ss[n]) = Len(tt[n])
        BY <1>2 DEF SameLengths
    <2> QED
        BY <2>1, <2>2 DEF IsOffsets
<1> HIDE DEF S
<1>3. \A n \in 0..N : n \in S
    BY <1>1, <1>2, Rounds
<1> QED
    BY <1>3 DEF S

HaveLengths(ss) == Len(ss) \in Nat /\ \A k \in 1..Len(ss) : Len(ss[k]) \in Nat

\* Every place in the first sequences of the row is in one of these.
LEMMA OffsetsFind ==
    ASSUME NEW ss, NEW off, IsOffsets(off, ss), HaveLengths(ss)
    PROVE  \A n \in 0..Len(ss) : \A i \in 1..off[n] :
                \E k \in 1..n : \E j \in 1..Len(ss[k]) : i = off[k - 1] + j
<1> USE DEF HaveLengths
<1> DEFINE N == Len(ss)
           Found(i, n) == \E k \in 1..n : \E j \in 1..Len(ss[k]) : i = off[k - 1] + j
           S == {n \in 0..N : \A i \in 1..off[n] : Found(i, n)}
<1>1. 0 \in S
    BY DEF IsOffsets
<1>2. ASSUME NEW n \in 1..N, n - 1 \in S PROVE n \in S
    <2>1. n \in 0..N /\ n - 1 \in 0..N /\ off[n] = off[n - 1] + Len(ss[n])
        BY DEF IsOffsets
    <2>2. off[n - 1] \in Nat /\ off[n] \in Nat /\ Len(ss[n]) \in Nat
        BY <2>1 DEF IsOffsets
    <2>3. ASSUME NEW i \in 1..off[n] PROVE Found(i, n)
        <3>1. CASE i <= off[n - 1]
            <4>1. i \in 1..off[n - 1]
                BY <2>2, <3>1
            <4>2. Found(i, n - 1)
                BY <1>2, <4>1
            <4>3. 1..n - 1 \subseteq 1..n
                BY <2>1
            <4> QED
                BY <4>2, <4>3
        <3>2. CASE ~(i <= off[n - 1])
            <4>1. i - off[n - 1] \in 1..Len(ss[n]) /\ i = off[n - 1] + (i - off[n - 1])
                BY <2>1, <2>2, <3>2
            <4>2. n \in 1..n
                BY <2>1
            <4> QED
                BY <4>1, <4>2
        <3> QED
            BY <3>1, <3>2
    <2> HIDE DEF Found
    <2> QED
        BY <2>1, <2>3
<1>3. \A n \in 0..N : n \in S
    <2> HIDE DEF S
    <2> QED
        BY <1>1, <1>2, Rounds
<1> QED
    BY <1>3

-----------------------------------------------------------------------------
(* The tree of fields.                                                     *)

\* Each field is deeper than its parent.
IsDepth(d) ==
    /\ d \in [Field -> 0..MaxDepth]
    /\ \A f \in Field : Parent[f] # NoField => d[Parent[f]] < d[f]

LEMMA FieldFacts ==
    /\ MaxDepth \in Nat /\ \E d : IsDepth(d)
    /\ \A f \in Field : Parent[f] # NoField => Parent[f] \in Field
    /\ \A f \in Field : \A g \in Children(f) : g \in Field /\ Parent[g] = f /\ f # NoField
    /\ \A c \in Columns : c \in Field /\ Parent[c] = NoField
    /\ \A f \in Field : Kind[f] \in {"primitive", "list", "struct"}
    /\ \A f \in Field : Kind[f] = "primitive" => Children(f) = {}
    /\ \A f \in Field : Kind[f] = "list" => Children(f) = {Item(f)}
<1>1. MaxDepth \in Nat /\ \E d : IsDepth(d)
    BY NestingAssumption DEF IsDepth
<1>2. \A f \in Field : Parent[f] # NoField => Parent[f] \in Field
    BY SchemaAssumption
<1>3. \A f \in Field : \A g \in Children(f) : g \in Field /\ Parent[g] = f /\ f # NoField
    BY SchemaAssumption DEF Children
<1>4. \A c \in Columns : c \in Field /\ Parent[c] = NoField
    BY DEF Columns, Children
<1>5. \A f \in Field : Kind[f] \in {"primitive", "list", "struct"}
    BY SchemaAssumption
<1>6. \A f \in Field : Kind[f] = "primitive" => Children(f) = {}
    BY SchemaAssumption
<1>7. ASSUME NEW f \in Field, Kind[f] = "list" PROVE Children(f) = {Item(f)}
    <2>1. PICK g \in Field : Children(f) = {g}
        BY <1>7, SchemaAssumption
    <2>2. Item(f) = CHOOSE h \in {g} : TRUE
        BY <2>1 DEF Item
    <2>3. Item(f) = g
        BY <2>2
    <2> QED
        BY <2>1, <2>3
<1> QED
    BY <1>1, <1>2, <1>3, <1>4, <1>5, <1>6, <1>7

\* What holds of a field when it holds of its parent holds of all fields.
LEMMA Downwards ==
    ASSUME NEW S, \A f \in Field : (Parent[f] # NoField => Parent[f] \in S) => f \in S
    PROVE  \A f \in Field : f \in S
<1>1. PICK d : IsDepth(d)
    BY FieldFacts
<1> DEFINE T == {n \in 0..MaxDepth + 1 : \A f \in Field : d[f] < n => f \in S}
<1>2. MaxDepth + 1 \in Nat /\ \A f \in Field : d[f] \in 0..MaxDepth /\ d[f] \in Nat
    BY <1>1, FieldFacts DEF IsDepth
<1>3. 0 \in T
    BY <1>2
<1>4. ASSUME NEW n \in 1..MaxDepth + 1, n - 1 \in T PROVE n \in T
    <2>1. ASSUME NEW f \in Field, d[f] < n PROVE f \in S
        <3>1. ASSUME Parent[f] # NoField PROVE Parent[f] \in S
            <4>1. Parent[f] \in Field /\ d[Parent[f]] < d[f]
                BY <1>1, <3>1, FieldFacts DEF IsDepth
            <4>2. d[Parent[f]] < n - 1
                BY <1>2, <2>1, <4>1
            <4> QED
                BY <1>4, <4>1, <4>2
        <3> QED
            BY <3>1
    <2>2. n \in 0..MaxDepth + 1
        BY <1>2
    <2> QED
        BY <2>1, <2>2
<1>5. MaxDepth + 1 \in T
    <2> HIDE DEF T
    <2>1. \A n \in 0..MaxDepth + 1 : n \in T
        BY <1>2, <1>3, <1>4, Rounds
    <2> QED
        BY <1>2, <2>1
<1>6. \A f \in Field : d[f] < MaxDepth + 1
    BY <1>2, FieldFacts
<1> QED
    BY <1>5, <1>6

\* What holds of a field when it holds of all that is nested in it holds of all
\* fields.
LEMMA Upwards ==
    ASSUME NEW S, \A f \in Field : (\A g \in Children(f) : g \in S) => f \in S
    PROVE  \A f \in Field : f \in S
<1>1. PICK d : IsDepth(d)
    BY FieldFacts
<1> DEFINE T == {n \in 0..MaxDepth + 1 : \A f \in Field : MaxDepth < d[f] + n => f \in S}
<1>2. MaxDepth \in Nat /\ \A f \in Field : d[f] \in 0..MaxDepth /\ d[f] \in Nat
    BY <1>1, FieldFacts DEF IsDepth
<1>3. 0 \in T
    BY <1>2
<1>4. ASSUME NEW n \in 1..MaxDepth + 1, n - 1 \in T PROVE n \in T
    <2>1. ASSUME NEW f \in Field, MaxDepth < d[f] + n PROVE f \in S
        <3>1. ASSUME NEW g \in Children(f) PROVE g \in S
            <4>1. g \in Field /\ d[f] < d[g]
                BY <1>1, FieldFacts DEF IsDepth
            <4>2. MaxDepth < d[g] + (n - 1)
                BY <1>2, <2>1, <4>1
            <4> QED
                BY <1>4, <4>1, <4>2
        <3> QED
            BY <3>1
    <2>2. n \in 0..MaxDepth + 1
        BY <1>2
    <2> QED
        BY <2>1, <2>2
<1>5. MaxDepth + 1 \in T
    <2> HIDE DEF T
    <2>1. \A n \in 0..MaxDepth + 1 : n \in T
        BY <1>2, <1>3, <1>4, Rounds
    <2> QED
        BY <1>2, <2>1
<1>6. \A f \in Field : MaxDepth < d[f] + (MaxDepth + 1)
    BY <1>2
<1> QED
    BY <1>5, <1>6

-----------------------------------------------------------------------------
(* The recursive functions of the model satisfy their equations.  Each is   *)
(* built level by level, from the columns down or from the innermost fields *)
(* up.                                                                      *)

LEMMA ArraysRecursion ==
    ASSUME NEW batch
    PROVE  \A f \in Field : Arrays(batch)[f] =
            IF Parent[f] = NoField THEN [i \in DOMAIN batch |-> batch[i][f]]
            ELSE Nested(f, Arrays(batch)[Parent[f]])
<1> DEFINE Top(f) == [i \in DOMAIN batch |-> batch[i][f]]
           Body(array, f) == IF Parent[f] = NoField THEN Top(f)
                             ELSE Nested(f, array[Parent[f]])
           Is(array) == array = [f \in Field |-> Body(array, f)]
           result == CHOOSE array : Is(array)
<1>1. Arrays(batch) = result
    BY DEF Arrays
<1>2. PICK d : IsDepth(d)
    BY FieldFacts
<1>3. MaxDepth + 1 \in Nat /\ \A f \in Field : d[f] \in 0..MaxDepth /\ d[f] \in Nat
    BY <1>2, FieldFacts DEF IsDepth
<1> DEFINE Level(array, n) == \A f \in Field : d[f] < n => array[f] = Body(array, f)
           T == {n \in 0..MaxDepth + 1 : \E array : Level(array, n)}
<1> HIDE DEF Top
<1>4. 0 \in T
    BY <1>3
<1>5. ASSUME NEW n \in 1..MaxDepth + 1, n - 1 \in T PROVE n \in T
    <2>1. PICK a : Level(a, n - 1)
        BY <1>5
    <2> DEFINE b == [f \in Field |-> IF d[f] < n - 1 THEN a[f] ELSE Body(a, f)]
    <2>2. ASSUME NEW f \in Field, d[f] < n PROVE b[f] = Body(b, f)
        <3>1. b[f] = Body(a, f)
            BY <2>1
        <3>2. ASSUME Parent[f] # NoField PROVE b[Parent[f]] = a[Parent[f]]
            <4>1. Parent[f] \in Field /\ d[Parent[f]] < d[f]
                BY <1>2, <3>2, FieldFacts DEF IsDepth
            <4>2. d[Parent[f]] < n - 1
                BY <1>3, <2>2, <4>1
            <4> QED
                BY <4>1, <4>2
        <3> HIDE DEF b
        <3> QED
            BY <3>1, <3>2
    <2> HIDE DEF b, Body
    <2>3. Level(b, n)
        BY <2>2
    <2>4. n \in 0..MaxDepth + 1
        BY <1>3
    <2> HIDE DEF Level
    <2> QED
        BY <2>3, <2>4
<1>6. \E array : Level(array, MaxDepth + 1)
    <2> HIDE DEF T
    <2>1. \A n \in 0..MaxDepth + 1 : n \in T
        BY <1>3, <1>4, <1>5, Rounds
    <2>2. MaxDepth + 1 \in T
        BY <1>3, <2>1
    <2> QED
        BY <2>2 DEF T
<1>7. \E array : Is(array)
    <2>1. PICK a : Level(a, MaxDepth + 1)
        BY <1>6
    <2> DEFINE b == [f \in Field |-> a[f]]
    <2>2. ASSUME NEW f \in Field PROVE b[f] = Body(b, f)
        <3>1. d[f] < MaxDepth + 1
            BY <1>3, FieldFacts
        <3>2. b[f] = Body(a, f)
            BY <2>1, <3>1
        <3>3. Parent[f] # NoField => b[Parent[f]] = a[Parent[f]]
            BY FieldFacts
        <3> HIDE DEF b
        <3> QED
            BY <3>2, <3>3
    <2>3. b = [f \in Field |-> b[f]]
        OBVIOUS
    <2> HIDE DEF b, Body
    <2>4. Is(b)
        BY <2>2, <2>3
    <2> QED
        BY <2>4
<1>8. Is(result)
    <2> HIDE DEF Is
    <2> QED
        BY <1>7
<1>9. \A f \in Field : result[f] = Body(result, f)
    <2> HIDE DEF result, Body
    <2> QED
        BY <1>8
<1> HIDE DEF result
<1> QED
    BY <1>1, <1>9 DEF Top

LEMMA InListRecursion ==
    \A f \in Field : InList[f] =
        (Parent[f] # NoField /\ (Kind[Parent[f]] = "list" \/ InList[Parent[f]]))
<1> DEFINE Body(inList, f) ==
            Parent[f] # NoField /\ (Kind[Parent[f]] = "list" \/ inList[Parent[f]])
           Is(inList) == inList = [f \in Field |-> Body(inList, f)]
           result == CHOOSE inList : Is(inList)
<1>1. InList = result
    BY DEF InList
<1>2. PICK d : IsDepth(d)
    BY FieldFacts
<1>3. MaxDepth + 1 \in Nat /\ \A f \in Field : d[f] \in 0..MaxDepth /\ d[f] \in Nat
    BY <1>2, FieldFacts DEF IsDepth
<1> DEFINE Level(inList, n) == \A f \in Field : d[f] < n => inList[f] = Body(inList, f)
           T == {n \in 0..MaxDepth + 1 : \E inList : Level(inList, n)}
<1>4. 0 \in T
    BY <1>3
<1>5. ASSUME NEW n \in 1..MaxDepth + 1, n - 1 \in T PROVE n \in T
    <2>1. PICK a : Level(a, n - 1)
        BY <1>5
    <2> DEFINE b == [f \in Field |-> IF d[f] < n - 1 THEN a[f] ELSE Body(a, f)]
    <2>2. ASSUME NEW f \in Field, d[f] < n PROVE b[f] = Body(b, f)
        <3>1. b[f] = Body(a, f)
            BY <2>1
        <3>2. ASSUME Parent[f] # NoField PROVE b[Parent[f]] = a[Parent[f]]
            <4>1. Parent[f] \in Field /\ d[Parent[f]] < d[f]
                BY <1>2, <3>2, FieldFacts DEF IsDepth
            <4>2. d[Parent[f]] < n - 1
                BY <1>3, <2>2, <4>1
            <4> QED
                BY <4>1, <4>2
        <3> HIDE DEF b
        <3> QED
            BY <3>1, <3>2
    <2> HIDE DEF b, Body
    <2>3. Level(b, n)
        BY <2>2
    <2>4. n \in 0..MaxDepth + 1
        BY <1>3
    <2> HIDE DEF Level
    <2> QED
        BY <2>3, <2>4
<1>6. \E inList : Level(inList, MaxDepth + 1)
    <2> HIDE DEF T
    <2>1. \A n \in 0..MaxDepth + 1 : n \in T
        BY <1>3, <1>4, <1>5, Rounds
    <2>2. MaxDepth + 1 \in T
        BY <1>3, <2>1
    <2> QED
        BY <2>2 DEF T
<1>7. \E inList : Is(inList)
    <2>1. PICK a : Level(a, MaxDepth + 1)
        BY <1>6
    <2> DEFINE b == [f \in Field |-> a[f]]
    <2>2. ASSUME NEW f \in Field PROVE b[f] = Body(b, f)
        <3>1. d[f] < MaxDepth + 1
            BY <1>3, FieldFacts
        <3>2. b[f] = Body(a, f)
            BY <2>1, <3>1
        <3>3. Parent[f] # NoField => b[Parent[f]] = a[Parent[f]]
            BY FieldFacts
        <3> HIDE DEF b
        <3> QED
            BY <3>2, <3>3
    <2>3. b = [f \in Field |-> b[f]]
        OBVIOUS
    <2> HIDE DEF b, Body
    <2>4. Is(b)
        BY <2>2, <2>3
    <2> QED
        BY <2>4
<1>8. Is(result)
    <2> HIDE DEF Is
    <2> QED
        BY <1>7
<1>9. \A f \in Field : result[f] = Body(result, f)
    <2> HIDE DEF result, Body
    <2> QED
        BY <1>8
<1> HIDE DEF result
<1> QED
    BY <1>1, <1>9

\* The fields that are not nested in a list.
Outside == {f \in Field : ~InList[f]}

LEMMA OutsideFacts ==
    /\ Outside \subseteq Field
    /\ \A f \in Outside : Parent[f] # NoField =>
        Parent[f] \in Outside /\ Kind[Parent[f]] # "list"
<1>1. Outside \subseteq Field
    BY DEF Outside
<1>2. ASSUME NEW f \in Outside, Parent[f] # NoField
      PROVE  Parent[f] \in Outside /\ Kind[Parent[f]] # "list"
    BY <1>2, InListRecursion, FieldFacts DEF Outside
<1> QED
    BY <1>1, <1>2

LEMMA ShownRecursion ==
    ASSUME NEW row
    PROVE  \A f \in Outside : Shown(row)[f] =
            MembersOf(IF Parent[f] = NoField THEN {row} ELSE Shown(row)[Parent[f]], f)
<1> DEFINE Body(shown, f) ==
            MembersOf(IF Parent[f] = NoField THEN {row} ELSE shown[Parent[f]], f)
           Is(shown) == shown = [f \in Outside |-> Body(shown, f)]
           result == CHOOSE shown : Is(shown)
<1>1. Shown(row) = result
    BY DEF Shown, Outside
<1>2. PICK d : IsDepth(d)
    BY FieldFacts
<1>3. MaxDepth + 1 \in Nat /\ \A f \in Outside : d[f] \in 0..MaxDepth /\ d[f] \in Nat
    BY <1>2, FieldFacts, OutsideFacts DEF IsDepth
<1> DEFINE Level(shown, n) == \A f \in Outside : d[f] < n => shown[f] = Body(shown, f)
           T == {n \in 0..MaxDepth + 1 : \E shown : Level(shown, n)}
<1>4. 0 \in T
    BY <1>3
<1>5. ASSUME NEW n \in 1..MaxDepth + 1, n - 1 \in T PROVE n \in T
    <2>1. PICK a : Level(a, n - 1)
        BY <1>5
    <2> DEFINE b == [f \in Outside |-> IF d[f] < n - 1 THEN a[f] ELSE Body(a, f)]
    <2>2. ASSUME NEW f \in Outside, d[f] < n PROVE b[f] = Body(b, f)
        <3>1. b[f] = Body(a, f)
            BY <2>1
        <3>2. ASSUME Parent[f] # NoField PROVE b[Parent[f]] = a[Parent[f]]
            <4>1. Parent[f] \in Outside /\ d[Parent[f]] < d[f]
                BY <1>2, <3>2, FieldFacts, OutsideFacts DEF IsDepth
            <4>2. d[Parent[f]] < n - 1
                BY <1>3, <2>2, <4>1
            <4> QED
                BY <4>1, <4>2
        <3> HIDE DEF b
        <3> QED
            BY <3>1, <3>2
    <2> HIDE DEF b, Body
    <2>3. Level(b, n)
        BY <2>2
    <2>4. n \in 0..MaxDepth + 1
        BY <1>3
    <2> HIDE DEF Level
    <2> QED
        BY <2>3, <2>4
<1>6. \E shown : Level(shown, MaxDepth + 1)
    <2> HIDE DEF T
    <2>1. \A n \in 0..MaxDepth + 1 : n \in T
        BY <1>3, <1>4, <1>5, Rounds
    <2>2. MaxDepth + 1 \in T
        BY <1>3, <2>1
    <2> QED
        BY <2>2 DEF T
<1>7. \E shown : Is(shown)
    <2>1. PICK a : Level(a, MaxDepth + 1)
        BY <1>6
    <2> DEFINE b == [f \in Outside |-> a[f]]
    <2>2. ASSUME NEW f \in Outside PROVE b[f] = Body(b, f)
        <3>1. d[f] < MaxDepth + 1
            BY <1>3, FieldFacts, OutsideFacts
        <3>2. b[f] = Body(a, f)
            BY <2>1, <3>1
        <3>3. Parent[f] # NoField => b[Parent[f]] = a[Parent[f]]
            BY OutsideFacts
        <3> HIDE DEF b
        <3> QED
            BY <3>2, <3>3
    <2>3. b = [f \in Outside |-> b[f]]
        OBVIOUS
    <2> HIDE DEF b, Body
    <2>4. Is(b)
        BY <2>2, <2>3
    <2> QED
        BY <2>4
<1>8. Is(result)
    <2> HIDE DEF Is
    <2> QED
        BY <1>7
<1>9. \A f \in Outside : result[f] = Body(result, f)
    <2> HIDE DEF result, Body
    <2> QED
        BY <1>8
<1> HIDE DEF result
<1> QED
    BY <1>1, <1>9

\* What is added to a row depends on the members of nested fields only.
LEMMA MemberAgrees ==
    ASSUME NEW f \in Field, NEW arrays, NEW p, NEW q, \A g \in Children(f) : p[g] = q[g],
           NEW i
    PROVE  Member(f, arrays, p, i) = Member(f, arrays, q, i)
<1>1. CASE Kind[f] = "primitive"
    BY <1>1 DEF Member
<1>2. CASE Kind[f] = "list"
    <2>1. p[Item(f)] = q[Item(f)]
        BY <1>2, FieldFacts
    <2>2. List(f, arrays, p, i) = List(f, arrays, q, i)
        BY <2>1 DEF List
    <2> QED
        BY <1>2, <2>2 DEF Member
<1>3. CASE Kind[f] = "struct"
    <2>1. Object(Children(f), arrays, p, i) = Object(Children(f), arrays, q, i)
        BY DEF Object
    <2> QED
        BY <1>3, <2>1 DEF Member
<1> QED
    BY <1>1, <1>2, <1>3, FieldFacts

LEMMA MeaningAgrees ==
    ASSUME NEW f \in Field, NEW p, NEW q, \A g \in Children(f) : p[g] = q[g], NEW v
    PROVE  MeaningOf(f, p, v) = MeaningOf(f, q, v)
<1>1. CASE Kind[f] = "primitive"
    BY <1>1 DEF MeaningOf
<1>2. CASE Kind[f] = "list"
    <2>1. p[Item(f)] = q[Item(f)]
        BY <1>2, FieldFacts
    <2>2. ListMeaning(f, p, v) = ListMeaning(f, q, v)
        BY <2>1 DEF ListMeaning
    <2> QED
        BY <1>2, <2>2 DEF MeaningOf
<1>3. CASE Kind[f] = "struct"
    <2>1. ObjectMeaning(Children(f), p, v) = ObjectMeaning(Children(f), q, v)
        BY DEF ObjectMeaning
    <2> QED
        BY <1>3, <2>1 DEF MeaningOf
<1> QED
    BY <1>1, <1>2, <1>3, FieldFacts

LEMMA VisitRecursion ==
    ASSUME NEW arrays
    PROVE  \A f \in Field : Visit(arrays)[f] =
            [i \in {k \in DOMAIN arrays[f] : ~IsNull(arrays[f][k])} |->
                Member(f, arrays, Visit(arrays), i)]
<1> DEFINE Filled(f) == {k \in DOMAIN arrays[f] : ~IsNull(arrays[f][k])}
           Body(members, f) == [i \in Filled(f) |-> Member(f, arrays, members, i)]
           Is(members) == members = [f \in Field |-> Body(members, f)]
           result == CHOOSE members : Is(members)
<1>1. Visit(arrays) = result
    BY DEF Visit
<1>2. PICK d : IsDepth(d)
    BY FieldFacts
<1>3. MaxDepth + 1 \in Nat /\ \A f \in Field : d[f] \in 0..MaxDepth /\ d[f] \in Nat
    BY <1>2, FieldFacts DEF IsDepth
<1>4. ASSUME NEW f \in Field, NEW p, NEW q, \A g \in Children(f) : p[g] = q[g]
      PROVE  Body(p, f) = Body(q, f)
    <2> HIDE DEF Filled
    <2>1. \A i : Member(f, arrays, p, i) = Member(f, arrays, q, i)
        BY <1>4, MemberAgrees
    <2> QED
        BY <2>1
<1> DEFINE Level(members, n) ==
                \A f \in Field : MaxDepth < d[f] + n => members[f] = Body(members, f)
           T == {n \in 0..MaxDepth + 1 : \E members : Level(members, n)}
<1> HIDE DEF Body
<1>5. 0 \in T
    <2>1. \A members : Level(members, 0)
        BY <1>3, FieldFacts
    <2> QED
        BY <1>3, <2>1
<1>6. ASSUME NEW n \in 1..MaxDepth + 1, n - 1 \in T PROVE n \in T
    <2>1. PICK a : Level(a, n - 1)
        BY <1>6
    <2> DEFINE b == [f \in Field |->
                        IF MaxDepth < d[f] + (n - 1) THEN a[f] ELSE Body(a, f)]
    <2>2. ASSUME NEW f \in Field, MaxDepth < d[f] + n PROVE b[f] = Body(b, f)
        <3>1. b[f] = Body(a, f)
            BY <2>1
        <3>2. ASSUME NEW g \in Children(f) PROVE b[g] = a[g]
            <4>1. g \in Field /\ d[f] < d[g]
                BY <1>2, <3>2, FieldFacts DEF IsDepth
            <4>2. MaxDepth < d[g] + (n - 1)
                BY <1>3, <2>2, <4>1, FieldFacts
            <4> QED
                BY <4>1, <4>2
        <3> HIDE DEF b
        <3> QED
            BY <1>4, <3>1, <3>2
    <2> HIDE DEF b
    <2>3. Level(b, n)
        BY <2>2
    <2>4. n \in 0..MaxDepth + 1
        BY <1>3
    <2> HIDE DEF Level
    <2> QED
        BY <2>3, <2>4
<1>7. \E members : Level(members, MaxDepth + 1)
    <2> HIDE DEF T
    <2>1. \A n \in 0..MaxDepth + 1 : n \in T
        BY <1>3, <1>5, <1>6, Rounds
    <2>2. MaxDepth + 1 \in T
        BY <1>3, <2>1
    <2> QED
        BY <2>2 DEF T
<1>8. \E members : Is(members)
    <2>1. PICK a : Level(a, MaxDepth + 1)
        BY <1>7
    <2> DEFINE b == [f \in Field |-> a[f]]
    <2>2. ASSUME NEW f \in Field PROVE b[f] = Body(b, f)
        <3>1. MaxDepth < d[f] + (MaxDepth + 1)
            BY <1>3, FieldFacts
        <3>2. b[f] = Body(a, f)
            BY <2>1, <3>1
        <3>3. \A g \in Children(f) : b[g] = a[g]
            BY FieldFacts
        <3> HIDE DEF b
        <3> QED
            BY <1>4, <3>2, <3>3
    <2>3. b = [f \in Field |-> b[f]]
        OBVIOUS
    <2> HIDE DEF b
    <2>4. Is(b)
        BY <2>2, <2>3
    <2> QED
        BY <2>4
<1>9. Is(result)
    <2> HIDE DEF Is
    <2> QED
        BY <1>8
<1>10. \A f \in Field : result[f] = Body(result, f)
    <2> HIDE DEF result
    <2> QED
        BY <1>9
<1> HIDE DEF result
<1> QED
    BY <1>1, <1>10 DEF Body, Filled

LEMMA MeaningRecursion ==
    \A f \in Field : Meaning[f] = [v \in Value[f] |-> MeaningOf(f, Meaning, v)]
<1> DEFINE Body(meaning, f) == [v \in Value[f] |-> MeaningOf(f, meaning, v)]
           Is(meaning) == meaning = [f \in Field |-> Body(meaning, f)]
           result == CHOOSE meaning : Is(meaning)
<1>1. Meaning = result
    BY DEF Meaning
<1>2. PICK d : IsDepth(d)
    BY FieldFacts
<1>3. MaxDepth + 1 \in Nat /\ \A f \in Field : d[f] \in 0..MaxDepth /\ d[f] \in Nat
    BY <1>2, FieldFacts DEF IsDepth
<1>4. ASSUME NEW f \in Field, NEW p, NEW q, \A g \in Children(f) : p[g] = q[g]
      PROVE  Body(p, f) = Body(q, f)
    <2>1. \A v : MeaningOf(f, p, v) = MeaningOf(f, q, v)
        BY <1>4, MeaningAgrees
    <2> QED
        BY <2>1
<1> DEFINE Level(meaning, n) ==
                \A f \in Field : MaxDepth < d[f] + n => meaning[f] = Body(meaning, f)
           T == {n \in 0..MaxDepth + 1 : \E meaning : Level(meaning, n)}
<1> HIDE DEF Body
<1>5. 0 \in T
    <2>1. \A meaning : Level(meaning, 0)
        BY <1>3, FieldFacts
    <2> QED
        BY <1>3, <2>1
<1>6. ASSUME NEW n \in 1..MaxDepth + 1, n - 1 \in T PROVE n \in T
    <2>1. PICK a : Level(a, n - 1)
        BY <1>6
    <2> DEFINE b == [f \in Field |->
                        IF MaxDepth < d[f] + (n - 1) THEN a[f] ELSE Body(a, f)]
    <2>2. ASSUME NEW f \in Field, MaxDepth < d[f] + n PROVE b[f] = Body(b, f)
        <3>1. b[f] = Body(a, f)
            BY <2>1
        <3>2. ASSUME NEW g \in Children(f) PROVE b[g] = a[g]
            <4>1. g \in Field /\ d[f] < d[g]
                BY <1>2, <3>2, FieldFacts DEF IsDepth
            <4>2. MaxDepth < d[g] + (n - 1)
                BY <1>3, <2>2, <4>1, FieldFacts
            <4> QED
                BY <4>1, <4>2
        <3> HIDE DEF b
        <3> QED
            BY <1>4, <3>1, <3>2
    <2> HIDE DEF b
    <2>3. Level(b, n)
        BY <2>2
    <2>4. n \in 0..MaxDepth + 1
        BY <1>3
    <2> HIDE DEF Level
    <2> QED
        BY <2>3, <2>4
<1>7. \E meaning : Level(meaning, MaxDepth + 1)
    <2> HIDE DEF T
    <2>1. \A n \in 0..MaxDepth + 1 : n \in T
        BY <1>3, <1>5, <1>6, Rounds
    <2>2. MaxDepth + 1 \in T
        BY <1>3, <2>1
    <2> QED
        BY <2>2 DEF T
<1>8. \E meaning : Is(meaning)
    <2>1. PICK a : Level(a, MaxDepth + 1)
        BY <1>7
    <2> DEFINE b == [f \in Field |-> a[f]]
    <2>2. ASSUME NEW f \in Field PROVE b[f] = Body(b, f)
        <3>1. MaxDepth < d[f] + (MaxDepth + 1)
            BY <1>3, FieldFacts
        <3>2. b[f] = Body(a, f)
            BY <2>1, <3>1
        <3>3. \A g \in Children(f) : b[g] = a[g]
            BY FieldFacts
        <3> HIDE DEF b
        <3> QED
            BY <1>4, <3>2, <3>3
    <2>3. b = [f \in Field |-> b[f]]
        OBVIOUS
    <2> HIDE DEF b
    <2>4. Is(b)
        BY <2>2, <2>3
    <2> QED
        BY <2>4
<1>9. Is(result)
    <2> HIDE DEF Is
    <2> QED
        BY <1>8
<1>10. \A f \in Field : result[f] = Body(result, f)
    <2> HIDE DEF result
    <2> QED
        BY <1>9
<1> HIDE DEF result
<1> QED
    BY <1>1, <1>10 DEF Body

LEMMA TightAgrees ==
    ASSUME NEW f \in Field, NEW p, NEW q, \A g \in Children(f) : p[g] = q[g], NEW e
    PROVE  TightEntry(f, p, e) <=> TightEntry(f, q, e)
<1>1. Kind[f] = "list" => p[Item(f)] = q[Item(f)]
    BY FieldFacts
<1> QED
    BY <1>1 DEF TightEntry

LEMMA TightRecursion ==
    \A f \in Field : Tight[f] = {e \in Entry(f) : TightEntry(f, Tight, e)}
<1> DEFINE Body(tight, f) == {e \in Entry(f) : TightEntry(f, tight, e)}
           Is(tight) == tight = [f \in Field |-> Body(tight, f)]
           result == CHOOSE tight : Is(tight)
<1>1. Tight = result
    BY DEF Tight
<1>2. PICK d : IsDepth(d)
    BY FieldFacts
<1>3. MaxDepth + 1 \in Nat /\ \A f \in Field : d[f] \in 0..MaxDepth /\ d[f] \in Nat
    BY <1>2, FieldFacts DEF IsDepth
<1>4. ASSUME NEW f \in Field, NEW p, NEW q, \A g \in Children(f) : p[g] = q[g]
      PROVE  Body(p, f) = Body(q, f)
    <2>1. \A e : TightEntry(f, p, e) <=> TightEntry(f, q, e)
        BY <1>4, TightAgrees
    <2> QED
        BY <2>1
<1> DEFINE Level(tight, n) ==
                \A f \in Field : MaxDepth < d[f] + n => tight[f] = Body(tight, f)
           T == {n \in 0..MaxDepth + 1 : \E tight : Level(tight, n)}
<1> HIDE DEF Body
<1>5. 0 \in T
    <2>1. \A tight : Level(tight, 0)
        BY <1>3, FieldFacts
    <2> QED
        BY <1>3, <2>1
<1>6. ASSUME NEW n \in 1..MaxDepth + 1, n - 1 \in T PROVE n \in T
    <2>1. PICK a : Level(a, n - 1)
        BY <1>6
    <2> DEFINE b == [f \in Field |->
                        IF MaxDepth < d[f] + (n - 1) THEN a[f] ELSE Body(a, f)]
    <2>2. ASSUME NEW f \in Field, MaxDepth < d[f] + n PROVE b[f] = Body(b, f)
        <3>1. b[f] = Body(a, f)
            BY <2>1
        <3>2. ASSUME NEW g \in Children(f) PROVE b[g] = a[g]
            <4>1. g \in Field /\ d[f] < d[g]
                BY <1>2, <3>2, FieldFacts DEF IsDepth
            <4>2. MaxDepth < d[g] + (n - 1)
                BY <1>3, <2>2, <4>1, FieldFacts
            <4> QED
                BY <4>1, <4>2
        <3> HIDE DEF b
        <3> QED
            BY <1>4, <3>1, <3>2
    <2> HIDE DEF b
    <2>3. Level(b, n)
        BY <2>2
    <2>4. n \in 0..MaxDepth + 1
        BY <1>3
    <2> HIDE DEF Level
    <2> QED
        BY <2>3, <2>4
<1>7. \E tight : Level(tight, MaxDepth + 1)
    <2> HIDE DEF T
    <2>1. \A n \in 0..MaxDepth + 1 : n \in T
        BY <1>3, <1>5, <1>6, Rounds
    <2>2. MaxDepth + 1 \in T
        BY <1>3, <2>1
    <2> QED
        BY <2>2 DEF T
<1>8. \E tight : Is(tight)
    <2>1. PICK a : Level(a, MaxDepth + 1)
        BY <1>7
    <2> DEFINE b == [f \in Field |-> a[f]]
    <2>2. ASSUME NEW f \in Field PROVE b[f] = Body(b, f)
        <3>1. MaxDepth < d[f] + (MaxDepth + 1)
            BY <1>3, FieldFacts
        <3>2. b[f] = Body(a, f)
            BY <2>1, <3>1
        <3>3. \A g \in Children(f) : b[g] = a[g]
            BY FieldFacts
        <3> HIDE DEF b
        <3> QED
            BY <1>4, <3>2, <3>3
    <2>3. b = [f \in Field |-> b[f]]
        OBVIOUS
    <2> HIDE DEF b
    <2>4. Is(b)
        BY <2>2, <2>3
    <2> QED
        BY <2>4
<1>9. Is(result)
    <2> HIDE DEF Is
    <2> QED
        BY <1>8
<1>10. \A f \in Field : result[f] = Body(result, f)
    <2> HIDE DEF result
    <2> QED
        BY <1>9
<1> HIDE DEF result
<1> QED
    BY <1>1, <1>10 DEF Body

-----------------------------------------------------------------------------
(* Arrays.                                                                 *)

AreLists(L, V) == \A l \in L : l.value \in Seq(V)

\* What each of the first n lists gives to the row of their items, and what the
\* loop over them passes.
Held(lists, n) == [k \in 1..n |-> lists[k].value]

Passed(lists, n) == [k \in 1..n |-> IF IsNull(lists[k]) THEN <<>> ELSE lists[k].value]

LEMMA HeldType ==
    ASSUME NEW V, NEW L, NEW lists \in Seq(L), AreLists(L, V), NEW n \in 0..Len(lists)
    PROVE  /\ Held(lists, n) \in Seq(Seq(V)) /\ Len(Held(lists, n)) = n
           /\ Passed(lists, n) \in Seq(Seq(V)) /\ Len(Passed(lists, n)) = n
<1> DEFINE W == Seq(V)
           At(k) == IF IsNull(lists[k]) THEN <<>> ELSE lists[k].value
<1>1. n \in Nat /\ \A k \in 1..n : lists[k] \in L
    BY LenProperties, ElementOfSeq
<1>2. <<>> \in W
    BY EmptySeq
<1>3. \A k \in 1..n : lists[k].value \in W /\ At(k) \in W
    BY <1>1, <1>2 DEF AreLists
<1>4. Passed(lists, n) = [k \in 1..n |-> At(k)]
    BY DEF Passed
<1> HIDE DEF W, At
<1>5. Held(lists, n) \in Seq(W) /\ Len(Held(lists, n)) = n
    BY <1>1, <1>3 DEF Held
<1>6. Passed(lists, n) \in Seq(W) /\ Len(Passed(lists, n)) = n
    BY <1>1, <1>3, <1>4
<1> QED
    BY <1>5, <1>6 DEF W

LEMMA ItemsHeld ==
    ASSUME NEW V, NEW L, NEW lists \in Seq(L), AreLists(L, V)
    PROVE  /\ Items(lists) = FlattenSeq(Held(lists, Len(lists)))
           /\ Items(lists) \in Seq(V)
<1>1. Len(lists) \in Nat /\ DOMAIN lists = 1..Len(lists)
    BY LenProperties
<1>2. Items(lists) = FlattenSeq(Held(lists, Len(lists)))
    BY <1>1 DEF Items, Held
<1>3. Held(lists, Len(lists)) \in Seq(Seq(V))
    BY <1>1, HeldType
<1>4. FlattenSeq(Held(lists, Len(lists))) \in Seq(V)
    BY <1>3, FlattenOffsets
<1> QED
    BY <1>2, <1>4

\* The loop over the lists passes all that null ones hold.
PassesAll(lists, n) == \A k \in 1..n : IsNull(lists[k]) => lists[k].value = <<>>

\* The first places of the items are of the first lists.
ComeFrom(lists, i, n) ==
    \A p \in 1..n :
        /\ p \in 1..Len(Items(lists))
        /\ \E k \in 1..i : \E h \in 1..Len(lists[k].value) :
                Items(lists)[p] = lists[k].value[h]

\* If no null list before it has items, the place that the loop has reached at a
\* list is that of its items, behind those of the lists before it.
LEMMA ItemPlace ==
    ASSUME NEW V, NEW L, NEW lists \in Seq(L), AreLists(L, V),
           NEW i \in 1..Len(lists), PassesAll(lists, i - 1), NEW j \in 1..Len(lists[i].value)
    PROVE  /\ FirstItem(lists, i) + j - 1 \in 1..Len(Items(lists))
           /\ Items(lists)[FirstItem(lists, i) + j - 1] = lists[i].value[j]
           /\ ComeFrom(lists, i, FirstItem(lists, i) + j - 1)
<1> DEFINE N == Len(lists)
           held == Held(lists, N)
           passed == Passed(lists, i - 1)
<1>1. N \in Nat /\ i \in 1..N /\ i - 1 \in 0..N /\ N \in 0..N /\ i \in 0..N
    BY LenProperties
<1>2. /\ held \in Seq(Seq(V)) /\ Len(held) = N
      /\ passed \in Seq(Seq(V)) /\ Len(passed) = i - 1
    BY <1>1, HeldType
<1>3. Items(lists) = FlattenSeq(held)
    BY ItemsHeld
<1>4. FirstItem(lists, i) = Len(FlattenSeq(passed)) + 1
    BY DEF FirstItem, Passed
<1>5. \A k \in 1..N : held[k] = lists[k].value /\ Len(held[k]) \in Nat
    <2>1. \A k \in 1..N : held[k] = lists[k].value
        BY DEF Held
    <2>2. \A k \in 1..N : lists[k].value \in Seq(V)
        BY ElementOfSeq DEF AreLists
    <2>3. \A k \in 1..N : Len(lists[k].value) \in Nat
        BY <2>2, LenProperties
    <2> QED
        BY <2>1, <2>3
<1>6. \A k \in 1..i - 1 : passed[k] = lists[k].value
    BY DEF Passed, PassesAll
<1> HIDE DEF held, passed, N
<1>7. PICK off : IsOffsets(off, held) /\ LiesAt(FlattenSeq(held), held, off, Len(held))
    BY <1>2, FlattenOffsets
<1>8. PICK ahead :
        IsOffsets(ahead, passed) /\ LiesAt(FlattenSeq(passed), passed, ahead, Len(passed))
    BY <1>2, FlattenOffsets
<1>9. ahead[i - 1] = off[i - 1]
    <2>1. SameLengths(passed, held, i - 1)
        BY <1>1, <1>5, <1>6 DEF SameLengths
    <2>2. /\ i - 1 \in Nat /\ i - 1 <= Len(passed) /\ i - 1 <= Len(held)
          /\ Len(passed) \in Nat /\ Len(held) \in Nat
        BY <1>1, <1>2
    <2>3. \A k \in 0..i - 1 : ahead[k] = off[k]
        BY <1>7, <1>8, <2>1, <2>2, OffsetsAgree
    <2> QED
        BY <1>1, <2>3
<1>10. Len(FlattenSeq(passed)) = off[i - 1]
    BY <1>2, <1>8, <1>9 DEF LiesAt
<1>11. /\ off[i - 1] \in Nat /\ off[i] \in Nat /\ off[i] = off[i - 1] + Len(held[i])
    BY <1>1, <1>2, <1>7 DEF IsOffsets
<1>12. FirstItem(lists, i) + j - 1 = off[i - 1] + j /\ off[i - 1] + j <= off[i]
    <2>1. FirstItem(lists, i) = off[i - 1] + 1
        BY <1>4, <1>10
    <2>2. lists[i].value = held[i] /\ Len(held[i]) \in Nat
        BY <1>1, <1>5
    <2>3. j \in Int /\ j <= Len(held[i])
        BY <2>2
    <2> QED
        BY <1>11, <2>1, <2>2, <2>3
<1>13. \A k \in 1..N : \A h \in 1..Len(lists[k].value) :
            /\ off[k - 1] + h \in 1..Len(Items(lists))
            /\ Items(lists)[off[k - 1] + h] = lists[k].value[h]
    BY <1>2, <1>3, <1>5, <1>7 DEF LiesAt
<1>14. ASSUME NEW p \in 1..off[i - 1] + j
       PROVE  /\ p \in 1..Len(Items(lists))
              /\ \E k \in 1..i : \E h \in 1..Len(lists[k].value) :
                    Items(lists)[p] = lists[k].value[h]
    <2>1. p \in 1..off[i]
        BY <1>11, <1>12
    <2>2. HaveLengths(held)
        BY <1>1, <1>2, <1>5 DEF HaveLengths
    <2>3. PICK k \in 1..i : \E h \in 1..Len(held[k]) : p = off[k - 1] + h
        <3>1. \A n \in 0..Len(held) : \A q \in 1..off[n] :
                \E k \in 1..n : \E h \in 1..Len(held[k]) : q = off[k - 1] + h
            BY <1>7, <2>2, OffsetsFind
        <3>2. i \in 0..Len(held)
            BY <1>1, <1>2
        <3> QED
            BY <2>1, <3>1, <3>2
    <2>4. k \in 1..N
        BY <1>1
    <2>5. PICK h \in 1..Len(lists[k].value) : p = off[k - 1] + h
        BY <1>5, <2>3, <2>4
    <2> QED
        BY <1>13, <2>4, <2>5
<1>15. /\ off[i - 1] + j \in 1..Len(Items(lists))
       /\ Items(lists)[off[i - 1] + j] = lists[i].value[j]
    BY <1>1, <1>13
<1>16. ComeFrom(lists, i, off[i - 1] + j)
    BY <1>14 DEF ComeFrom
<1> QED
    BY <1>12, <1>15, <1>16

\* The values of the entries of a field.
LEMMA EntryValues ==
    /\ \A f \in Field : \A e \in Entry(f) : e.value \in Value[f]
    /\ \A f \in Field : Kind[f] = "list" =>
        \A g \in Children(f) : AreLists(Entry(f), Entry(g))
    /\ \A f \in Field : Kind[f] = "struct" =>
        \A g \in Children(f) : \A e \in Entry(f) : e.value[g] \in Entry(g)
<1>1. \A f \in Field : \A e \in Entry(f) : e.value \in Value[f]
    BY DEF Entry
<1> QED
    BY <1>1, ValueAssumption DEF AreLists

\* The array of each field is one of its entries, and has an entry for each row
\* unless the field is nested in a list.
LEMMA ArraysType ==
    ASSUME NEW batch \in Seq(Row)
    PROVE  /\ \A f \in Field : Arrays(batch)[f] \in Seq(Entry(f))
           /\ \A f \in Outside : Len(Arrays(batch)[f]) = Len(batch)
<1> DEFINE A == Arrays(batch)
           Typed(f) == A[f] \in Seq(Entry(f)) /\ (f \in Outside => Len(A[f]) = Len(batch))
           S == {f \in Field : Typed(f)}
<1>1. ASSUME NEW f \in Field, Parent[f] = NoField PROVE Typed(f)
    <2> DEFINE N == Len(batch)
               At(i) == batch[i][f]
               V == Entry(f)
    <2>1. N \in Nat /\ DOMAIN batch = 1..N /\ \A i \in 1..N : batch[i] \in Row
        BY LenProperties, ElementOfSeq
    <2>2. f \in Columns
        BY <1>1 DEF Columns, Children
    <2>3. \A i \in 1..N : At(i) \in V
        BY <2>1, <2>2, RowAssumption
    <2>4. A[f] = [i \in 1..N |-> At(i)]
        BY <1>1, <2>1, ArraysRecursion
    <2> HIDE DEF N, At, V, A
    <2>5. [i \in 1..N |-> At(i)] \in Seq(V) /\ Len([i \in 1..N |-> At(i)]) = N
        BY <2>1, <2>3
    <2> QED
        BY <2>4, <2>5 DEF N, V
<1>2. ASSUME NEW f \in Field, Parent[f] # NoField, Parent[f] \in S PROVE Typed(f)
    <2> DEFINE P == Parent[f]
               a == A[P]
    <2>1. /\ P \in Field /\ a \in Seq(Entry(P)) /\ (P \in Outside => Len(a) = Len(batch))
          /\ f \in Children(P) /\ A[f] = Nested(f, a)
        BY <1>2, ArraysRecursion, FieldFacts DEF Children
    <2> HIDE DEF A, a
    <2>2. CASE Kind[P] = "list"
        <3>1. AreLists(Entry(P), Entry(f))
            BY <2>1, <2>2, EntryValues
        <3>2. A[f] = Items(a)
            BY <2>1, <2>2 DEF Nested
        <3>3. f \notin Outside
            BY <1>2, <2>2, OutsideFacts
        <3>4. Items(a) \in Seq(Entry(f))
            BY <2>1, <3>1, ItemsHeld
        <3> QED
            BY <3>2, <3>3, <3>4
    <2>3. CASE Kind[P] # "list"
        <3>1. Kind[P] = "struct"
            BY <2>1, <2>3, FieldFacts
        <3> DEFINE N == Len(a)
                   At(i) == a[i].value[f]
                   V == Entry(f)
        <3>2. N \in Nat /\ DOMAIN a = 1..N /\ \A i \in 1..N : a[i] \in Entry(P)
            BY <2>1, LenProperties, ElementOfSeq
        <3>3. \A i \in 1..N : At(i) \in V
            BY <2>1, <3>1, <3>2, EntryValues
        <3>4. A[f] = [i \in 1..N |-> At(i)]
            BY <2>1, <2>3, <3>2 DEF Nested
        <3>5. f \in Outside => N = Len(batch)
            BY <1>2, <2>1, OutsideFacts
        <3> HIDE DEF N, At, V
        <3>6. [i \in 1..N |-> At(i)] \in Seq(V) /\ Len([i \in 1..N |-> At(i)]) = N
            BY <3>2, <3>3
        <3> QED
            BY <3>4, <3>5, <3>6 DEF V
    <2> QED
        BY <2>2, <2>3
<1>3. \A f \in Field : f \in S
    <2> HIDE DEF Typed
    <2>1. \A f \in Field : (Parent[f] # NoField => Parent[f] \in S) => f \in S
        BY <1>1, <1>2
    <2> HIDE DEF S
    <2> QED
        BY <2>1, Downwards
<1> QED
    BY <1>3, OutsideFacts

\* The entries of an array in an array of structs.
LEMMA StructEntries ==
    ASSUME NEW batch \in Seq(Row), NEW f \in Field, Kind[f] = "struct", NEW g \in Children(f)
    PROVE  /\ g \in Field /\ (g \in Outside <=> f \in Outside)
           /\ Len(Arrays(batch)[g]) = Len(Arrays(batch)[f])
           /\ \A i \in 1..Len(Arrays(batch)[f]) :
                Arrays(batch)[g][i] = Arrays(batch)[f][i].value[g]
<1> DEFINE a == Arrays(batch)[f]
<1>1. g \in Field /\ Parent[g] = f /\ f # NoField
    BY FieldFacts
<1>2. g \in Outside <=> f \in Outside
    BY <1>1, InListRecursion DEF Outside
<1>3. a \in Seq(Entry(f))
    BY ArraysType
<1> DEFINE N == Len(a)
           At(i) == a[i].value[g]
<1>4. N \in Nat /\ DOMAIN a = 1..N
    BY <1>3, LenProperties
<1>5. Arrays(batch)[g] = [i \in 1..N |-> At(i)]
    <2>1. Arrays(batch)[g] = Nested(g, a)
        BY <1>1, ArraysRecursion
    <2>2. Kind[f] # "list"
        OBVIOUS
    <2> HIDE DEF a
    <2> QED
        BY <1>1, <1>4, <2>1, <2>2 DEF Nested
<1> HIDE DEF N, At
<1>6. Len([i \in 1..N |-> At(i)]) = N
    BY <1>4
<1> QED
    BY <1>1, <1>2, <1>5, <1>6 DEF N, At

-----------------------------------------------------------------------------
(* Slices.                                                                 *)

IsSlice(batch, from, to) ==
    batch \in Seq(Row) /\ from \in 1..Len(batch) /\ to \in from..Len(batch)

\* The arrays that the visitor sees.
Seen(batch, from, to) == Slice(Arrays(batch), from, to)

\* A slice has the entries in its bounds, but all of them in lists.
LEMMA SliceEntries ==
    ASSUME NEW batch, NEW from, NEW to, IsSlice(batch, from, to)
    PROVE  /\ \A f \in Outside :
                /\ DOMAIN Seen(batch, from, to)[f] = 1..to - from + 1
                /\ \A i \in 1..to - from + 1 :
                    Seen(batch, from, to)[f][i] = Arrays(batch)[f][from + i - 1]
           /\ \A f \in Field \ Outside :
                /\ Seen(batch, from, to)[f] = Arrays(batch)[f]
                /\ DOMAIN Arrays(batch)[f] = 1..Len(Arrays(batch)[f])
           /\ \A f \in Field : \A i \in DOMAIN Seen(batch, from, to)[f] :
                Seen(batch, from, to)[f][i] \in Entry(f)
<1> DEFINE A == Arrays(batch)
           S == Seen(batch, from, to)
<1>1. /\ batch \in Seq(Row) /\ Len(batch) \in Nat
      /\ from \in 1..Len(batch) /\ to \in from..Len(batch)
    BY LenProperties DEF IsSlice
<1>2. \A f \in Field : /\ A[f] \in Seq(Entry(f))
                       /\ \A i \in 1..Len(A[f]) : A[f][i] \in Entry(f)
                       /\ DOMAIN A[f] = 1..Len(A[f])
    BY <1>1, ArraysType, ElementOfSeq, LenProperties
<1>3. ASSUME NEW f \in Outside
      PROVE  /\ DOMAIN S[f] = 1..to - from + 1
             /\ \A i \in 1..to - from + 1 :
                    S[f][i] = A[f][from + i - 1] /\ S[f][i] \in Entry(f)
    <2>1. f \in Field /\ S[f] = SubSeq(A[f], from, to) /\ Len(A[f]) = Len(batch)
        BY <1>1, ArraysType, OutsideFacts DEF Seen, Slice, Outside
    <2> HIDE DEF S, A
    <2>2. /\ from \in Int /\ to \in Int /\ from <= to
          /\ \A i \in from..to : i \in 1..Len(A[f])
          /\ \A i \in 1..to - from + 1 : from + i - 1 \in 1..Len(A[f])
        BY <1>1, <2>1
    <2>3. \A i \in from..to : A[f][i] \in Entry(f)
        BY <1>2, <2>1, <2>2
    <2>4. /\ SubSeq(A[f], from, to) \in Seq(Entry(f))
          /\ Len(SubSeq(A[f], from, to)) = IF from <= to THEN to - from + 1 ELSE 0
          /\ \A i \in 1..to - from + 1 : SubSeq(A[f], from, to)[i] = A[f][from + i - 1]
        BY <2>2, <2>3, SubSeqProperties
    <2>5. DOMAIN S[f] = 1..to - from + 1
        BY <2>1, <2>2, <2>4, LenProperties
    <2>6. \A i \in 1..to - from + 1 : A[f][from + i - 1] \in Entry(f)
        BY <1>2, <2>1, <2>2
    <2> QED
        BY <2>1, <2>4, <2>5, <2>6
<1>4. \A f \in Field \ Outside : S[f] = A[f]
    BY DEF Seen, Slice, Outside
<1>5. \A f \in Field : \A i \in DOMAIN S[f] : S[f][i] \in Entry(f)
    <2> TAKE f \in Field
    <2>1. CASE f \in Outside
        BY <1>3, <2>1
    <2>2. CASE f \notin Outside
        BY <1>2, <1>4, <2>2
    <2> QED
        BY <2>1, <2>2
<1> QED
    BY <1>2, <1>3, <1>4, <1>5

\* A struct and its members are sliced alike.
LEMMA SliceStructs ==
    ASSUME NEW batch, NEW from, NEW to, IsSlice(batch, from, to),
           NEW f \in Field, Kind[f] = "struct", NEW g \in Children(f)
    PROVE  /\ DOMAIN Seen(batch, from, to)[g] = DOMAIN Seen(batch, from, to)[f]
           /\ \A i \in DOMAIN Seen(batch, from, to)[f] :
                Seen(batch, from, to)[g][i] = Seen(batch, from, to)[f][i].value[g]
<1> DEFINE A == Arrays(batch)
           S == Seen(batch, from, to)
<1>1. /\ batch \in Seq(Row) /\ Len(batch) \in Nat
      /\ from \in 1..Len(batch) /\ to \in from..Len(batch)
    BY LenProperties DEF IsSlice
<1>2. /\ g \in Field /\ (g \in Outside <=> f \in Outside)
      /\ Len(A[g]) = Len(A[f])
      /\ \A i \in 1..Len(A[f]) : A[g][i] = A[f][i].value[g]
    BY <1>1, StructEntries
<1>3. CASE f \in Outside
    <2>1. /\ DOMAIN S[f] = 1..to - from + 1 /\ DOMAIN S[g] = 1..to - from + 1
          /\ \A i \in 1..to - from + 1 :
                S[f][i] = A[f][from + i - 1] /\ S[g][i] = A[g][from + i - 1]
        BY <1>2, <1>3, SliceEntries
    <2>2. \A i \in 1..to - from + 1 : from + i - 1 \in 1..Len(A[f])
        BY <1>1, <1>3, ArraysType
    <2> HIDE DEF S, A
    <2>3. ASSUME NEW i \in 1..to - from + 1
          PROVE  S[g][i] = S[f][i].value[g]
        <3> DEFINE k == from + i - 1
        <3>1. k \in 1..Len(A[f]) /\ S[f][i] = A[f][k] /\ S[g][i] = A[g][k]
            BY <2>1, <2>2
        <3> HIDE DEF k
        <3> QED
            BY <1>2, <3>1
    <2> QED
        BY <2>1, <2>3 DEF S
<1>4. CASE f \notin Outside
    <2>1. /\ S[f] = A[f] /\ DOMAIN A[f] = 1..Len(A[f])
          /\ S[g] = A[g] /\ DOMAIN A[g] = 1..Len(A[g])
        BY <1>2, <1>4, SliceEntries
    <2> HIDE DEF S, A
    <2> QED
        BY <1>2, <2>1 DEF S
<1> QED
    BY <1>3, <1>4

LEMMA SliceDomains ==
    ASSUME NEW batch, NEW from, NEW to, IsSlice(batch, from, to), NEW f \in Field,
           NEW i \in DOMAIN Seen(batch, from, to)[f]
    PROVE  i \in Nat /\ i # 0 /\ 1..i \subseteq DOMAIN Seen(batch, from, to)[f]
<1>1. \E n \in Nat : DOMAIN Seen(batch, from, to)[f] = 1..n
    <2>1. /\ batch \in Seq(Row) /\ Len(batch) \in Nat
          /\ from \in 1..Len(batch) /\ to \in from..Len(batch)
        BY LenProperties DEF IsSlice
    <2>2. CASE f \in Outside
        <3>1. DOMAIN Seen(batch, from, to)[f] = 1..to - from + 1
            BY <2>2, SliceEntries
        <3>2. to - from + 1 \in Nat
            BY <2>1
        <3> QED
            BY <3>1, <3>2
    <2>3. CASE f \notin Outside
        <3>1. Len(Arrays(batch)[f]) \in Nat
            BY <2>1, ArraysType, LenProperties
        <3>2. /\ Seen(batch, from, to)[f] = Arrays(batch)[f]
              /\ DOMAIN Arrays(batch)[f] = 1..Len(Arrays(batch)[f])
            BY <2>3, SliceEntries
        <3> QED
            BY <3>1, <3>2
    <2> QED
        BY <2>2, <2>3
<1> QED
    BY <1>1

\* In the first slice the visitor reads each item of a list at its place, if no
\* null list before it has items, and those at the places before are of this list
\* or earlier ones.
LEMMA FirstSliceItems ==
    ASSUME NEW batch, NEW to, IsSlice(batch, 1, to), NEW f \in Field, Kind[f] = "list",
           NEW i \in DOMAIN Seen(batch, 1, to)[f], PassesAll(Seen(batch, 1, to)[f], i - 1),
           NEW j \in 1..Len(Seen(batch, 1, to)[f][i].value)
    PROVE  LET S == Seen(batch, 1, to)
               k == FirstItem(S[f], i) + j - 1
           IN  /\ k \in DOMAIN S[Item(f)] /\ S[Item(f)][k] = S[f][i].value[j]
               /\ \A p \in 1..k : \E q \in 1..i : \E h \in 1..Len(S[f][q].value) :
                    S[Item(f)][p] = S[f][q].value[h]
<1> DEFINE S == Seen(batch, 1, to)
           a == Arrays(batch)[f]
           g == Item(f)
<1>1. /\ batch \in Seq(Row) /\ Len(batch) \in Nat /\ to \in 1..Len(batch)
    BY LenProperties DEF IsSlice
<1>2. /\ g \in Field /\ Parent[g] = f /\ f # NoField /\ g \in Field \ Outside
      /\ g \in Children(f)
    <2>1. g \in Children(f)
        BY FieldFacts
    <2>2. g \in Field /\ Parent[g] = f /\ f # NoField
        BY <2>1, FieldFacts
    <2> QED
        BY <2>1, <2>2, OutsideFacts
<1>3. a \in Seq(Entry(f)) /\ DOMAIN a = 1..Len(a) /\ Len(a) \in Nat
    BY <1>1, ArraysType, LenProperties
<1>4. S[g] = Items(a) /\ DOMAIN S[g] = 1..Len(Items(a))
    <2>1. S[g] = Arrays(batch)[g] /\ DOMAIN Arrays(batch)[g] = 1..Len(Arrays(batch)[g])
        BY <1>2, SliceEntries
    <2>2. Arrays(batch)[g] = Nested(g, a)
        BY <1>2, ArraysRecursion
    <2>3. Nested(g, a) = Items(a)
        BY <1>2 DEF Nested
    <2> QED
        BY <2>1, <2>2, <2>3
<1>5. AreLists(Entry(f), Entry(g))
    BY <1>2, EntryValues
<1>6. i \in 1..Len(a) /\ \A k \in 1..i : S[f][k] = a[k]
    <2>1. CASE f \in Outside
        <3>1. DOMAIN S[f] = 1..to - 1 + 1 /\ \A k \in 1..to - 1 + 1 : S[f][k] = a[1 + k - 1]
            BY <2>1, SliceEntries
        <3>2. Len(a) = Len(batch)
            BY <1>1, <2>1, ArraysType
        <3>3. i \in DOMAIN S[f]
            OBVIOUS
        <3> HIDE DEF S, a
        <3>4. i \in 1..to /\ i \in 1..Len(a)
            BY <1>1, <3>1, <3>2, <3>3
        <3>5. \A k \in 1..i : k \in 1..to - 1 + 1 /\ 1 + k - 1 = k
            BY <1>1, <3>4
        <3> QED
            BY <3>1, <3>4, <3>5
    <2>2. CASE f \notin Outside
        <3>1. S[f] = a
            BY <2>2, SliceEntries
        <3> QED
            BY <1>3, <3>1
    <2> QED
        BY <2>1, <2>2
<1>7. i \in Nat /\ i \in 1..i /\ \A k \in 1..i - 1 : k \in 1..i
    BY <1>3, <1>6
<1>8. FirstItem(S[f], i) = FirstItem(a, i) /\ PassesAll(a, i - 1) /\ j \in 1..Len(a[i].value)
    <2>1. PassesAll(S[f], i - 1) /\ j \in 1..Len(S[f][i].value)
        OBVIOUS
    <2> HIDE DEF S, a
    <2>2. Passed(S[f], i - 1) = Passed(a, i - 1)
        BY <1>6, <1>7 DEF Passed
    <2>3. FirstItem(S[f], i) = FirstItem(a, i)
        BY <2>2 DEF FirstItem, Passed
    <2>4. PassesAll(a, i - 1)
        BY <1>6, <1>7, <2>1 DEF PassesAll
    <2> QED
        BY <1>6, <1>7, <2>1, <2>3, <2>4
<1> HIDE DEF S, a, g
<1> DEFINE k == FirstItem(a, i) + j - 1
<1>9. /\ k \in 1..Len(Items(a)) /\ Items(a)[k] = a[i].value[j]
      /\ ComeFrom(a, i, k)
    BY <1>3, <1>5, <1>6, <1>8, ItemPlace
<1> HIDE DEF k
<1>10. \A p \in 1..k : \E q \in 1..i : \E h \in 1..Len(S[f][q].value) :
            S[g][p] = S[f][q].value[h]
    <2> TAKE p \in 1..k
    <2>1. PICK q \in 1..i : \E h \in 1..Len(a[q].value) : Items(a)[p] = a[q].value[h]
        BY <1>9 DEF ComeFrom
    <2>2. S[f][q] = a[q]
        BY <1>6
    <2> QED
        BY <1>4, <2>1, <2>2
<1>11. k \in DOMAIN S[g] /\ S[g][k] = S[f][i].value[j]
    BY <1>4, <1>6, <1>7, <1>9
<1>12. k = FirstItem(S[f], i) + j - 1
    BY <1>8 DEF k
<1> QED
    BY <1>10, <1>11, <1>12 DEF S, g

\* No null list that has items is in the first entries.
AreTight(entries, f, n) == \A k \in 1..n : entries[k] \in Tight[f]

\* In the first slice what is added to a row is what the entry means, up to the
\* first null list that has items.
LEMMA FirstSliceMeans ==
    ASSUME NEW batch, NEW to, IsSlice(batch, 1, to)
    PROVE  LET S == Seen(batch, 1, to)
           IN  \A f \in Field : \A i \in DOMAIN S[f] :
                    AreTight(S[f], f, i) /\ ~IsNull(S[f][i]) =>
                        Visit(S)[f][i] = Meaning[f][S[f][i].value]
<1> DEFINE S == Seen(batch, 1, to)
           M == Visit(S)
           Means(f) == \A i \in DOMAIN S[f] :
                            AreTight(S[f], f, i) /\ ~IsNull(S[f][i]) =>
                                M[f][i] = Meaning[f][S[f][i].value]
           T == {f \in Field : Means(f)}
<1>1. ASSUME NEW f \in Field, \A g \in Children(f) : g \in T PROVE Means(f)
    <2> SUFFICES ASSUME NEW i \in DOMAIN S[f], AreTight(S[f], f, i), ~IsNull(S[f][i])
                 PROVE  M[f][i] = Meaning[f][S[f][i].value]
        OBVIOUS
    <2> DEFINE v == S[f][i].value
    <2>1. v \in Value[f]
        BY SliceEntries, EntryValues
    <2>2. M[f][i] = Member(f, S, M, i)
        <3> HIDE DEF S
        <3>1. Visit(S)[f] = [k \in {h \in DOMAIN S[f] : ~IsNull(S[f][h])} |->
                                Member(f, S, Visit(S), k)]
            BY VisitRecursion
        <3> HIDE DEF M
        <3> QED
            BY <3>1 DEF M
    <2>3. Meaning[f][v] = MeaningOf(f, Meaning, v)
        BY <2>1, MeaningRecursion
    <2>4. i \in Nat /\ i # 0 /\ 1..i \subseteq DOMAIN S[f]
        BY SliceDomains
    <2>5. \A k \in 1..i : TightEntry(f, Tight, S[f][k])
        <3> HIDE DEF S
        <3> QED
            BY TightRecursion DEF AreTight
    <2> HIDE DEF M
    <2>6. CASE Kind[f] = "primitive"
        BY <2>2, <2>3, <2>6 DEF Member, MeaningOf
    <2>7. CASE Kind[f] = "list"
        <3> DEFINE g == Item(f)
                   k(j) == FirstItem(S[f], i) + j - 1
        <3>1. g \in Children(f)
            BY <2>7, FieldFacts
        <3>2. Means(g)
            BY <1>1, <3>1
        <3>3. PassesAll(S[f], i - 1)
            <4> HIDE DEF S
            <4> QED
                BY <2>4, <2>5, <2>7 DEF PassesAll, TightEntry
        <3>4. \A j \in 1..Len(v) :
                /\ k(j) \in DOMAIN S[g] /\ S[g][k(j)] = v[j]
                /\ \A p \in 1..k(j) : \E q \in 1..i : \E h \in 1..Len(S[f][q].value) :
                    S[g][p] = S[f][q].value[h]
            BY <2>7, <3>3, FirstSliceItems
        <3>5. \A q \in 1..i : \A h \in 1..Len(S[f][q].value) : S[f][q].value[h] \in Tight[g]
            <4> HIDE DEF S
            <4> QED
                BY <2>5, <2>7 DEF TightEntry
        <3>6. List(f, S, M, i) =
                [j \in 1..Len(v) |-> IF IsNull(S[g][k(j)]) THEN Undefined ELSE M[g][k(j)]]
            BY DEF List
        <3>7. ListMeaning(f, Meaning, v) =
                [j \in 1..Len(v) |-> IF IsNull(v[j]) THEN Undefined ELSE Meaning[g][v[j].value]]
            BY DEF ListMeaning
        <3> HIDE DEF S, g, k, v
        <3>8. \A j \in 1..Len(v) : AreTight(S[g], g, k(j))
            BY <3>4, <3>5 DEF AreTight
        <3>9. \A j \in 1..Len(v) : ~IsNull(v[j]) => M[g][k(j)] = Meaning[g][v[j].value]
            BY <3>2, <3>4, <3>8
        <3>10. List(f, S, M, i) = ListMeaning(f, Meaning, v)
            BY <3>4, <3>6, <3>7, <3>9
        <3> QED
            BY <2>2, <2>3, <2>7, <3>10 DEF Member, MeaningOf, v
    <2>8. CASE Kind[f] = "struct"
        <3>1. ASSUME NEW g \in Children(f)
              PROVE  /\ DOMAIN S[g] = DOMAIN S[f]
                     /\ \A k \in DOMAIN S[f] : S[g][k] = S[f][k].value[g]
            BY <2>8, SliceStructs
        <3>2. \A g \in Children(f) : Means(g)
            BY <1>1
        <3>3. i \in DOMAIN S[f]
            OBVIOUS
        <3> HIDE DEF S
        <3>4. \A g \in Children(f) : AreTight(S[g], g, i)
            BY <2>4, <2>5, <2>8, <3>1 DEF AreTight, TightEntry
        <3>5. \A g \in Children(f) : i \in DOMAIN S[g] /\ S[g][i] = v[g]
            BY <3>1, <3>3
        <3> HIDE DEF v
        <3>6. \A g \in Children(f) : ~IsNull(v[g]) => M[g][i] = Meaning[g][v[g].value]
            BY <3>2, <3>4, <3>5
        <3>7. Object(Children(f), S, M, i) = ObjectMeaning(Children(f), Meaning, v)
            BY <3>5, <3>6 DEF Object, ObjectMeaning
        <3> QED
            BY <2>2, <2>3, <2>8, <3>7 DEF Member, MeaningOf, v
    <2> QED
        BY <2>6, <2>7, <2>8, FieldFacts
<1>2. \A f \in Field : f \in T
    <2> HIDE DEF Means
    <2>1. \A f \in Field : (\A g \in Children(f) : g \in T) => f \in T
        BY <1>1
    <2> HIDE DEF T
    <2> QED
        BY <2>1, Upwards
<1> QED
    BY <1>2

\* The row that is made of the ith entries of a slice.
Made(S, i) == Object(Columns, S, Visit(S), i)

\* Of the ith entries of S the row shows members, and means values, unless they
\* are null or in a null struct.
Shows(S, row, meant, i) ==
    \A f \in Outside :
        \/ Shown(row)[f] = {} /\ Shown(meant)[f] = {}
        \/ /\ ~IsNull(S[f][i])
           /\ Shown(row)[f] = {Visit(S)[f][i]}
           /\ Shown(meant)[f] = {Meaning[f][S[f][i].value]}

\* Outside lists a row shows the member made of each entry, and should show its
\* meaning.
LEMMA SliceShows ==
    ASSUME NEW batch, NEW from, NEW to, IsSlice(batch, from, to),
           NEW i \in 1..to - from + 1
    PROVE  Shows(Seen(batch, from, to), Made(Seen(batch, from, to), i),
                 RowMeaning(batch[from + i - 1]), i)
<1> DEFINE S == Seen(batch, from, to)
           M == Visit(S)
           row == Made(S, i)
           meant == RowMeaning(batch[from + i - 1])
           Hides(f) == Shown(row)[f] = {} /\ Shown(meant)[f] = {}
           Gives(f) == /\ ~IsNull(S[f][i])
                       /\ Shown(row)[f] = {M[f][i]}
                       /\ Shown(meant)[f] = {Meaning[f][S[f][i].value]}
           At(f) == Hides(f) \/ Gives(f)
           T == {f \in Field : f \in Outside => At(f)}
<1>1. \A f \in Outside : i \in DOMAIN S[f]
    <2>1. \A f \in Outside : DOMAIN S[f] = 1..to - from + 1
        BY SliceEntries
    <2> HIDE DEF S
    <2> QED
        BY <2>1
<1>2. \A f \in Outside : /\ f \in Field
                        /\ Shown(row)[f] = MembersOf(IF Parent[f] = NoField THEN {row}
                                                      ELSE Shown(row)[Parent[f]], f)
                        /\ Shown(meant)[f] = MembersOf(IF Parent[f] = NoField THEN {meant}
                                                        ELSE Shown(meant)[Parent[f]], f)
    <2> HIDE DEF row, meant
    <2> QED
        BY ShownRecursion, OutsideFacts
<1>3. \A o, f : /\ f \in DOMAIN o => MembersOf({o}, f) = {o[f]}
                /\ f \notin DOMAIN o => MembersOf({o}, f) = {}
    BY DEF MembersOf
<1>4. ASSUME NEW f \in Outside, Parent[f] = NoField PROVE At(f)
    <2> DEFINE entries == batch[from + i - 1]
    <2>1. f \in Columns
        BY <1>2, <1>4 DEF Columns, Children
    <2>2. S[f][i] = entries[f]
        <3>1. /\ batch \in Seq(Row) /\ Len(batch) \in Nat
              /\ from \in 1..Len(batch) /\ to \in from..Len(batch)
            BY LenProperties DEF IsSlice
        <3>2. from + i - 1 \in DOMAIN batch
            BY <3>1
        <3>3. S[f][i] = Arrays(batch)[f][from + i - 1]
            BY SliceEntries
        <3>4. Arrays(batch)[f] = [k \in DOMAIN batch |-> batch[k][f]]
            BY <1>2, <1>4, ArraysRecursion
        <3> HIDE DEF S
        <3> QED
            BY <3>2, <3>3, <3>4
    <2> HIDE DEF S, M, entries
    <2>3. /\ DOMAIN row = {h \in Columns : ~IsNull(S[h][i])}
          /\ \A h \in DOMAIN row : row[h] = M[h][i]
        BY DEF Made, Object, M
    <2>4. /\ DOMAIN meant = {h \in Columns : ~IsNull(entries[h])}
          /\ \A h \in DOMAIN meant : meant[h] = Meaning[h][entries[h].value]
        BY DEF RowMeaning, ObjectMeaning, entries
    <2>5. Shown(row)[f] = MembersOf({row}, f) /\ Shown(meant)[f] = MembersOf({meant}, f)
        BY <1>2, <1>4
    <2> HIDE DEF row, meant
    <2>6. CASE IsNull(S[f][i])
        <3>1. f \notin DOMAIN row /\ f \notin DOMAIN meant
            BY <2>2, <2>3, <2>4, <2>6
        <3>2. Hides(f)
            BY <1>3, <2>5, <3>1
        <3> QED
            BY <3>2
    <2>7. CASE ~IsNull(S[f][i])
        <3>1. f \in DOMAIN row /\ f \in DOMAIN meant
            BY <2>1, <2>2, <2>3, <2>4, <2>7
        <3>2. row[f] = M[f][i] /\ meant[f] = Meaning[f][S[f][i].value]
            BY <2>2, <2>3, <2>4, <3>1
        <3>3. Shown(row)[f] = {row[f]} /\ Shown(meant)[f] = {meant[f]}
            BY <1>3, <2>5, <3>1
        <3>4. Gives(f)
            BY <2>7, <3>2, <3>3
        <3> QED
            BY <3>4
    <2> QED
        BY <2>6, <2>7
<1>5. ASSUME NEW f \in Outside, Parent[f] # NoField, At(Parent[f]) PROVE At(f)
    <2> DEFINE P == Parent[f]
               v == S[P][i].value
    <2>1. f \in Children(P) /\ P \in Field /\ P \in Outside /\ Kind[P] = "struct"
        BY <1>2, <1>5, FieldFacts, OutsideFacts DEF Children
    <2>2. i \in DOMAIN S[P] /\ S[P][i] \in Entry(P)
        BY <1>1, <2>1, SliceEntries
    <2>3. \A g \in Children(P) : S[g][i] = v[g]
        BY <2>1, <2>2, SliceStructs
    <2>4. Shown(row)[f] = MembersOf(Shown(row)[P], f)
          /\ Shown(meant)[f] = MembersOf(Shown(meant)[P], f)
        BY <1>2, <1>5
    <2>5. CASE Hides(P)
        <3>1. MembersOf({}, f) = {}
            BY DEF MembersOf
        <3>2. Hides(f)
            <4> HIDE DEF row, meant
            <4> QED
                BY <2>4, <2>5, <3>1
        <3> QED
            BY <3>2
    <2>6. CASE Gives(P)
        <3>1. M[P][i] = Member(P, S, M, i)
            <4> HIDE DEF S
            <4>1. Visit(S)[P] = [k \in {h \in DOMAIN S[P] : ~IsNull(S[P][h])} |->
                                    Member(P, S, Visit(S), k)]
                BY <2>1, VisitRecursion
            <4>2. ~IsNull(S[P][i])
                BY <2>6
            <4> HIDE DEF M
            <4> QED
                BY <2>2, <4>1, <4>2 DEF M
        <3>2. Meaning[P][v] = MeaningOf(P, Meaning, v)
            BY <2>1, <2>2, EntryValues, MeaningRecursion
        <3> HIDE DEF S, M, row, meant
        <3> DEFINE o == M[P][i]
                   m == Meaning[P][v]
        <3>3. /\ DOMAIN o = {h \in Children(P) : ~IsNull(S[h][i])}
              /\ \A h \in DOMAIN o : o[h] = M[h][i]
            BY <2>1, <3>1 DEF Member, Object
        <3>4. /\ DOMAIN m = {h \in Children(P) : ~IsNull(v[h])}
              /\ \A h \in DOMAIN m : m[h] = Meaning[h][v[h].value]
            BY <2>1, <3>2 DEF MeaningOf, ObjectMeaning
        <3>5. Shown(row)[P] = {o} /\ Shown(meant)[P] = {m}
            BY <2>6
        <3>6. S[f][i] = v[f]
            BY <2>1, <2>3
        <3> HIDE DEF o, m, v
        <3>7. CASE IsNull(S[f][i])
            <4>1. f \notin DOMAIN o /\ f \notin DOMAIN m
                BY <3>3, <3>4, <3>6, <3>7
            <4>2. Hides(f)
                BY <1>3, <2>4, <3>5, <4>1
            <4> QED
                BY <4>2
        <3>8. CASE ~IsNull(S[f][i])
            <4>1. f \in DOMAIN o /\ f \in DOMAIN m
                BY <2>1, <3>3, <3>4, <3>6, <3>8
            <4>2. o[f] = M[f][i] /\ m[f] = Meaning[f][S[f][i].value]
                BY <3>3, <3>4, <3>6, <4>1
            <4>3. Shown(row)[f] = MembersOf({o}, f) /\ Shown(meant)[f] = MembersOf({m}, f)
                BY <2>4, <3>5
            <4>4. Shown(row)[f] = {o[f]} /\ Shown(meant)[f] = {m[f]}
                BY <1>3, <4>1, <4>3
            <4>5. Gives(f)
                BY <3>8, <4>2, <4>4
            <4> QED
                BY <4>5
        <3> QED
            BY <3>7, <3>8
    <2> QED
        BY <1>5, <2>5, <2>6
<1>6. \A f \in Field : f \in T
    <2> HIDE DEF At
    <2>1. \A f \in Field : (Parent[f] # NoField => Parent[f] \in T) => f \in T
        BY <1>4, <1>5, OutsideFacts
    <2> HIDE DEF T
    <2> QED
        BY <2>1, Downwards
<1> QED
    BY <1>2, <1>6 DEF Shows

\* So it keeps its shape.
LEMMA SliceKeepsShape ==
    ASSUME NEW batch, NEW from, NEW to, IsSlice(batch, from, to),
           NEW i \in 1..to - from + 1, NEW f \in Outside
    PROVE  SameShape(f, Shown(Made(Seen(batch, from, to), i))[f],
                        Shown(RowMeaning(batch[from + i - 1]))[f])
<1> DEFINE S == Seen(batch, from, to)
           M == Visit(S)
           v == S[f][i].value
           shown == Shown(Made(S, i))[f]
           meant == Shown(RowMeaning(batch[from + i - 1]))[f]
<1>1. \/ shown = {} /\ meant = {}
      \/ ~IsNull(S[f][i]) /\ shown = {M[f][i]} /\ meant = {Meaning[f][v]}
    <2>1. Shows(S, Made(S, i), RowMeaning(batch[from + i - 1]), i)
        BY SliceShows
    <2> HIDE DEF S
    <2> QED
        BY <2>1 DEF Shows
<1>2. f \in Field /\ i \in DOMAIN S[f] /\ S[f][i] \in Entry(f)
    <2>1. /\ DOMAIN S[f] = 1..to - from + 1
          /\ \A g \in Field : \A k \in DOMAIN S[g] : S[g][k] \in Entry(g)
        BY SliceEntries
    <2> HIDE DEF S
    <2> QED
        BY <2>1, OutsideFacts
<1>3. CASE shown = {} /\ meant = {}
    <2>1. shown = {} /\ meant = {}
        BY <1>3
    <2> HIDE DEF shown, meant
    <2>2. SameShape(f, shown, meant)
        BY <2>1 DEF SameShape
    <2> QED
        BY <2>2 DEF shown, meant
<1>4. CASE ~IsNull(S[f][i]) /\ shown = {M[f][i]} /\ meant = {Meaning[f][v]}
    <2>1. M[f][i] = Member(f, S, M, i)
        <3> HIDE DEF S
        <3>1. Visit(S)[f] = [k \in {h \in DOMAIN S[f] : ~IsNull(S[f][h])} |->
                                Member(f, S, Visit(S), k)]
            BY <1>2, VisitRecursion
        <3> HIDE DEF M
        <3> QED
            BY <1>2, <1>4, <3>1 DEF M
    <2>2. v \in Value[f] /\ Meaning[f][v] = MeaningOf(f, Meaning, v)
        BY <1>2, EntryValues, MeaningRecursion
    <2> DEFINE o == M[f][i]
               m == Meaning[f][v]
    <2>3. shown = {o} /\ meant = {m}
        BY <1>4
    <2>4. Kind[f] = "primitive" => o = m
        BY <2>1, <2>2 DEF Member, MeaningOf
    <2>5. ASSUME Kind[f] = "list" PROVE Len(o) = Len(m)
        <3>1. v \in Seq(Entry(Item(f)))
            BY <1>2, <2>2, <2>5, FieldFacts, ValueAssumption
        <3>2. Len(v) \in Nat
            BY <3>1, LenProperties
        <3>3. o = List(f, S, M, i) /\ m = ListMeaning(f, Meaning, v)
            BY <2>1, <2>2, <2>5 DEF Member, MeaningOf
        <3> HIDE DEF o, m, M, v
        <3>4. Len(o) = Len(v)
            BY <3>2, <3>3 DEF List, v
        <3>5. Len(m) = Len(v)
            BY <3>2, <3>3 DEF ListMeaning
        <3> QED
            BY <3>4, <3>5
    <2>6. ASSUME Kind[f] = "struct" PROVE DOMAIN o = DOMAIN m
        <3>1. \A g \in Children(f) : S[g][i] = v[g]
            BY <1>2, <2>6, SliceStructs
        <3>2. DOMAIN o = {h \in Children(f) : ~IsNull(S[h][i])}
            BY <2>1, <2>6 DEF Member, Object
        <3>3. DOMAIN m = {h \in Children(f) : ~IsNull(v[h])}
            BY <2>2, <2>6 DEF MeaningOf, ObjectMeaning
        <3> HIDE DEF S, o, m, v
        <3> QED
            BY <3>1, <3>2, <3>3
    <2> HIDE DEF o, m, shown, meant
    <2>7. SameShape(f, shown, meant)
        BY <2>3, <2>4, <2>5, <2>6 DEF SameShape
    <2> QED
        BY <2>7 DEF shown, meant
<1> QED
    BY <1>1, <1>3, <1>4

-----------------------------------------------------------------------------
(* The slices of a batch, and the batches of a table.                      *)

\* First row of each slice.
FirstOf(k) == BatchSize * (k - 1) + 1

\* The slices of n rows follow each other from the first row to the last, and
\* all but the first are behind the rows that one slice holds.
LEMMA SliceBounds ==
    ASSUME NEW n \in Nat
    PROVE  /\ Len(SliceEnds(n)) \in Nat /\ DOMAIN SliceEnds(n) = 1..Len(SliceEnds(n))
           /\ FirstOf(1) = 1
           /\ \A k \in 1..Len(SliceEnds(n)) :
                /\ FirstOf(k) \in 1..n /\ SliceEnds(n)[k] \in FirstOf(k)..n
                /\ k # 1 => /\ SliceEnds(n)[k - 1] + 1 = FirstOf(k)
                            /\ BatchSize < FirstOf(k)
           /\ Len(SliceEnds(n)) = 0 => n = 0
           /\ Len(SliceEnds(n)) # 0 => SliceEnds(n)[Len(SliceEnds(n))] = n
<1> DEFINE B == BatchSize
           K == (n + B - 1) \div B
           r == (n + B - 1) % B
           ends == SliceEnds(n)
<1>1. B \in Nat /\ B # 0
    BY SizesAssumption
<1>2. K \in Int /\ r \in Int /\ 0 <= r /\ r < B /\ n + B - 1 = B * K + r
    <2>1. n + B - 1 \in Int
        BY <1>1
    <2> HIDE DEF B
    <2>2. n + B - 1 = B * ((n + B - 1) \div B) + ((n + B - 1) % B)
        BY <1>1, <2>1
    <2>3. K \in Int /\ r \in Int /\ 0 <= r /\ r < B
        BY <1>1, <2>1
    <2> QED
        BY <2>2, <2>3
<1> HIDE DEF B, K, r
<1>3. ASSUME NEW x \in Int, NEW y \in Int, x < y PROVE B * x + B <= B * y
    <2>1. PICK d \in Nat : y = x + 1 + d
        <3>1. y - x - 1 \in Nat /\ y = x + 1 + (y - x - 1)
            BY <1>3
        <3> QED
            BY <3>1
    <2>2. B * y = B * x + B + B * d
        BY <1>1, <2>1
    <2>3. B * d \in Nat /\ B * x \in Int
        BY <1>1
    <2> QED
        BY <1>1, <2>2, <2>3
<1>4. B * 0 = 0 /\ B * 1 = B /\ \A x \in Int : B * x \in Int
    BY <1>1
<1>5. K \in Nat
    <2>1. ASSUME K < 0 PROVE FALSE
        <3>1. B * K + B <= B * 0
            BY <1>2, <1>3, <2>1
        <3> QED
            BY <1>1, <1>2, <1>4, <3>1
    <2> QED
        BY <1>2, <2>1
<1>6. /\ ends = [k \in 1..K |-> IF B * k < n THEN B * k ELSE n]
      /\ Len(ends) = K /\ DOMAIN ends = 1..K
    <2>1. ends = [k \in 1..K |-> IF B * k < n THEN B * k ELSE n]
        BY DEF SliceEnds, B, K
    <2> HIDE DEF ends
    <2> QED
        BY <1>5, <2>1
<1>7. \A k \in 1..K : FirstOf(k) = B * (k - 1) + 1
    BY DEF FirstOf, B
<1> HIDE DEF ends
<1>8. K = 0 => n = 0
    BY <1>1, <1>2, <1>4
<1>9. \A k \in 1..K : B * (k - 1) \in Int /\ B * k \in Int /\ B * k = B * (k - 1) + B
    <2> TAKE k \in 1..K
    <2>1. k - 1 \in Int /\ k \in Int
        OBVIOUS
    <2>2. B * k = B * (k - 1) + B
        BY <1>1, <2>1
    <2> QED
        BY <1>4, <2>1, <2>2
<1>10. \A k \in 1..K : 0 <= B * (k - 1) /\ B * (k - 1) < n
    <2> TAKE k \in 1..K
    <2>1. 0 <= B * (k - 1)
        BY <1>1
    <2>2. k - 1 \in Int /\ k - 1 < K
        BY <1>5
    <2>3. B * (k - 1) + B <= B * K
        BY <1>2, <1>3, <2>2
    <2>4. B * K \in Int /\ B * (k - 1) \in Int
        BY <1>2, <1>4, <2>2
    <2>5. B * (k - 1) < n
        BY <1>1, <1>2, <2>3, <2>4
    <2> QED
        BY <2>1, <2>5
<1>11. ASSUME NEW k \in 1..K
       PROVE  FirstOf(k) \in 1..n /\ ends[k] \in FirstOf(k)..n
    <2>1. ends[k] = IF B * k < n THEN B * k ELSE n
        BY <1>6
    <2> QED
        BY <1>1, <1>7, <1>9, <1>10, <2>1
<1>12. ASSUME NEW k \in 1..K, k # 1
       PROVE  ends[k - 1] + 1 = FirstOf(k) /\ B < FirstOf(k)
    <2>1. k - 1 \in 1..K
        BY <1>5, <1>12
    <2>2. ends[k - 1] = IF B * (k - 1) < n THEN B * (k - 1) ELSE n
        BY <1>6, <2>1
    <2>3. B <= B * (k - 1)
        <3>1. B * (k - 1) = B * (k - 1 - 1) + B
            BY <1>9, <2>1
        <3>2. 0 <= B * (k - 1 - 1) /\ B * (k - 1 - 1) \in Int
            BY <1>9, <1>10, <2>1
        <3> QED
            BY <1>1, <3>1, <3>2
    <2> QED
        BY <1>1, <1>7, <1>9, <1>10, <2>2, <2>3
<1>13. K # 0 => ends[K] = n
    <2>1. K # 0 => ends[K] = IF B * K < n THEN B * K ELSE n
        BY <1>5, <1>6
    <2>2. B * K \in Int
        BY <1>2, <1>4
    <2>3. n <= B * K
        BY <1>1, <1>2, <2>2
    <2>4. ~(B * K < n)
        BY <2>2, <2>3
    <2> QED
        BY <2>1, <2>4
<1>14. FirstOf(1) = 1
    <2>1. FirstOf(1) = B * (1 - 1) + 1
        BY DEF FirstOf, B
    <2> QED
        BY <1>4, <2>1
<1> QED
    BY <1>5, <1>6, <1>8, <1>11, <1>12, <1>13, <1>14 DEF ends, B

IsSeq(s) == \E W : s \in Seq(W)

\* Any sequences can be put in a row.
LEMMA Flattening ==
    ASSUME NEW N \in Nat, NEW ss, ss = [k \in 1..N |-> ss[k]], \A k \in 1..N : IsSeq(ss[k])
    PROVE  /\ Len(ss) = N /\ IsSeq(FlattenSeq(ss))
           /\ \A k \in 1..N : Len(ss[k]) \in Nat
           /\ \E off : IsOffsets(off, ss) /\ LiesAt(FlattenSeq(ss), ss, off, N)
<1> DEFINE V == UNION {{ss[k][j] : j \in DOMAIN ss[k]} : k \in 1..N}
<1>1. ASSUME NEW k \in 1..N PROVE ss[k] \in Seq(V) /\ Len(ss[k]) \in Nat
    <2> DEFINE s == ss[k]
    <2>1. PICK W : s \in Seq(W)
        BY DEF IsSeq
    <2>2. Len(s) \in Nat /\ s \in [1..Len(s) -> W] /\ DOMAIN s = 1..Len(s)
        BY <2>1, LenProperties
    <2>3. \A j \in 1..Len(s) : s[j] \in V
        BY <2>2
    <2>4. s \in [1..Len(s) -> V]
        <3> HIDE DEF V, s
        <3> QED
            BY <2>2, <2>3
    <2> HIDE DEF V, s
    <2>5. s \in Seq(V)
        BY <2>2, <2>4, SeqDef
    <2> QED
        BY <2>2, <2>5 DEF s
<1> HIDE DEF V
<1>2. ss \in Seq(Seq(V)) /\ Len(ss) = N
    <2> DEFINE W == Seq(V)
    <2>1. \A k \in 1..N : ss[k] \in W
        BY <1>1
    <2> HIDE DEF W
    <2>2. ss \in [1..N -> W]
        BY <2>1
    <2>3. ss \in Seq(W)
        BY <2>2, SeqDef
    <2>4. Len(ss) = N
        <3>1. DOMAIN ss = 1..N /\ DOMAIN ss = 1..Len(ss) /\ Len(ss) \in Nat
            BY <2>2, <2>3, LenProperties
        <3> HIDE DEF W
        <3> QED
            BY <3>1
    <2> QED
        BY <2>3, <2>4 DEF W
<1>3. /\ FlattenSeq(ss) \in Seq(V)
      /\ \E off : IsOffsets(off, ss) /\ LiesAt(FlattenSeq(ss), ss, off, Len(ss))
    BY <1>2, FlattenOffsets
<1>4. IsSeq(FlattenSeq(ss))
    BY <1>3 DEF IsSeq
<1> QED
    BY <1>1, <1>2, <1>3, <1>4

\* What is promised of a row: it is right where it is safe, and its shape is
\* anywhere.
IsGood(row, batch, p) ==
    /\ IsSafe(batch, p) => row = RowMeaning(batch[p])
    /\ \A f \in Outside : SameShape(f, Shown(row)[f], Shown(RowMeaning(batch[p]))[f])

LEMMA MadeIsGood ==
    ASSUME NEW batch, NEW from, NEW to, IsSlice(batch, from, to),
           NEW i \in 1..to - from + 1, NEW p, p = from + i - 1,
           p <= BatchSize => from = 1
    PROVE  IsGood(Made(Seen(batch, from, to), i), batch, p)
<1> DEFINE S == Seen(batch, from, to)
<1>1. \A f \in Outside : SameShape(f, Shown(Made(S, i))[f], Shown(RowMeaning(batch[p]))[f])
    <2> TAKE f \in Outside
    <2>1. SameShape(f, Shown(Made(S, i))[f], Shown(RowMeaning(batch[from + i - 1]))[f])
        BY SliceKeepsShape
    <2> HIDE DEF S
    <2> QED
        BY <2>1
<1>2. ASSUME from = 1, IsSafe(batch, p) PROVE Made(S, i) = RowMeaning(batch[p])
    <2> DEFINE M == Visit(S)
    <2>1. /\ batch \in Seq(Row) /\ Len(batch) \in Nat /\ DOMAIN batch = 1..Len(batch)
          /\ to \in 1..Len(batch)
        BY <1>2, LenProperties DEF IsSlice
    <2>2. p = i /\ i \in 1..Len(batch) /\ i \in 1..to - 1 + 1 /\ 1 + i - 1 = i
        BY <1>2, <2>1
    <2>3. IsSlice(batch, 1, to) /\ S = Seen(batch, 1, to)
        BY <1>2
    <2>4. ASSUME NEW c \in Columns
          PROVE  /\ S[c][i] = batch[i][c]
                 /\ ~IsNull(S[c][i]) => M[c][i] = Meaning[c][batch[i][c].value]
        <3>1. c \in Field /\ Parent[c] = NoField /\ c \in Outside
            BY FieldFacts, InListRecursion DEF Outside
        <3>2. \A f \in Outside :
                /\ DOMAIN S[f] = 1..to - 1 + 1
                /\ \A k \in 1..to - 1 + 1 : S[f][k] = Arrays(batch)[f][1 + k - 1]
            BY <2>3, SliceEntries
        <3>3. Arrays(batch)[c] = [k \in DOMAIN batch |-> batch[k][c]]
            BY <3>1, ArraysRecursion
        <3>4. \A f \in Field : \A k \in DOMAIN S[f] :
                AreTight(S[f], f, k) /\ ~IsNull(S[f][k]) => M[f][k] = Meaning[f][S[f][k].value]
            BY <2>3, FirstSliceMeans
        <3> HIDE DEF S, M
        <3>5. \A k \in 1..i :
                k \in 1..to - 1 + 1 /\ k \in DOMAIN batch /\ 1 + k - 1 = k
            BY <2>1, <2>2
        <3>6. i \in DOMAIN S[c] /\ i \in 1..i /\ \A k \in 1..i : S[c][k] = batch[k][c]
            BY <2>1, <2>2, <3>1, <3>2, <3>3, <3>5
        <3>7. AreTight(S[c], c, i)
            BY <1>2, <2>2, <3>6 DEF AreTight, IsSafe
        <3> QED
            BY <3>1, <3>4, <3>6, <3>7
    <2> HIDE DEF S
    <2>5. {h \in Columns : ~IsNull(S[h][i])} = {h \in Columns : ~IsNull(batch[i][h])}
        BY <2>4
    <2>6. Made(S, i) = [g \in {h \in Columns : ~IsNull(S[h][i])} |-> M[g][i]]
        BY DEF Made, Object
    <2>7. RowMeaning(batch[i]) =
            [g \in {h \in Columns : ~IsNull(batch[i][h])} |-> Meaning[g][batch[i][g].value]]
        BY DEF RowMeaning, ObjectMeaning
    <2> HIDE DEF M
    <2>8. Made(S, i) = RowMeaning(batch[i])
        BY <2>4, <2>5, <2>6, <2>7
    <2> QED
        BY <2>2, <2>8
<1> HIDE DEF S
<1>3. IsGood(Made(S, i), batch, p)
    <2>1. IsSafe(batch, p) => from = 1
        BY DEF IsSafe
    <2> QED
        BY <1>1, <1>2, <2>1 DEF IsGood
<1> QED
    BY <1>3 DEF S

\* A batch gives a good row for each of its rows, in their order.
LEMMA BatchRowsGood ==
    ASSUME NEW batch \in Seq(Row)
    PROVE  /\ IsSeq(BatchRows(batch)) /\ Len(BatchRows(batch)) = Len(batch)
           /\ \A p \in 1..Len(batch) : IsGood(BatchRows(batch)[p], batch, p)
<1> DEFINE n == Len(batch)
           ends == SliceEnds(n)
           K == Len(ends)
           Size(k) == ends[k] - FirstOf(k) + 1
           Piece(k) == [i \in 1..Size(k) |-> Made(Seen(batch, FirstOf(k), ends[k]), i)]
           pieces == [k \in 1..K |-> Piece(k)]
<1>1. n \in Nat
    BY LenProperties
<1>2. /\ K \in Nat /\ DOMAIN ends = 1..K /\ FirstOf(1) = 1
      /\ \A k \in 1..K :
            /\ FirstOf(k) \in 1..n /\ ends[k] \in FirstOf(k)..n
            /\ k # 1 => ends[k - 1] + 1 = FirstOf(k) /\ BatchSize < FirstOf(k)
      /\ K = 0 => n = 0
      /\ K # 0 => ends[K] = n
    BY <1>1, SliceBounds
<1>3. BatchRows(batch) = FlattenSeq(pieces)
    <2>1. \A arrays, m : ConvertToVector(arrays, m) = [i \in 1..m |-> Made(arrays, i)]
        BY DEF ConvertToVector, Made
    <2>2. BatchRows(batch) =
            FlattenSeq([k \in DOMAIN ends |->
                ConvertToVector(Seen(batch, FirstOf(k), ends[k]), ends[k] - FirstOf(k) + 1)])
        BY DEF BatchRows, Seen, FirstOf
    <2> HIDE DEF ends
    <2>3. [k \in DOMAIN ends |->
                ConvertToVector(Seen(batch, FirstOf(k), ends[k]), ends[k] - FirstOf(k) + 1)]
          = pieces
        BY <1>2, <2>1
    <2> QED
        BY <2>2, <2>3
<1> HIDE DEF n, ends, K
<1>4. \A k \in 1..K : Size(k) \in Nat
    BY <1>1, <1>2
<1>5. \A k \in 1..K : pieces[k] = Piece(k)
    OBVIOUS
<1> HIDE DEF Size
<1>6. ASSUME NEW k \in 1..K
      PROVE  /\ IsSeq(pieces[k]) /\ Len(pieces[k]) = Size(k)
             /\ \A i \in 1..Size(k) :
                    pieces[k][i] = Made(Seen(batch, FirstOf(k), ends[k]), i)
    <2> DEFINE At(i) == Made(Seen(batch, FirstOf(k), ends[k]), i)
               W == {At(i) : i \in 1..Size(k)}
    <2>1. pieces[k] = [i \in 1..Size(k) |-> At(i)]
        BY <1>5
    <2>2. \A i \in 1..Size(k) : At(i) \in W
        OBVIOUS
    <2>3. Size(k) \in Nat
        BY <1>4
    <2> HIDE DEF At, W, pieces
    <2>4. [i \in 1..Size(k) |-> At(i)] \in Seq(W) /\ Len([i \in 1..Size(k) |-> At(i)]) = Size(k)
        BY <2>2, <2>3
    <2>5. IsSeq(pieces[k])
        BY <2>1, <2>4 DEF IsSeq
    <2>6. \A i \in 1..Size(k) : pieces[k][i] = At(i)
        BY <2>1
    <2> QED
        BY <2>1, <2>4, <2>5, <2>6 DEF At
<1>7. pieces = [k \in 1..K |-> pieces[k]]
    OBVIOUS
<1> HIDE DEF pieces, Piece
<1>8. /\ Len(pieces) = K /\ IsSeq(FlattenSeq(pieces))
      /\ \A k \in 1..K : Len(pieces[k]) \in Nat
      /\ \E off : IsOffsets(off, pieces) /\ LiesAt(FlattenSeq(pieces), pieces, off, K)
    BY <1>2, <1>6, <1>7, Flattening
<1>9. PICK off : IsOffsets(off, pieces) /\ LiesAt(FlattenSeq(pieces), pieces, off, K)
    BY <1>8
<1>10. /\ off[0] = 0
       /\ \A k \in 1..K : off[k] = off[k - 1] + Size(k)
       /\ Len(FlattenSeq(pieces)) = off[K]
       /\ \A k \in 1..K : \A i \in 1..Size(k) :
            FlattenSeq(pieces)[off[k - 1] + i] = Made(Seen(batch, FirstOf(k), ends[k]), i)
    BY <1>6, <1>8, <1>9 DEF IsOffsets, LiesAt
<1>11. \A k \in 0..K : off[k] = IF k = 0 THEN 0 ELSE ends[k]
    <2> DEFINE T == {k \in 0..K : off[k] = IF k = 0 THEN 0 ELSE ends[k]}
    <2>1. 0 \in T
        BY <1>2, <1>10
    <2>2. ASSUME NEW k \in 1..K, k - 1 \in T PROVE k \in T
        <3>1. off[k] = off[k - 1] + Size(k) /\ k \in 0..K /\ k # 0
            BY <1>2, <1>10
        <3>2. off[k - 1] + 1 = FirstOf(k) /\ off[k - 1] \in Int
            <4>1. CASE k = 1
                BY <1>2, <1>10, <4>1
            <4>2. CASE k # 1
                <5>1. off[k - 1] = ends[k - 1] /\ k - 1 \in 1..K
                    BY <1>2, <2>2, <4>2
                <5>2. ends[k - 1] \in Int
                    BY <1>1, <1>2, <5>1
                <5> QED
                    BY <1>2, <4>2, <5>1, <5>2
            <4> QED
                BY <4>1, <4>2
        <3>3. Size(k) = ends[k] - FirstOf(k) + 1 /\ ends[k] \in Int
            BY <1>1, <1>2 DEF Size
        <3>4. off[k] = ends[k]
            BY <3>1, <3>2, <3>3
        <3> QED
            BY <3>1, <3>4
    <2> HIDE DEF T
    <2>3. \A k \in 0..K : k \in T
        BY <1>2, <2>1, <2>2, Rounds
    <2> QED
        BY <2>3 DEF T
<1>12. off[K] = n
    BY <1>2, <1>11
<1>13. ASSUME NEW k \in 1..K PROVE off[k - 1] + 1 = FirstOf(k) /\ off[k - 1] \in Int
    <2>1. CASE k = 1
        BY <1>2, <1>10, <2>1
    <2>2. CASE k # 1
        <3>1. k - 1 \in 1..K /\ k - 1 \in 0..K
            BY <1>2, <2>2
        <3>2. off[k - 1] = ends[k - 1] /\ ends[k - 1] \in Int
            BY <1>1, <1>2, <1>11, <3>1
        <3> QED
            BY <1>2, <2>2, <3>2
    <2> QED
        BY <2>1, <2>2
<1>14. ASSUME NEW p \in 1..n PROVE IsGood(FlattenSeq(pieces)[p], batch, p)
    <2>1. \A i \in 1..off[Len(pieces)] : \E k \in 1..Len(pieces) :
            \E j \in 1..Len(pieces[k]) : i = off[k - 1] + j
        <3>1. HaveLengths(pieces) /\ Len(pieces) \in 0..Len(pieces)
            BY <1>2, <1>8 DEF HaveLengths
        <3> QED
            BY <1>9, <3>1, OffsetsFind
    <2>2. PICK k \in 1..K : \E j \in 1..Size(k) : p = off[k - 1] + j
        BY <1>6, <1>8, <1>12, <2>1
    <2>3. PICK j \in 1..Size(k) : p = off[k - 1] + j
        BY <2>2
    <2> DEFINE from == FirstOf(k)
               to == ends[k]
    <2>4. /\ IsSlice(batch, from, to) /\ j \in 1..to - from + 1 /\ from \in 1..n
        BY <1>1, <1>2 DEF IsSlice, Size, n
    <2>5. p = from + j - 1
        BY <1>13, <2>3, <2>4
    <2>6. p <= BatchSize => from = 1
        <3>1. k # 1 => BatchSize < from
            BY <1>2
        <3>2. p >= from /\ BatchSize \in Nat
            BY <2>4, <2>5, SizesAssumption
        <3>3. k = 1 => from = 1
            BY <1>2
        <3> HIDE DEF from
        <3> QED
            BY <2>4, <3>1, <3>2, <3>3
    <2>7. FlattenSeq(pieces)[p] = Made(Seen(batch, from, to), j)
        BY <1>10, <2>3
    <2> HIDE DEF from, to
    <2>8. IsGood(Made(Seen(batch, from, to), j), batch, p)
        BY <2>4, <2>5, <2>6, MadeIsGood
    <2> QED
        BY <2>7, <2>8
<1> QED
    BY <1>3, <1>8, <1>10, <1>12, <1>14 DEF n

-----------------------------------------------------------------------------
(* The theorems.                                                           *)

\* A table is batches of rows.
TableType == table \in Seq(Seq(Row))

\* A table gives a row for each of its rows, right where it is safe and with its
\* shape anywhere.
LEMMA TableRowsGood ==
    ASSUME TableType
    PROVE  FirstSliceIsExact /\ RowsKeepShape
<1> DEFINE N == Len(table)
           made == [b \in 1..N |-> BatchRows(table[b])]
           flags == [b \in 1..N |-> [i \in DOMAIN table[b] |-> IsSafe(table[b], i)]]
           rows == FlattenSeq(made)
           all == FlattenSeq(table)
           safe == FlattenSeq(flags)
<1>1. /\ N \in Nat /\ DOMAIN table = 1..N /\ table = [b \in 1..N |-> table[b]]
      /\ \A b \in 1..N : table[b] \in Seq(Row)
    <2> DEFINE V == Seq(Row)
    <2>1. table \in Seq(V)
        BY DEF TableType
    <2> HIDE DEF V
    <2>2. N \in Nat /\ DOMAIN table = 1..N /\ table \in [1..N -> V]
        BY <2>1, LenProperties
    <2> HIDE DEF N
    <2> QED
        BY <2>2 DEF V
<1>2. Rows = rows
    BY <1>1 DEF Rows
<1> HIDE DEF N
<1>3. ASSUME NEW b \in 1..N
      PROVE  /\ Len(table[b]) \in Nat /\ IsSeq(table[b])
             /\ IsSeq(made[b]) /\ Len(made[b]) = Len(table[b])
             /\ \A p \in 1..Len(table[b]) : IsGood(made[b][p], table[b], p)
             /\ IsSeq(flags[b]) /\ Len(flags[b]) = Len(table[b])
             /\ \A p \in 1..Len(table[b]) : flags[b][p] = IsSafe(table[b], p)
    <2>1. table[b] \in Seq(Row)
        BY <1>1
    <2>2. Len(table[b]) \in Nat /\ DOMAIN table[b] = 1..Len(table[b]) /\ IsSeq(table[b])
        BY <2>1, LenProperties DEF IsSeq
    <2>3. made[b] = BatchRows(table[b])
        OBVIOUS
    <2> DEFINE At(i) == IsSafe(table[b], i)
               W == {At(i) : i \in 1..Len(table[b])}
    <2>4. flags[b] = [i \in 1..Len(table[b]) |-> At(i)] /\ \A i \in 1..Len(table[b]) : At(i) \in W
        BY <2>2
    <2> HIDE DEF At, W
    <2>5. /\ [i \in 1..Len(table[b]) |-> At(i)] \in Seq(W)
          /\ Len([i \in 1..Len(table[b]) |-> At(i)]) = Len(table[b])
        BY <2>2, <2>4
    <2> HIDE DEF made, flags
    <2>6. IsSeq(flags[b]) /\ Len(flags[b]) = Len(table[b])
        BY <2>4, <2>5 DEF IsSeq
    <2>7. \A p \in 1..Len(table[b]) : flags[b][p] = IsSafe(table[b], p)
        BY <2>4 DEF At
    <2>8. /\ IsSeq(made[b]) /\ Len(made[b]) = Len(table[b])
          /\ \A p \in 1..Len(table[b]) : IsGood(made[b][p], table[b], p)
        BY <2>1, <2>3, BatchRowsGood
    <2> QED
        BY <2>2, <2>6, <2>7, <2>8
<1>4. made = [b \in 1..N |-> made[b]] /\ flags = [b \in 1..N |-> flags[b]]
    OBVIOUS
<1> HIDE DEF made, flags, rows, all, safe
<1>5. PICK off : IsOffsets(off, table) /\ LiesAt(all, table, off, N)
    BY <1>1, <1>3, Flattening DEF all
<1>6. PICK offM : IsOffsets(offM, made) /\ LiesAt(rows, made, offM, N)
    BY <1>1, <1>3, <1>4, Flattening DEF rows
<1>7. PICK offP : IsOffsets(offP, flags) /\ LiesAt(safe, flags, offP, N)
    BY <1>1, <1>3, <1>4, Flattening DEF safe
<1>8. Len(made) = N /\ Len(flags) = N /\ Len(table) = N
    BY <1>1, <1>3, <1>4, Flattening DEF N
<1>9. \A k \in 0..N : offM[k] = off[k]
    <2>1. SameLengths(made, table, N)
        BY <1>3 DEF SameLengths
    <2>2. N <= Len(made) /\ N <= Len(table) /\ Len(made) \in Nat /\ Len(table) \in Nat
        BY <1>1, <1>8
    <2> QED
        BY <1>1, <1>5, <1>6, <2>1, <2>2, OffsetsAgree
<1>10. \A k \in 0..N : offP[k] = off[k]
    <2>1. SameLengths(flags, table, N)
        BY <1>3 DEF SameLengths
    <2>2. N <= Len(flags) /\ N <= Len(table) /\ Len(flags) \in Nat /\ Len(table) \in Nat
        BY <1>1, <1>8
    <2> QED
        BY <1>1, <1>5, <1>7, <2>1, <2>2, OffsetsAgree
<1>11. IsSeq(all) /\ DOMAIN all = 1..off[N] /\ Len(all) = off[N] /\ Len(rows) = off[N]
    <2>1. IsSeq(all)
        BY <1>1, <1>3, Flattening DEF all
    <2>2. Len(all) = off[N] /\ Len(rows) = offM[N]
        BY <1>5, <1>6 DEF LiesAt
    <2>3. offM[N] = off[N]
        BY <1>1, <1>9
    <2>4. DOMAIN all = 1..Len(all)
        BY <2>1, LenProperties DEF IsSeq
    <2> QED
        BY <2>1, <2>2, <2>3, <2>4
<1>12. ASSUME NEW i \in DOMAIN all
       PROVE  /\ safe[i] => rows[i] = RowMeaning(all[i])
              /\ \A f \in Outside :
                    SameShape(f, Shown(rows[i])[f], Shown(RowMeaning(all[i]))[f])
    <2>1. \A k \in 1..off[Len(table)] : \E b \in 1..Len(table) :
            \E p \in 1..Len(table[b]) : k = off[b - 1] + p
        <3>1. HaveLengths(table) /\ Len(table) \in 0..Len(table)
            BY <1>1, <1>3, <1>8 DEF HaveLengths
        <3> QED
            BY <1>5, <3>1, OffsetsFind
    <2>2. i \in 1..off[N]
        BY <1>11
    <2>3. PICK b \in 1..N : \E p \in 1..Len(table[b]) : i = off[b - 1] + p
        BY <1>8, <2>1, <2>2
    <2>4. PICK p \in 1..Len(table[b]) : i = off[b - 1] + p
        BY <2>3
    <2>5. b - 1 \in 0..N
        BY <1>1
    <2>6. offM[b - 1] = off[b - 1] /\ offP[b - 1] = off[b - 1]
        BY <1>9, <1>10, <2>5
    <2>7. all[i] = table[b][p]
        BY <1>5, <2>4 DEF LiesAt
    <2>8. rows[i] = made[b][p]
        <3>1. p \in 1..Len(made[b])
            BY <1>3
        <3>2. rows[offM[b - 1] + p] = made[b][p]
            BY <1>6, <3>1 DEF LiesAt
        <3> QED
            BY <2>4, <2>6, <3>2
    <2>9. safe[i] = IsSafe(table[b], p)
        <3>1. p \in 1..Len(flags[b]) /\ flags[b][p] = IsSafe(table[b], p)
            BY <1>3
        <3>2. safe[offP[b - 1] + p] = flags[b][p]
            BY <1>7, <3>1 DEF LiesAt
        <3> QED
            BY <2>4, <2>6, <3>1, <3>2
    <2>10. IsGood(made[b][p], table[b], p)
        BY <1>3
    <2> QED
        BY <2>7, <2>8, <2>9, <2>10 DEF IsGood
<1>13. FirstSliceIsExact
    <2>1. safe = FlattenSeq([b \in DOMAIN table |->
                                [i \in DOMAIN table[b] |-> IsSafe(table[b], i)]])
        BY <1>1 DEF safe, flags
    <2> QED
        BY <1>2, <1>12, <2>1 DEF FirstSliceIsExact, all
<1>14. RowsKeepShape
    BY <1>2, <1>11, <1>12 DEF RowsKeepShape, all, Outside
<1> QED
    BY <1>13, <1>14

\* Every table that a device can send is batches of rows.
LEMMA TableTyped == Spec => []TableType
<1>1. Init => TableType
    <2> DEFINE V == Seq(Row)
    <2>1. <<>> \in Seq(V)
        BY EmptySeq
    <2> QED
        BY <2>1 DEF Init, TableType
<1>2. TableType /\ [Next]_table => TableType'
    <2> DEFINE V == Seq(Row)
    <2> SUFFICES ASSUME TableType, [Next]_table PROVE TableType'
        OBVIOUS
    <2>1. table \in Seq(V)
        BY DEF TableType
    <2>2. ASSUME AddBatch PROVE table' \in Seq(V)
        <3>1. <<>> \in V
            BY EmptySeq
        <3>2. table' = Append(table, <<>>)
            BY <2>2 DEF AddBatch
        <3> HIDE DEF V
        <3> QED
            BY <2>1, <3>1, <3>2, AppendProperties
    <2>3. ASSUME NEW row \in Row, AddRow(row) PROVE table' \in Seq(V)
        <3> DEFINE k == Len(table)
                   longer == Append(table[k], row)
        <3>1. table # <<>> /\ table' = [table EXCEPT ![k] = longer]
            BY <2>3 DEF AddRow
        <3>2. k \in 1..Len(table)
            <4> HIDE DEF V
            <4>1. k \in Nat /\ (k = 0 => table = <<>>)
                BY <2>1, LenProperties, EmptySeq
            <4> QED
                BY <3>1, <4>1
        <3>3. table[k] \in V
            <4> HIDE DEF V
            <4> QED
                BY <2>1, <3>2, ElementOfSeq
        <3>4. longer \in V
            BY <3>3, AppendProperties
        <3> HIDE DEF V, k, longer
        <3>5. [table EXCEPT ![k] = longer] \in Seq(V)
            BY <2>1, <3>2, <3>4, ExceptSeq
        <3> QED
            BY <3>1, <3>5
    <2> HIDE DEF V
    <2>4. table' \in Seq(V)
        BY <2>1, <2>2, <2>3 DEF Next
    <2> QED
        BY <2>4 DEF TableType, V
<1> QED
    BY <1>1, <1>2, PTL DEF Spec

\* Every row in the first slice of a batch is right up to the first null list that
\* has items, whatever is nested in what and wherever else entries are null.
THEOREM FirstSlicesAreExact == Spec => []FirstSliceIsExact
<1>1. TableType => FirstSliceIsExact
    BY TableRowsGood
<1> QED
    BY <1>1, TableTyped, PTL

\* In any slice there is one row for each row of the table, with the members it
\* should have on all levels outside lists.
THEOREM ShapeIsKept == Spec => []RowsKeepShape
<1>1. TableType => RowsKeepShape
    BY TableRowsGood
<1> QED
    BY <1>1, TableTyped, PTL

=============================================================================
