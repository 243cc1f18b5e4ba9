--------------------------- MODULE ReceivingProofs ---------------------------
(***************************************************************************)
(* DISocket implements Channel, for any devices and messages and however   *)
(* their streams are cut; the thread pool, for any number of threads and   *)
(* whatever the connections do; and the list of devices, for any           *)
(* connections and whatever their devices send.                            *)
(***************************************************************************)
EXTENDS Receiving, SequenceTheorems, FiniteSetTheorems, WellFoundedInduction, TLAPS

\* Induction, on a set of numbers.
LEMMA Induction ==
    ASSUME NEW S, 0 \in S, \A n \in Nat : n \in S => n + 1 \in S
    PROVE  \A n \in Nat : n \in S
<1> DEFINE T == Nat \ S
           R == OpToRel(<, Nat)
<1> SUFFICES ASSUME T # {} PROVE FALSE
    OBVIOUS
<1> HIDE DEF R
<1>1. IsWellFoundedOn(R, Nat)
    BY NatLessThanWellFounded DEF R
<1>2. T \subseteq Nat
    OBVIOUS
<1>3. PICK x \in T : \A y \in T : ~ (<<y, x>> \in R)
    <2> HIDE DEF T
    <2> QED
        BY <1>1, <1>2, WFMin
<1>4. \A y \in T : ~(y < x)
    BY <1>3 DEF OpToRel, R
<1>5. x \in Nat /\ x \notin S /\ x # 0
    BY <1>3
<1>6. x - 1 \in Nat /\ (x - 1) + 1 = x /\ x - 1 < x
    BY <1>5
<1>7. x - 1 \in S
    BY <1>4, <1>6
<1> QED
    BY <1>5, <1>6, <1>7

\* A set of numbers from 1 to n with all that is below its members.
LEMMA Segment ==
    ASSUME NEW n \in Nat, NEW S \in SUBSET (1..n), \A i \in S : 1..i \subseteq S
    PROVE  Cardinality(S) \in 0..n /\ S = 1..Cardinality(S)
<1> DEFINE P == {m \in Nat : m <= n => \E k \in 0..m : S \cap (1..m) = 1..k}
<1>1. 0 \in P
    <2>1. S \cap (1..0) = 1..0
        OBVIOUS
    <2> QED
        BY <2>1
<1>2. ASSUME NEW m \in Nat, m \in P PROVE m + 1 \in P
    <2> SUFFICES ASSUME m + 1 <= n
                 PROVE  \E k \in 0..m + 1 : S \cap (1..m + 1) = 1..k
        OBVIOUS
    <2>1. CASE m + 1 \in S
        <3>1. 1..m + 1 \subseteq S
            BY <2>1
        <3> QED
            BY <3>1
    <2>2. CASE m + 1 \notin S
        <3>1. S \cap (1..m + 1) = S \cap (1..m)
            BY <2>2
        <3>2. PICK k \in 0..m : S \cap (1..m) = 1..k
            BY <1>2
        <3> QED
            BY <3>1, <3>2
    <2> QED
        BY <2>1, <2>2
<1>3. n \in P
    <2> HIDE DEF P
    <2> QED
        BY <1>1, <1>2, Induction
<1>4. PICK k \in 0..n : S \cap (1..n) = 1..k
    BY <1>3
<1>5. S = 1..k
    BY <1>4
<1>6. Cardinality(1..k) = k
    BY FS_Interval
<1> QED
    BY <1>5, <1>6

\* Two sequences in a row.
LEMMA Joined ==
    ASSUME NEW S, NEW a \in Seq(S), NEW b \in Seq(S)
    PROVE  /\ Len(a \o b) = Len(a) + Len(b)
           /\ \A i \in 1..Len(a) : (a \o b)[i] = a[i]
           /\ \A i \in 1..Len(b) : (a \o b)[Len(a) + i] = b[i]
<1>1. Len(a) \in Nat /\ Len(b) \in Nat
    OBVIOUS
<1>2. /\ Len(a \o b) = Len(a) + Len(b)
      /\ \A i \in 1..Len(a) + Len(b) :
            (a \o b)[i] = IF i <= Len(a) THEN a[i] ELSE b[i - Len(a)]
    BY ConcatProperties
<1>3. ASSUME NEW i \in 1..Len(b) PROVE (a \o b)[Len(a) + i] = b[i]
    <2>1. Len(a) + i \in 1..Len(a) + Len(b) /\ ~(Len(a) + i <= Len(a)) /\ (Len(a) + i) - Len(a) = i
        BY <1>1
    <2> QED
        BY <1>2, <2>1
<1> QED
    BY <1>1, <1>2, <1>3

-----------------------------------------------------------------------------
(* The stream of a device.                                                 *)

Cell == [of : Message, at : Nat]

\* Length of a message.
Width(m) == HeaderSize + Size[m]

\* What the stream is after n messages, from what it was before.
Extended(s, stream, n) ==
    IF n = 0 THEN <<>> ELSE stream[n - 1] \o Cells[Script[s][n]]

\* Stream is what its recursive definition says.
LEMMA StreamDefined ==
    ASSUME NEW s \in Socket
    PROVE  Stream[s] = [n \in 0..Len(Script[s]) |-> Extended(s, Stream[s], n)]
<1> DEFINE Defined(m) == \E f : f = [n \in 0..m |-> Extended(s, f, n)]
           P == {m \in Nat : Defined(m)}
<1>1. 0 \in P
    <2> DEFINE f == [n \in 0..0 |-> <<>>]
    <2>1. f = [n \in 0..0 |-> Extended(s, f, n)]
        BY DEF Extended
    <2> QED
        BY <2>1
<1>2. ASSUME NEW m \in Nat, m \in P PROVE m + 1 \in P
    <2>1. PICK f : f = [n \in 0..m |-> Extended(s, f, n)]
        BY <1>2
    <2> DEFINE g == [n \in 0..m + 1 |-> IF n = m + 1 THEN Extended(s, f, n) ELSE f[n]]
    <2>2. ASSUME NEW n \in 0..m + 1 PROVE g[n] = Extended(s, g, n)
        <3>1. CASE n = 0
            BY <2>1, <3>1 DEF Extended
        <3>2. CASE n # 0
            <4>1. n - 1 \in 0..m /\ g[n - 1] = f[n - 1]
                BY <3>2
            <4>2. g[n] = Extended(s, f, n)
                BY <2>1
            <4> QED
                BY <3>2, <4>1, <4>2 DEF Extended
        <3> QED
            BY <3>1, <3>2
    <2>3. g = [n \in 0..m + 1 |-> Extended(s, g, n)]
        BY <2>2
    <2> HIDE DEF g
    <2> QED
        BY <2>3
<1>3. Len(Script[s]) \in Nat
    BY StreamAssumption
<1>4. Defined(Len(Script[s]))
    <2>1. Len(Script[s]) \in P
        <3> HIDE DEF P
        <3> QED
            BY <1>1, <1>2, <1>3, Induction
    <2> QED
        BY <2>1
<1>5. Stream[s] = CHOOSE f : f = [n \in 0..Len(Script[s]) |-> Extended(s, f, n)]
    BY DEF Stream, Extended
<1> QED
    BY <1>4, <1>5

\* Each message adds its cells at the end.
LEMMA StreamGrows ==
    ASSUME NEW s \in Socket, NEW n \in 0..Len(Script[s])
    PROVE  /\ Stream[s][n] \in Seq(Cell)
           /\ End[s][n] = Len(Stream[s][n]) /\ End[s][n] \in Nat
           /\ n = 0 => End[s][n] = 0
           /\ n # 0 =>
                /\ Script[s][n] \in Message
                /\ Stream[s][n - 1] \in Seq(Cell) /\ End[s][n - 1] \in Nat
                /\ End[s][n] = End[s][n - 1] + Width(Script[s][n])
                /\ \A i \in 1..End[s][n - 1] : Stream[s][n][i] = Stream[s][n - 1][i]
                /\ \A i \in 1..Width(Script[s][n]) :
                    Stream[s][n][End[s][n - 1] + i] = [of |-> Script[s][n], at |-> i]
<1> DEFINE N == Len(Script[s])
<1>1. N \in Nat /\ \A m \in 1..N : Script[s][m] \in Message
    BY StreamAssumption
<1>2. /\ Stream[s][0] = <<>>
      /\ \A m \in 1..N : Stream[s][m] = Stream[s][m - 1] \o Cells[Script[s][m]]
    <2>1. \A m \in 0..N : Stream[s][m] = Extended(s, Stream[s], m)
        <3>1. Stream[s] = [m \in 0..N |-> Extended(s, Stream[s], m)]
            BY StreamDefined
        <3> QED
            BY <3>1
    <2>2. Stream[s][0] = <<>>
        BY <1>1, <2>1 DEF Extended
    <2>3. ASSUME NEW m \in 1..N
          PROVE  Stream[s][m] = Stream[s][m - 1] \o Cells[Script[s][m]]
        <3>1. m \in 0..N /\ m # 0
            BY <1>1
        <3> QED
            BY <2>1, <3>1 DEF Extended
    <2> QED
        BY <2>2, <2>3
<1>3. \A m \in Message :
        /\ Width(m) \in Nat /\ Cells[m] \in Seq(Cell) /\ Len(Cells[m]) = Width(m)
        /\ \A i \in 1..Width(m) : Cells[m][i] = [of |-> m, at |-> i]
    <2> TAKE m \in Message
    <2>1. Width(m) \in Nat
        BY StreamAssumption DEF Width
    <2>2. Cells[m] = [i \in 1..Width(m) |-> [of |-> m, at |-> i]]
        BY DEF Cells, Width
    <2>3. \A i \in 1..Width(m) : [of |-> m, at |-> i] \in Cell
        BY DEF Cell
    <2> QED
        BY <2>1, <2>2, <2>3
<1> DEFINE P == {m \in Nat : m <= N => Stream[s][m] \in Seq(Cell)}
<1>4. 0 \in P
    BY <1>2, EmptySeq
<1>5. ASSUME NEW m \in Nat, m \in P PROVE m + 1 \in P
    <2> SUFFICES ASSUME m + 1 <= N PROVE Stream[s][m + 1] \in Seq(Cell)
        OBVIOUS
    <2>1. Stream[s][m] \in Seq(Cell) /\ Script[s][m + 1] \in Message
        BY <1>1, <1>5
    <2>2. Stream[s][m + 1] = Stream[s][m] \o Cells[Script[s][m + 1]]
        <3>1. m + 1 \in 1..N /\ (m + 1) - 1 = m
            BY <1>1
        <3>2. Stream[s][m + 1] = Stream[s][(m + 1) - 1] \o Cells[Script[s][m + 1]]
            BY <1>2, <3>1
        <3> QED
            BY <3>1, <3>2
    <2> QED
        BY <1>3, <2>1, <2>2, ConcatProperties
<1>6. \A m \in 0..N : Stream[s][m] \in Seq(Cell)
    <2>1. \A m \in Nat : m \in P
        <3> HIDE DEF P
        <3> QED
            BY <1>4, <1>5, Induction
    <2> QED
        BY <2>1
<1>7. \A m \in 0..N : End[s][m] = Len(Stream[s][m]) /\ End[s][m] \in Nat
    BY <1>6 DEF End
<1>8. ASSUME n # 0
      PROVE  /\ Script[s][n] \in Message
             /\ Stream[s][n - 1] \in Seq(Cell) /\ End[s][n - 1] \in Nat
             /\ End[s][n] = End[s][n - 1] + Width(Script[s][n])
             /\ \A i \in 1..End[s][n - 1] : Stream[s][n][i] = Stream[s][n - 1][i]
             /\ \A i \in 1..Width(Script[s][n]) :
                 Stream[s][n][End[s][n - 1] + i] = [of |-> Script[s][n], at |-> i]
    <2> DEFINE old == Stream[s][n - 1]
               more == Cells[Script[s][n]]
    <2>1. n - 1 \in 0..N /\ n \in 1..N /\ Script[s][n] \in Message
        BY <1>1, <1>8
    <2>2. /\ old \in Seq(Cell) /\ Len(old) = End[s][n - 1] /\ Len(old) \in Nat
          /\ Stream[s][n] = old \o more /\ End[s][n] = Len(Stream[s][n])
        BY <1>2, <1>6, <1>7, <2>1
    <2>3. /\ more \in Seq(Cell) /\ Len(more) = Width(Script[s][n]) /\ Len(more) \in Nat
          /\ \A i \in 1..Len(more) : more[i] = [of |-> Script[s][n], at |-> i]
        BY <1>3, <2>1
    <2> HIDE DEF old, more
    <2>4. /\ Len(old \o more) = Len(old) + Len(more)
          /\ \A i \in 1..Len(old) : (old \o more)[i] = old[i]
          /\ \A i \in 1..Len(more) : (old \o more)[Len(old) + i] = more[i]
        <3>1. old \in Seq(Cell) /\ more \in Seq(Cell)
            BY <2>2, <2>3
        <3> QED
            BY <3>1, Joined
    <2> QED
        BY <2>1, <2>2, <2>3, <2>4 DEF old
<1> QED
    BY <1>2, <1>6, <1>7, <1>8

\* The whole stream, message by message.
LEMMA StreamLayout ==
    ASSUME NEW s \in Socket
    PROVE  LET N == Len(Script[s])
           IN  /\ N \in Nat /\ DOMAIN Script[s] = 1..N
               /\ Whole(s) \in Seq(Cell) /\ Len(Whole(s)) = End[s][N]
               /\ \A n \in 0..N : End[s][n] \in Nat
               /\ End[s][0] = 0
               /\ \A n \in 1..N :
                    /\ Script[s][n] \in Message /\ Width(Script[s][n]) \in Nat \ {0}
                    /\ End[s][n] = End[s][n - 1] + Width(Script[s][n])
                    /\ \A i \in 1..Width(Script[s][n]) :
                        Whole(s)[End[s][n - 1] + i] = [of |-> Script[s][n], at |-> i]
               /\ \A m, n \in 0..N : m <= n => End[s][m] <= End[s][n]
               /\ \A m, n \in 0..N : m < n => End[s][m] < End[s][n]
<1> DEFINE N == Len(Script[s])
<1>1. N \in Nat /\ DOMAIN Script[s] = 1..N
    BY StreamAssumption
<1>2. /\ \A n \in 0..N : Stream[s][n] \in Seq(Cell) /\ End[s][n] = Len(Stream[s][n])
      /\ \A n \in 0..N : End[s][n] \in Nat
      /\ End[s][0] = 0
    BY <1>1, StreamGrows
<1>3. \A n \in 1..N :
        /\ n - 1 \in 0..N /\ n \in 0..N /\ n # 0
        /\ Script[s][n] \in Message /\ Width(Script[s][n]) \in Nat \ {0}
        /\ End[s][n] = End[s][n - 1] + Width(Script[s][n])
        /\ \A i \in 1..End[s][n - 1] : Stream[s][n][i] = Stream[s][n - 1][i]
        /\ \A i \in 1..Width(Script[s][n]) :
            Stream[s][n][End[s][n - 1] + i] = [of |-> Script[s][n], at |-> i]
    <2> TAKE n \in 1..N
    <2>1. n - 1 \in 0..N /\ n \in 0..N /\ n # 0
        BY <1>1
    <2>2. /\ Script[s][n] \in Message
          /\ End[s][n] = End[s][n - 1] + Width(Script[s][n])
          /\ \A i \in 1..End[s][n - 1] : Stream[s][n][i] = Stream[s][n - 1][i]
          /\ \A i \in 1..Width(Script[s][n]) :
              Stream[s][n][End[s][n - 1] + i] = [of |-> Script[s][n], at |-> i]
        BY <2>1, StreamGrows
    <2>3. Width(Script[s][n]) \in Nat \ {0}
        BY <2>2, StreamAssumption DEF Width
    <2> QED
        BY <2>1, <2>2, <2>3
<1>4. \A d \in Nat : \A m \in 0..N : m + d <= N =>
        /\ End[s][m] + d <= End[s][m + d]
        /\ \A i \in 1..End[s][m] : Stream[s][m + d][i] = Stream[s][m][i]
    <2> DEFINE P == {d \in Nat : \A m \in 0..N : m + d <= N =>
                        /\ End[s][m] + d <= End[s][m + d]
                        /\ \A i \in 1..End[s][m] : Stream[s][m + d][i] = Stream[s][m][i]}
    <2>1. 0 \in P
        BY <1>1, <1>2
    <2>2. ASSUME NEW d \in Nat, d \in P PROVE d + 1 \in P
        <3> SUFFICES ASSUME NEW m \in 0..N, m + (d + 1) <= N
                     PROVE  /\ End[s][m] + (d + 1) <= End[s][m + (d + 1)]
                            /\ \A i \in 1..End[s][m] : Stream[s][m + (d + 1)][i] = Stream[s][m][i]
            OBVIOUS
        <3>1. /\ m + d \in 0..N /\ m + (d + 1) \in 1..N /\ (m + (d + 1)) - 1 = m + d
              /\ End[s][m] \in Nat /\ End[s][m + d] \in Nat
            BY <1>1, <1>2
        <3>2. /\ End[s][m] + d <= End[s][m + d]
              /\ \A i \in 1..End[s][m] : Stream[s][m + d][i] = Stream[s][m][i]
            BY <2>2, <3>1
        <3>3. /\ End[s][m + (d + 1)] = End[s][m + d] + Width(Script[s][m + (d + 1)])
              /\ Width(Script[s][m + (d + 1)]) \in Nat \ {0}
              /\ \A i \in 1..End[s][m + d] : Stream[s][m + (d + 1)][i] = Stream[s][m + d][i]
            BY <1>3, <3>1
        <3>4. End[s][m] + (d + 1) <= End[s][m + (d + 1)]
            BY <3>1, <3>2, <3>3
        <3>5. \A i \in 1..End[s][m] : i \in 1..End[s][m + d]
            BY <3>1, <3>2
        <3> QED
            BY <3>2, <3>3, <3>4, <3>5
    <2> QED
        <3>1. \A d \in Nat : d \in P
            <4> HIDE DEF P
            <4> QED
                BY <2>1, <2>2, Induction
        <3> QED
            BY <3>1
<1>5. ASSUME NEW m \in 0..N, NEW n \in 0..N, m <= n
      PROVE  /\ End[s][m] + (n - m) <= End[s][n]
             /\ \A i \in 1..End[s][m] : Stream[s][n][i] = Stream[s][m][i]
    <2>1. n - m \in Nat /\ m + (n - m) = n
        BY <1>1, <1>5
    <2>2. /\ End[s][m] + (n - m) <= End[s][m + (n - m)]
          /\ \A i \in 1..End[s][m] : Stream[s][m + (n - m)][i] = Stream[s][m][i]
        <3>1. m + (n - m) <= N
            BY <1>1, <2>1
        <3> HIDE DEF N
        <3> QED
            BY <1>4, <2>1, <3>1
    <2> QED
        BY <2>1, <2>2
<1>6. ASSUME NEW m \in 0..N, NEW n \in 0..N
      PROVE  /\ m <= n => End[s][m] <= End[s][n]
             /\ m < n => End[s][m] < End[s][n]
    <2>1. End[s][m] \in Nat /\ End[s][n] \in Nat /\ m \in Nat /\ n \in Nat
        BY <1>1, <1>2
    <2>2. m <= n => End[s][m] + (n - m) <= End[s][n]
        BY <1>5
    <2> QED
        BY <2>1, <2>2
<1>7. ASSUME NEW n \in 1..N, NEW i \in 1..Width(Script[s][n])
      PROVE  Whole(s)[End[s][n - 1] + i] = [of |-> Script[s][n], at |-> i]
    <2>1. n \in 0..N /\ n - 1 \in 0..N /\ N \in 0..N /\ n <= N
        BY <1>1
    <2>2. /\ End[s][n - 1] \in Nat
          /\ End[s][n] = End[s][n - 1] + Width(Script[s][n]) /\ Width(Script[s][n]) \in Nat
          /\ Stream[s][n][End[s][n - 1] + i] = [of |-> Script[s][n], at |-> i]
        BY <1>2, <1>3, <2>1
    <2>3. End[s][n - 1] + i \in 1..End[s][n]
        BY <2>2
    <2>4. Stream[s][N][End[s][n - 1] + i] = Stream[s][n][End[s][n - 1] + i]
        BY <1>5, <2>1, <2>3
    <2> QED
        BY <2>2, <2>4 DEF Whole
<1>8. Whole(s) \in Seq(Cell) /\ Len(Whole(s)) = End[s][N]
    BY <1>1, <1>2 DEF Whole
<1> QED
    BY <1>1, <1>2, <1>3, <1>6, <1>7, <1>8

-----------------------------------------------------------------------------
(* Where the cells of a stream are.                                        *)

SocketType ==
    /\ outgoing \in [Socket -> Seq(Cell)]
    /\ wire \in [Socket -> Seq(Cell)]
    /\ ended \in [Socket -> BOOLEAN]
    /\ reading \in [Socket -> {"closed", "header", "body", "callback", "failed", "done"}]
    /\ got \in [Socket -> Seq(Cell)]
    /\ delivered \in [Socket -> Seq(Seq(Cell))]

\* A piece of the stream of s, after so many cells.
Piece(s, after, cells) == \A i \in 1..Len(cells) : cells[i] = Whole(s)[after + i]

\* How many cells the proxy has read.
Read(s) ==
    End[s][Len(delivered[s])] + (IF Waiting(s) THEN Len(got[s]) ELSE 0)

\* What was delivered are the first messages of the script.  What is being
\* read, what is on the wire and what is outgoing follow in the stream, in this
\* order and without a gap, until the stream ends.
Line(s) ==
    /\ Len(delivered[s]) <= Len(Script[s])
    /\ \A n \in 1..Len(delivered[s]) : delivered[s][n] = Cells[Script[s][n]]
    /\ Sent(s) >= 0
    /\ Piece(s, Sent(s), outgoing[s])
    /\ reading[s] \in {"closed", "header", "body", "callback"} =>
        /\ Read(s) <= Sent(s)
        /\ Piece(s, Read(s), wire[s])
        /\ Read(s) + Len(wire[s]) = Sent(s) \/ (ended[s] /\ wire[s] = <<>>)
    /\ Waiting(s) => Piece(s, End[s][Len(delivered[s])], got[s])
    /\ reading[s] = "header" => Len(got[s]) <= HeaderSize
    /\ reading[s] = "body" =>
        /\ HeaderSize <= Len(got[s])
        /\ Len(got[s]) <= HeaderSize + PayloadSize(s)

SocketInv == SocketType /\ \A s \in Socket : Line(s)

\* The numbers in Line.
LEMMA LineNumbers ==
    ASSUME SocketType, NEW s \in Socket, Len(delivered[s]) <= Len(Script[s])
    PROVE  LET k == Len(delivered[s])
           IN  /\ k \in Nat /\ k \in 0..Len(Script[s]) /\ End[s][k] \in Nat
               /\ Len(got[s]) \in Nat /\ Len(wire[s]) \in Nat /\ Len(outgoing[s]) \in Nat
               /\ Sent(s) \in Int /\ Read(s) \in Nat
               /\ HeaderSize \in Nat \ {0}
<1> DEFINE k == Len(delivered[s])
<1>1. k \in Nat /\ Len(got[s]) \in Nat /\ Len(wire[s]) \in Nat /\ Len(outgoing[s]) \in Nat
    BY DEF SocketType
<1>2. /\ Len(Script[s]) \in Nat
      /\ \A n \in 0..Len(Script[s]) : End[s][n] \in Nat
    BY StreamLayout
<1>3. k \in 0..Len(Script[s]) /\ Len(Script[s]) \in 0..Len(Script[s])
    BY <1>1, <1>2
<1>4. End[s][k] \in Nat /\ End[s][Len(Script[s])] \in Nat
    BY <1>2, <1>3
<1>5. Sent(s) \in Int
    BY <1>1, <1>4 DEF Sent
<1>6. Read(s) \in Nat
    BY <1>1, <1>4 DEF Read
<1> QED
    BY <1>1, <1>3, <1>4, <1>5, <1>6, StreamAssumption

\* What has been read of a message are its first cells, so the length in its
\* header is that of the message.
LEMMA BeingRead ==
    ASSUME SocketType, NEW s \in Socket, Line(s), Waiting(s), got[s] # <<>>
    PROVE  LET k == Len(delivered[s])
               m == Script[s][k + 1]
           IN  /\ k + 1 \in 1..Len(Script[s]) /\ m \in Message
               /\ Size[m] \in Nat /\ Width(m) = HeaderSize + Size[m]
               /\ Len(got[s]) <= Width(m)
               /\ \A i \in 1..Len(got[s]) : got[s][i] = [of |-> m, at |-> i]
               /\ HeaderSize <= Len(got[s]) => PayloadSize(s) = Size[m]
<1> DEFINE k == Len(delivered[s])
           m == Script[s][k + 1]
           N == Len(Script[s])
<1>1. /\ k \in Nat /\ k \in 0..N /\ End[s][k] \in Nat /\ Len(got[s]) \in Nat
      /\ Len(outgoing[s]) \in Nat /\ HeaderSize \in Nat \ {0}
    BY LineNumbers DEF Line
<1>2. Len(got[s]) # 0
    BY EmptySeq DEF SocketType
<1>3. /\ N \in Nat /\ \A n \in 0..N : End[s][n] \in Nat
      /\ \A n \in 1..N :
            /\ Script[s][n] \in Message /\ Width(Script[s][n]) \in Nat \ {0}
            /\ End[s][n] = End[s][n - 1] + Width(Script[s][n])
            /\ \A i \in 1..Width(Script[s][n]) :
                Whole(s)[End[s][n - 1] + i] = [of |-> Script[s][n], at |-> i]
    BY StreamLayout
<1>4. k # N
    <2>1. End[s][k] + Len(got[s]) <= Sent(s)
        BY DEF Line, Read, Waiting
    <2>2. Sent(s) = End[s][N] - Len(outgoing[s]) /\ End[s][N] \in Nat
        BY <1>1, <1>3 DEF Sent
    <2>3. End[s][k] < End[s][N]
        BY <1>1, <1>2, <2>1, <2>2
    <2> QED
        BY <1>1, <2>3
<1>5. k + 1 \in 1..N /\ (k + 1) - 1 = k
    BY <1>1, <1>3, <1>4
<1>6. /\ m \in Message
      /\ \A i \in 1..Width(m) : Whole(s)[End[s][k] + i] = [of |-> m, at |-> i]
    BY <1>3, <1>5
<1>7. Size[m] \in Nat /\ Width(m) = HeaderSize + Size[m]
    BY <1>6, StreamAssumption DEF Width
<1> HIDE DEF m, k
<1>8. \A i \in 1..Len(got[s]) : got[s][i] = Whole(s)[End[s][k] + i]
    BY DEF Line, Piece, k
<1>9. \A i \in 1..Len(got[s]) : i <= Width(m) => got[s][i] = [of |-> m, at |-> i]
    BY <1>1, <1>6, <1>7, <1>8
<1>10. ASSUME HeaderSize <= Len(got[s]) PROVE PayloadSize(s) = Size[m]
    <2>1. HeaderSize \in 1..Len(got[s]) /\ HeaderSize <= Width(m)
        BY <1>1, <1>7, <1>10
    <2>2. got[s][HeaderSize] = [of |-> m, at |-> HeaderSize]
        BY <1>9, <2>1
    <2> QED
        BY <2>2 DEF PayloadSize
<1>11. Len(got[s]) <= Width(m)
    <2>1. CASE reading[s] = "header"
        BY <1>1, <1>7, <2>1 DEF Line
    <2>2. CASE reading[s] = "body"
        <3>1. HeaderSize <= Len(got[s]) /\ Len(got[s]) <= HeaderSize + PayloadSize(s)
            BY <2>2 DEF Line
        <3> QED
            BY <1>7, <1>10, <3>1
    <2> QED
        BY <2>1, <2>2 DEF Waiting
<1>12. \A i \in 1..Len(got[s]) : i <= Width(m)
    BY <1>1, <1>7, <1>11
<1> QED
    BY <1>5, <1>6, <1>7, <1>9, <1>10, <1>11, <1>12 DEF m, k

\* A complete message is the next of the script.
LEMMA Completed ==
    ASSUME SocketType, NEW s \in Socket, Line(s), Waiting(s), Len(got[s]) = Needed(s),
           reading[s] = "header" => PayloadSize(s) = 0
    PROVE  LET k == Len(delivered[s])
           IN  /\ k + 1 \in 1..Len(Script[s])
               /\ got[s] = Cells[Script[s][k + 1]]
               /\ Len(got[s]) = Width(Script[s][k + 1])
<1> DEFINE k == Len(delivered[s])
           m == Script[s][k + 1]
<1>1. Len(got[s]) \in Nat /\ HeaderSize \in Nat \ {0}
    BY LineNumbers DEF Line
<1>2. HeaderSize <= Len(got[s])
    BY <1>1 DEF Line, Waiting, Needed
<1>3. got[s] # <<>>
    BY <1>1, <1>2, EmptySeq
<1>4. /\ k + 1 \in 1..Len(Script[s]) /\ m \in Message
      /\ Size[m] \in Nat /\ Width(m) = HeaderSize + Size[m]
      /\ \A i \in 1..Len(got[s]) : got[s][i] = [of |-> m, at |-> i]
      /\ PayloadSize(s) = Size[m]
    BY <1>2, <1>3, BeingRead
<1> HIDE DEF m
<1>5. Len(got[s]) = Width(m)
    BY <1>1, <1>4 DEF Waiting, Needed, BodyLength
<1>6. got[s] = [i \in 1..Width(m) |-> [of |-> m, at |-> i]]
    <2>1. got[s] = [i \in 1..Len(got[s]) |-> got[s][i]]
        BY DEF SocketType
    <2> QED
        BY <1>4, <1>5, <2>1
<1>7. Cells[m] = [i \in 1..Width(m) |-> [of |-> m, at |-> i]]
    BY <1>4 DEF Cells, Width
<1> QED
    BY <1>4, <1>5, <1>6, <1>7 DEF m

\* Nothing of this concerns another connection than the one that moves.
LEMMA LineLocal ==
    ASSUME NEW s \in Socket, Line(s),
           outgoing'[s] = outgoing[s], wire'[s] = wire[s], ended'[s] = ended[s],
           reading'[s] = reading[s], got'[s] = got[s], delivered'[s] = delivered[s]
    PROVE  Line(s)'
BY DEF Line, Piece, Sent, Read, Waiting, PayloadSize

-----------------------------------------------------------------------------
(* The steps of a connection.                                              *)

\* Taking the first cell of a sequence.
LEMMA TailPiece ==
    ASSUME NEW s \in Socket, NEW after \in Int, NEW cells \in Seq(Cell), cells # <<>>,
           Piece(s, after, cells)
    PROVE  /\ Head(cells) \in Cell /\ Tail(cells) \in Seq(Cell)
           /\ Len(cells) \in Nat \ {0} /\ Len(Tail(cells)) = Len(cells) - 1
           /\ Head(cells) = Whole(s)[after + 1]
           /\ Piece(s, after + 1, Tail(cells))
<1>1. Len(cells) \in Nat \ {0}
    BY EmptySeq
<1>2. /\ Head(cells) \in Cell /\ Tail(cells) \in Seq(Cell) /\ Len(Tail(cells)) = Len(cells) - 1
      /\ \A i \in 1..Len(Tail(cells)) : Tail(cells)[i] = cells[i + 1]
    BY HeadTailProperties
<1>3. Head(cells) = cells[1] /\ 1 \in 1..Len(cells)
    BY <1>1
<1>4. ASSUME NEW i \in 1..Len(Tail(cells)) PROVE Tail(cells)[i] = Whole(s)[(after + 1) + i]
    <2>1. i + 1 \in 1..Len(cells) /\ after + (i + 1) = (after + 1) + i
        BY <1>1, <1>2
    <2>2. cells[i + 1] = Whole(s)[after + (i + 1)]
        BY <2>1 DEF Piece
    <2> QED
        BY <1>2, <2>1, <2>2
<1> QED
    BY <1>1, <1>2, <1>3, <1>4 DEF Piece

\* Adding the next cell to a sequence.
LEMMA AppendPiece ==
    ASSUME NEW s \in Socket, NEW after \in Int, NEW cells \in Seq(Cell), NEW cell \in Cell,
           Piece(s, after, cells), cell = Whole(s)[(after + Len(cells)) + 1]
    PROVE  /\ Append(cells, cell) \in Seq(Cell) /\ Len(cells) \in Nat
           /\ Len(Append(cells, cell)) = Len(cells) + 1
           /\ \A i \in 1..Len(cells) : Append(cells, cell)[i] = cells[i]
           /\ Piece(s, after, Append(cells, cell))
<1>1. /\ Append(cells, cell) \in Seq(Cell) /\ Len(cells) \in Nat
      /\ Len(Append(cells, cell)) = Len(cells) + 1
      /\ \A i \in 1..Len(cells) : Append(cells, cell)[i] = cells[i]
      /\ Append(cells, cell)[Len(cells) + 1] = cell
    BY AppendProperties
<1>2. ASSUME NEW i \in 1..Len(cells) + 1 PROVE Append(cells, cell)[i] = Whole(s)[after + i]
    <2>1. CASE i \in 1..Len(cells)
        BY <1>1, <2>1 DEF Piece
    <2>2. CASE i = Len(cells) + 1
        <3>1. after + i = (after + Len(cells)) + 1
            BY <1>1, <2>2
        <3> QED
            BY <1>1, <2>2, <3>1
    <2> QED
        BY <1>1, <2>1, <2>2
<1> QED
    BY <1>1, <1>2 DEF Piece

\* A cell goes from the device to the wire.
LEMMA SendKeeps ==
    ASSUME SocketInv, NEW s \in Socket, SendCell(s)
    PROVE  SocketType' /\ Line(s)' /\ Sent(s)' = Sent(s) + 1 /\ Sent(s) \in Nat
<1>1. SocketType /\ Line(s)
    BY DEF SocketInv
<1>2. /\ Len(delivered[s]) <= Len(Script[s]) /\ Len(wire[s]) \in Nat
      /\ Sent(s) \in Int /\ Sent(s) >= 0 /\ Read(s) \in Nat /\ Len(outgoing[s]) \in Nat
    BY <1>1, LineNumbers DEF Line
<1>3. /\ ~ended[s] /\ reading[s] # "closed" /\ outgoing[s] # <<>>
      /\ outgoing' = [outgoing EXCEPT ![s] = Tail(@)]
      /\ wire' = [wire EXCEPT ![s] = Append(@, Head(outgoing[s]))]
      /\ ended' = ended /\ reading' = reading /\ got' = got /\ delivered' = delivered
    BY DEF SendCell
<1>4. /\ outgoing'[s] = Tail(outgoing[s]) /\ outgoing[s] \in Seq(Cell)
      /\ wire'[s] = Append(wire[s], Head(outgoing[s])) /\ wire[s] \in Seq(Cell)
    BY <1>1, <1>3 DEF SocketType
<1>5. Piece(s, Sent(s), outgoing[s])
    BY <1>1 DEF Line
<1>6. /\ Head(outgoing[s]) \in Cell /\ Tail(outgoing[s]) \in Seq(Cell)
      /\ Len(outgoing[s]) \in Nat \ {0}
      /\ Len(Tail(outgoing[s])) = Len(outgoing[s]) - 1
      /\ Head(outgoing[s]) = Whole(s)[Sent(s) + 1]
      /\ Piece(s, Sent(s) + 1, Tail(outgoing[s]))
    BY <1>2, <1>3, <1>4, <1>5, TailPiece
<1>7. /\ wire'[s] \in Seq(Cell)
      /\ wire' = [wire EXCEPT ![s] = wire'[s]]
      /\ Len(wire'[s]) = Len(wire[s]) + 1
    BY <1>1, <1>3, <1>4, <1>6, AppendProperties DEF SocketType
<1>8. SocketType'
    BY <1>1, <1>3, <1>6, <1>7 DEF SocketType
<1>9. Sent(s)' = Sent(s) + 1
    <2>1. End[s][Len(Script[s])] \in Nat
        BY StreamLayout
    <2>2. Sent(s)' = End[s][Len(Script[s])] - (Len(outgoing[s]) - 1)
        BY <1>4, <1>6 DEF Sent
    <2> QED
        BY <1>2, <2>1, <2>2 DEF Sent
<1>10. Read(s)' = Read(s) /\ Waiting(s)' = Waiting(s) /\ PayloadSize(s)' = PayloadSize(s)
    BY <1>3 DEF Read, Waiting, PayloadSize
<1>11. Piece(s, Sent(s), outgoing[s])'
    BY <1>4, <1>6, <1>9 DEF Piece
<1>12. ASSUME reading[s] \in {"header", "body", "callback"}
       PROVE  /\ Read(s)' <= Sent(s)'
              /\ Piece(s, Read(s), wire[s])'
              /\ (Read(s) + Len(wire[s]))' = Sent(s)'
    <2>1. /\ Read(s) <= Sent(s) /\ Piece(s, Read(s), wire[s])
          /\ Read(s) + Len(wire[s]) = Sent(s)
        BY <1>1, <1>3, <1>12 DEF Line
    <2>2. Head(outgoing[s]) = Whole(s)[(Read(s) + Len(wire[s])) + 1]
        BY <1>6, <2>1
    <2>3. Piece(s, Read(s), Append(wire[s], Head(outgoing[s])))
        BY <1>2, <1>4, <1>6, <2>1, <2>2, AppendPiece
    <2>4. Piece(s, Read(s), wire[s])'
        BY <1>4, <1>10, <2>3 DEF Piece
    <2> QED
        BY <1>2, <1>7, <1>9, <1>10, <2>1, <2>4
<1>13. Line(s)'
    BY <1>1, <1>2, <1>3, <1>9, <1>10, <1>11, <1>12 DEF Line, Piece
<1> QED
    BY <1>2, <1>8, <1>9, <1>13

\* The stream ends.
LEMMA EndKeeps ==
    ASSUME SocketInv, NEW s \in Socket, EndOfStream(s)
    PROVE  SocketType' /\ Line(s)'
<1>1. SocketType /\ Line(s)
    BY DEF SocketInv
<1>2. /\ Len(delivered[s]) <= Len(Script[s])
      /\ Sent(s) \in Int /\ Read(s) \in Nat
    BY <1>1, LineNumbers DEF Line
<1>3. PICK rest \in {wire[s], <<>>} :
        /\ ended' = [ended EXCEPT ![s] = TRUE] /\ wire' = [wire EXCEPT ![s] = rest]
        /\ outgoing' = outgoing /\ reading' = reading /\ got' = got /\ delivered' = delivered
    BY DEF EndOfStream
<1>4. rest \in Seq(Cell) /\ wire'[s] = rest /\ ended'[s] = TRUE
    BY <1>1, <1>3, EmptySeq DEF SocketType
<1>5. SocketType'
    BY <1>1, <1>3, <1>4 DEF SocketType
<1>6. /\ Read(s)' = Read(s) /\ Waiting(s)' = Waiting(s) /\ PayloadSize(s)' = PayloadSize(s)
      /\ Sent(s)' = Sent(s)
    BY <1>3 DEF Read, Waiting, PayloadSize, Sent
<1>7. CASE rest = wire[s]
    BY <1>1, <1>3, <1>4, <1>5, <1>6, <1>7 DEF Line, Piece
<1>8. CASE rest = <<>>
    <2>1. Len(wire'[s]) = 0
        BY <1>4, <1>8
    <2> QED
        BY <1>1, <1>3, <1>4, <1>5, <1>6, <1>8, <2>1 DEF Line, Piece
<1> QED
    BY <1>3, <1>5, <1>7, <1>8

\* A cell goes from the wire to the message that is being read.
LEMMA ReadKeeps ==
    ASSUME SocketInv, NEW s \in Socket, ReadCell(s)
    PROVE  SocketType' /\ Line(s)'
<1> DEFINE k == Len(delivered[s])
<1>1. SocketType /\ Line(s)
    BY DEF SocketInv
<1>2. /\ Len(delivered[s]) <= Len(Script[s]) /\ Len(wire[s]) \in Nat /\ Len(got[s]) \in Nat
      /\ Sent(s) \in Int /\ Read(s) \in Nat /\ End[s][k] \in Nat /\ HeaderSize \in Nat \ {0}
    BY <1>1, LineNumbers DEF Line
<1>3. /\ Waiting(s) /\ Len(got[s]) < Needed(s) /\ wire[s] # <<>>
      /\ got' = [got EXCEPT ![s] = Append(@, Head(wire[s]))]
      /\ wire' = [wire EXCEPT ![s] = Tail(@)]
      /\ outgoing' = outgoing /\ ended' = ended /\ reading' = reading /\ delivered' = delivered
    BY DEF ReadCell
<1>4. /\ got'[s] = Append(got[s], Head(wire[s])) /\ got[s] \in Seq(Cell)
      /\ wire'[s] = Tail(wire[s]) /\ wire[s] \in Seq(Cell)
    BY <1>1, <1>3 DEF SocketType
<1>5. /\ Read(s) <= Sent(s) /\ Piece(s, Read(s), wire[s])
      /\ Read(s) + Len(wire[s]) = Sent(s)
      /\ Piece(s, End[s][k], got[s])
      /\ Read(s) = End[s][k] + Len(got[s])
    BY <1>1, <1>3 DEF Line, Waiting, Read
<1> HIDE DEF k
<1>6. /\ Head(wire[s]) \in Cell /\ Tail(wire[s]) \in Seq(Cell)
      /\ Len(Tail(wire[s])) = Len(wire[s]) - 1 /\ Len(wire[s]) \in Nat \ {0}
      /\ Head(wire[s]) = Whole(s)[Read(s) + 1]
      /\ Piece(s, Read(s) + 1, Tail(wire[s]))
    BY <1>2, <1>3, <1>4, <1>5, TailPiece
<1>7. /\ got'[s] \in Seq(Cell) /\ Len(got'[s]) = Len(got[s]) + 1
      /\ \A i \in 1..Len(got[s]) : got'[s][i] = got[s][i]
      /\ Piece(s, End[s][k], got'[s])
    <2>1. Head(wire[s]) = Whole(s)[(End[s][k] + Len(got[s])) + 1]
        BY <1>5, <1>6
    <2>2. End[s][k] \in Int
        BY <1>2
    <2>3. LET more == Append(got[s], Head(wire[s]))
          IN  /\ more \in Seq(Cell) /\ Len(more) = Len(got[s]) + 1
              /\ \A i \in 1..Len(got[s]) : more[i] = got[s][i]
              /\ Piece(s, End[s][k], more)
        BY <1>4, <1>5, <1>6, <2>1, <2>2, AppendPiece
    <2> QED
        BY <1>4, <2>3
<1>8. SocketType'
    <2>1. got' \in [Socket -> Seq(Cell)] /\ wire' \in [Socket -> Seq(Cell)]
        BY <1>1, <1>3, <1>4, <1>6, <1>7 DEF SocketType
    <2> QED
        BY <1>1, <1>3, <2>1 DEF SocketType
<1>9. Sent(s)' = Sent(s) /\ Waiting(s)' = Waiting(s) /\ k' = k
    BY <1>3 DEF Sent, Waiting, k
<1>10. Read(s)' = Read(s) + 1
    <2>1. Read(s)' = End[s][k] + Len(got'[s])
        BY <1>3, <1>9 DEF Read, k
    <2>2. Len(got'[s]) = Len(got[s]) + 1
        BY <1>7
    <2>3. Read(s) = End[s][k] + Len(got[s])
        BY <1>5
    <2> QED
        BY <1>2, <2>1, <2>2, <2>3
<1>11. /\ Read(s)' <= Sent(s)' /\ (Read(s) + Len(wire[s]))' = Sent(s)'
       /\ Piece(s, Read(s), wire[s])'
    <2>1. Piece(s, Read(s), wire[s])'
        BY <1>4, <1>6, <1>10 DEF Piece
    <2>2. Len(wire'[s]) = Len(wire[s]) - 1
        BY <1>4, <1>6
    <2> QED
        BY <1>2, <1>5, <1>6, <1>9, <1>10, <2>1, <2>2
<1>12. Piece(s, End[s][Len(delivered[s])], got[s])'
    BY <1>3, <1>7 DEF Piece, k
<1>13. reading'[s] = "header" => Len(got'[s]) <= HeaderSize
    BY <1>2, <1>3, <1>7 DEF Needed
<1>14. ASSUME reading'[s] = "body"
       PROVE  HeaderSize <= Len(got'[s]) /\ Len(got'[s]) <= HeaderSize + PayloadSize(s)'
    <2>1. reading[s] = "body" /\ HeaderSize <= Len(got[s])
        BY <1>1, <1>3, <1>14 DEF Line
    <2>2. HeaderSize \in 1..Len(got[s])
        BY <1>2, <2>1
    <2>3. PayloadSize(s)' = PayloadSize(s)
        BY <1>7, <2>2 DEF PayloadSize
    <2>4. Len(got[s]) < HeaderSize + PayloadSize(s)
        BY <1>3, <2>1 DEF Needed, BodyLength
    <2>5. got[s] # <<>>
        BY <1>2, <2>1, EmptySeq
    <2>6. PayloadSize(s) \in Nat
        BY <1>1, <1>3, <2>1, <2>5, BeingRead
    <2> QED
        BY <1>2, <1>7, <2>1, <2>3, <2>4, <2>6
<1>15. Line(s)'
    BY <1>1, <1>3, <1>9, <1>11, <1>12, <1>13, <1>14 DEF Line, Piece
<1> QED
    BY <1>8, <1>15

\* The header is read, and tells of a body.
LEMMA HeaderKeeps ==
    ASSUME SocketInv, NEW s \in Socket, HeaderRead(s)
    PROVE  SocketType' /\ Line(s)'
<1>1. SocketType /\ Line(s)
    BY DEF SocketInv
<1>2. Len(got[s]) \in Nat /\ HeaderSize \in Nat \ {0}
    BY <1>1, LineNumbers DEF Line
<1>3. /\ reading[s] = "header" /\ Len(got[s]) = HeaderSize /\ PayloadSize(s) > 0
      /\ reading' = [reading EXCEPT ![s] = "body"]
      /\ outgoing' = outgoing /\ wire' = wire /\ ended' = ended /\ got' = got
      /\ delivered' = delivered
    BY DEF HeaderRead
<1>4. SocketType' /\ reading'[s] = "body"
    BY <1>1, <1>3 DEF SocketType
<1>5. Waiting(s) /\ Waiting(s)' /\ got[s] # <<>>
    BY <1>2, <1>3, <1>4, EmptySeq DEF Waiting
<1>6. PayloadSize(s) \in Nat
    BY <1>1, <1>2, <1>3, <1>5, BeingRead
<1>7. Read(s)' = Read(s) /\ Sent(s)' = Sent(s) /\ PayloadSize(s)' = PayloadSize(s)
    BY <1>3, <1>5 DEF Read, Sent, PayloadSize
<1> QED
    BY <1>1, <1>2, <1>3, <1>4, <1>5, <1>6, <1>7 DEF Line, Piece

\* The next message of the script is delivered.
LEMMA DeliveryKeeps ==
    ASSUME SocketInv, NEW s \in Socket, MessageRead(s)
    PROVE  LET k == Len(delivered[s])
           IN  /\ SocketType' /\ Line(s)'
               /\ k + 1 \in 1..Len(Script[s])
               /\ End[s][k] < Sent(s)
               /\ delivered' = [delivered EXCEPT ![s] = Append(@, Cells[Script[s][k + 1]])]
<1> DEFINE k == Len(delivered[s])
           m == Script[s][k + 1]
           N == Len(Script[s])
<1>1. SocketType /\ Line(s)
    BY DEF SocketInv
<1>2. /\ k \in Nat /\ End[s][k] \in Nat /\ Len(got[s]) \in Nat /\ HeaderSize \in Nat \ {0}
      /\ Sent(s) \in Int /\ Read(s) \in Nat
    BY <1>1, LineNumbers DEF Line
<1>3. /\ Waiting(s) /\ Len(got[s]) = Needed(s)
      /\ reading[s] = "header" => PayloadSize(s) = 0
      /\ reading' = [reading EXCEPT ![s] = "callback"]
      /\ delivered' = [delivered EXCEPT ![s] = Append(@, got[s])]
      /\ outgoing' = outgoing /\ wire' = wire /\ ended' = ended /\ got' = got
    BY DEF MessageRead
<1>4. k + 1 \in 1..N /\ got[s] = Cells[m] /\ Len(got[s]) = Width(m)
    BY <1>1, <1>3, Completed
<1>5. /\ N \in Nat /\ (k + 1) - 1 = k /\ Width(m) \in Nat \ {0}
      /\ End[s][k + 1] = End[s][k] + Width(m)
    <2>1. /\ N \in Nat
          /\ \A n \in 1..N :
                /\ Width(Script[s][n]) \in Nat \ {0}
                /\ End[s][n] = End[s][n - 1] + Width(Script[s][n])
        BY StreamLayout
    <2> QED
        BY <1>2, <1>4, <2>1
<1>6. /\ got[s] \in Seq(Cell) /\ delivered[s] \in Seq(Seq(Cell))
      /\ delivered'[s] = Append(delivered[s], got[s]) /\ reading'[s] = "callback"
    BY <1>1, <1>3 DEF SocketType
<1>7. /\ delivered'[s] \in Seq(Seq(Cell)) /\ Len(delivered'[s]) = k + 1
      /\ \A n \in 1..k : delivered'[s][n] = delivered[s][n]
      /\ delivered'[s][k + 1] = got[s]
    BY <1>6, AppendProperties
<1>8. SocketType'
    <2>1. delivered' \in [Socket -> Seq(Seq(Cell))]
        BY <1>1, <1>3, <1>6, <1>7 DEF SocketType
    <2> QED
        BY <1>1, <1>3, <2>1 DEF SocketType
<1>9. /\ Read(s) = End[s][k] + Len(got[s])
      /\ Read(s) <= Sent(s) /\ Piece(s, Read(s), wire[s])
      /\ Read(s) + Len(wire[s]) = Sent(s) \/ (ended[s] /\ wire[s] = <<>>)
    BY <1>1, <1>3 DEF Line, Read, Waiting
<1>10. Read(s)' = Read(s) /\ Sent(s)' = Sent(s) /\ ~Waiting(s)'
    <2>1. ~Waiting(s)'
        BY <1>6 DEF Waiting
    <2>2. End[s][k + 1] \in Nat
        BY <1>2, <1>5
    <2>3. Read(s)' = End[s][k + 1]
        BY <1>7, <2>1, <2>2 DEF Read
    <2> QED
        BY <1>3, <1>4, <1>5, <1>9, <2>1, <2>3 DEF Sent
<1>11. End[s][k] < Sent(s)
    BY <1>2, <1>4, <1>5, <1>9
<1>12. \A n \in 1..k + 1 : delivered'[s][n] = Cells[Script[s][n]]
    <2>1. \A n \in 1..k : delivered[s][n] = Cells[Script[s][n]]
        BY <1>1 DEF Line
    <2>2. \A n \in 1..k + 1 : n \in 1..k \/ n = k + 1
        BY <1>2
    <2> HIDE DEF k
    <2> QED
        BY <1>4, <1>7, <2>1, <2>2
<1>13. Line(s)'
    <2>1. Len(delivered'[s]) <= N /\ \A n \in 1..Len(delivered'[s]) : delivered'[s][n] = Cells[Script[s][n]]
        BY <1>4, <1>5, <1>7, <1>12
    <2>2. Sent(s)' >= 0 /\ Piece(s, Sent(s), outgoing[s])'
        BY <1>1, <1>3, <1>10 DEF Line, Piece
    <2>3. /\ Read(s)' <= Sent(s)'
          /\ Piece(s, Read(s), wire[s])'
          /\ (Read(s) + Len(wire[s]))' = Sent(s)' \/ (ended'[s] /\ wire'[s] = <<>>)
        BY <1>3, <1>9, <1>10 DEF Piece
    <2> QED
        BY <1>6, <1>10, <2>1, <2>2, <2>3 DEF Line
<1> QED
    BY <1>3, <1>4, <1>8, <1>11, <1>13

\* A receive begins after the last message, or the proxy stops to read.
LEMMA GoOnKeeps ==
    ASSUME SocketInv, NEW s \in Socket,
           \/ reading[s] \in {"closed", "callback"} /\ AsyncReceive(s)
           \/ reading[s] = "callback" /\ Done(s)
           \/ ReadError(s),
           UNCHANGED <<outgoing, wire, ended, delivered>>
    PROVE  SocketType' /\ Line(s)'
<1>1. SocketType /\ Line(s)
    BY DEF SocketInv
<1>2. /\ End[s][Len(delivered[s])] \in Nat /\ HeaderSize \in Nat \ {0}
    BY <1>1, LineNumbers DEF Line
<1>3. Sent(s)' = Sent(s)
    BY DEF Sent
<1>4. CASE reading[s] \in {"closed", "callback"} /\ AsyncReceive(s)
    <2>1. /\ reading' = [reading EXCEPT ![s] = "header"] /\ got' = [got EXCEPT ![s] = <<>>]
          /\ reading'[s] = "header" /\ got'[s] = <<>> /\ Len(got'[s]) = 0 /\ <<>> \in Seq(Cell)
        BY <1>1, <1>4, EmptySeq DEF AsyncReceive, SocketType
    <2>2. SocketType'
        BY <1>1, <2>1 DEF SocketType
    <2>3. Waiting(s)' /\ ~Waiting(s)
        BY <1>4, <2>1 DEF Waiting
    <2>4. Read(s)' = Read(s)
        BY <1>2, <2>1, <2>3 DEF Read
    <2> QED
        BY <1>1, <1>2, <1>3, <1>4, <2>1, <2>2, <2>3, <2>4 DEF Line, Piece
<1>5. CASE Done(s) \/ ReadError(s)
    <2>1. reading'[s] \in {"done", "failed"} /\ SocketType'
        BY <1>1, <1>5 DEF Done, ReadError, SocketType
    <2>2. ~Waiting(s)'
        BY <2>1 DEF Waiting
    <2> QED
        BY <1>1, <1>3, <2>1, <2>2 DEF Line, Piece
<1> QED
    BY <1>4, <1>5

-----------------------------------------------------------------------------
(* The steps of Receiving.                                                 *)

\* Everything about the sockets that s does not own stays.
Untouched(s) ==
    \A c \in Socket \ {s} :
        /\ outgoing'[c] = outgoing[c] /\ wire'[c] = wire[c] /\ ended'[c] = ended[c]
        /\ reading'[c] = reading[c] /\ got'[c] = got[c] /\ delivered'[c] = delivered[c]

\* What a step does to the sockets: nothing, or one step of one of them.
SocketStep(s) ==
    \/ SendCell(s) \/ EndOfStream(s) \/ ReadCell(s) \/ HeaderRead(s) \/ MessageRead(s)
    \/ /\ \/ reading[s] \in {"closed", "callback"} /\ AsyncReceive(s)
          \/ reading[s] = "callback" /\ Done(s)
          \/ ReadError(s)
       /\ UNCHANGED <<outgoing, wire, ended, delivered>>

\* Every step of Receiving is one of these.
LEMMA StepOfSockets ==
    ASSUME [Next]_vars
    PROVE  UNCHANGED socketVars \/ \E s \in Socket : SocketStep(s)
<1>1. CASE \/ StartJob \/ PoolStep \/ AcceptError \/ \E w \in Worker : RunReturns(w)
           \/ \E r \in Runs : Request(r)
           \/ UNCHANGED vars
    BY <1>1 DEF StartJob, PoolStep, AcceptError, RunReturns, Request, vars, socketVars
<1>2. ASSUME NEW s \in Socket, Accept(s) PROVE SocketStep(s)
    BY <1>2 DEF Accept, SocketStep
<1>3. ASSUME NEW s \in Socket, ReadStep(s) PROVE SocketStep(s)
    BY <1>3 DEF ReadStep, ReceiveError, ReadError, SocketStep
<1>4. ASSUME NEW s \in Socket, Callback(s) PROVE SocketStep(s) \/ UNCHANGED socketVars
    <2>1. /\ reading[s] = "callback"
          /\ UNCHANGED <<outgoing, wire, ended, delivered>>
          /\ AsyncReceive(s) \/ Done(s) \/ UNCHANGED <<reading, got>>
        BY <1>4 DEF Callback, Register, AddDevice, InsertDevice, Handle, Refuse, GoOn
    <2> QED
        BY <2>1 DEF SocketStep, socketVars
<1>5. ASSUME NEW s \in Socket, DeviceStep(s) PROVE SocketStep(s)
    BY <1>5 DEF DeviceStep, SocketStep
<1> QED
    BY <1>1, <1>2, <1>3, <1>4, <1>5 DEF Next

\* SocketInv is inductive.
LEMMA SocketInvStep ==
    ASSUME SocketInv, [Next]_vars
    PROVE  SocketInv'
<1>1. ASSUME NEW s \in Socket, SocketStep(s) PROVE SocketInv'
    <2>1. SocketType' /\ Line(s)'
        <3>1. CASE SendCell(s)
            BY <3>1, SendKeeps
        <3>2. CASE EndOfStream(s)
            BY <3>2, EndKeeps
        <3>3. CASE ReadCell(s)
            BY <3>3, ReadKeeps
        <3>4. CASE HeaderRead(s)
            BY <3>4, HeaderKeeps
        <3>5. CASE MessageRead(s)
            BY <3>5, DeliveryKeeps
        <3> QED
            BY <1>1, <3>1, <3>2, <3>3, <3>4, <3>5, GoOnKeeps DEF SocketStep
    <2>2. Untouched(s)
        BY <1>1 DEF SocketStep, SendCell, EndOfStream, ReadCell, HeaderRead, MessageRead,
           AsyncReceive, Done, ReadError, Untouched, SocketInv, SocketType
    <2>3. ASSUME NEW c \in Socket \ {s} PROVE Line(c)'
        BY <2>2, LineLocal DEF SocketInv, Untouched
    <2> QED
        BY <2>1, <2>3 DEF SocketInv
<1>2. CASE UNCHANGED socketVars
    BY <1>2, LineLocal DEF socketVars, SocketInv, SocketType
<1> QED
    BY <1>1, <1>2, StepOfSockets

\* At first everything is outgoing.
LEMMA SocketInvInit ==
    ASSUME Init
    PROVE  SocketInv /\ \A s \in Socket : Sent(s) = 0
<1>1. ASSUME NEW s \in Socket
      PROVE  /\ Len(Script[s]) \in Nat
             /\ Whole(s) \in Seq(Cell) /\ Len(Whole(s)) = End[s][Len(Script[s])]
             /\ End[s][Len(Script[s])] \in Nat /\ End[s][0] = 0
    BY StreamLayout
<1>2. /\ outgoing = [s \in Socket |-> Whole(s)]
      /\ \A s \in Socket :
            /\ outgoing[s] = Whole(s) /\ wire[s] = <<>> /\ reading[s] = "closed"
            /\ got[s] = <<>> /\ delivered[s] = <<>>
    BY DEF Init, SocketInit
<1>3. SocketType
    BY <1>1, EmptySeq DEF Init, SocketInit, SocketType
<1>4. ASSUME NEW s \in Socket PROVE Line(s) /\ Sent(s) = 0
    <2>1. Sent(s) = 0
        BY <1>1, <1>2 DEF Sent
    <2>2. Read(s) = 0 /\ ~Waiting(s) /\ Len(delivered[s]) = 0 /\ Len(wire[s]) = 0
        BY <1>1, <1>2 DEF Read, Waiting
    <2>3. \A i \in 1..Len(outgoing[s]) : outgoing[s][i] = Whole(s)[0 + i]
        BY <1>1, <1>2
    <2> QED
        BY <1>1, <1>2, <2>1, <2>2, <2>3 DEF Line, Piece
<1> QED
    BY <1>3, <1>4 DEF SocketInv

\* What has been delivered of a connection, what is being read and what is
\* still to come follow one another in its stream.
THEOREM StreamInvariant == Spec => []SocketInv
<1>1. Init => SocketInv
    BY SocketInvInit
<1>2. SocketInv /\ [Next]_vars => SocketInv'
    BY SocketInvStep
<1> QED
    BY <1>1, <1>2, PTL DEF Spec

-----------------------------------------------------------------------------
(* The refinement.                                                         *)

\* How many messages are begun by so many cells.
BegunBy(s, cells) == Cardinality({n \in DOMAIN Script[s] : End[s][n - 1] < cells})

\* They are the first ones.
LEMMA BegunFirst ==
    ASSUME NEW s \in Socket, NEW cells \in Nat
    PROVE  /\ BegunBy(s, cells) \in 0..Len(Script[s])
           /\ \A n \in 1..Len(Script[s]) : n <= BegunBy(s, cells) <=> End[s][n - 1] < cells
<1> DEFINE N == Len(Script[s])
           S == {n \in DOMAIN Script[s] : End[s][n - 1] < cells}
<1>1. /\ N \in Nat /\ DOMAIN Script[s] = 1..N
      /\ \A n \in 0..N : End[s][n] \in Nat
      /\ \A m, n \in 0..N : m <= n => End[s][m] <= End[s][n]
    BY StreamLayout
<1>2. ASSUME NEW n \in S, NEW m \in 1..n PROVE m \in S
    <2>1. m \in 1..N /\ m - 1 \in 0..N /\ n - 1 \in 0..N /\ m - 1 <= n - 1
        BY <1>1
    <2>2. End[s][m - 1] <= End[s][n - 1] /\ End[s][m - 1] \in Nat /\ End[s][n - 1] \in Nat
        BY <1>1, <2>1
    <2>3. End[s][n - 1] < cells
        OBVIOUS
    <2>4. End[s][m - 1] < cells
        BY <2>2, <2>3
    <2> QED
        BY <1>1, <2>1, <2>4
<1>3. S \in SUBSET (1..N) /\ \A n \in S : 1..n \subseteq S
    BY <1>1, <1>2
<1>4. \A n \in 1..N : n \in S <=> End[s][n - 1] < cells
    BY <1>1
<1>5. BegunBy(s, cells) = Cardinality(S)
    BY DEF BegunBy
<1> HIDE DEF S
<1>6. Cardinality(S) \in 0..N /\ S = 1..Cardinality(S)
    BY <1>1, <1>3, Segment
<1> QED
    BY <1>1, <1>4, <1>5, <1>6

\* One cell more begins at most one message more.
LEMMA BegunNext ==
    ASSUME NEW s \in Socket, NEW cells \in Nat
    PROVE  \/ BegunBy(s, cells + 1) = BegunBy(s, cells)
           \/ /\ BegunBy(s, cells + 1) = BegunBy(s, cells) + 1
              /\ BegunBy(s, cells) + 1 \in 1..Len(Script[s])
<1> DEFINE N == Len(Script[s])
           b == BegunBy(s, cells)
           c == BegunBy(s, cells + 1)
<1>1. /\ b \in 0..N /\ c \in 0..N /\ N \in Nat
      /\ \A n \in 1..N : n <= b <=> End[s][n - 1] < cells
      /\ \A n \in 1..N : n <= c <=> End[s][n - 1] < cells + 1
    <2>1. cells + 1 \in Nat /\ N \in Nat
        BY StreamLayout
    <2>2. b \in 0..N /\ \A n \in 1..N : n <= b <=> End[s][n - 1] < cells
        BY BegunFirst
    <2>3. c \in 0..N /\ \A n \in 1..N : n <= c <=> End[s][n - 1] < cells + 1
        BY <2>1, BegunFirst
    <2> QED
        BY <2>1, <2>2, <2>3
<1>2. /\ \A n \in 0..N : End[s][n] \in Nat
      /\ \A m, n \in 0..N : m < n => End[s][m] < End[s][n]
    BY StreamLayout
<1> HIDE DEF b, c
<1>3. b <= c
    <2>1. CASE b = 0
        BY <1>1, <2>1
    <2>2. CASE b # 0
        <3>1. b \in 1..N /\ b - 1 \in 0..N
            BY <1>1, <2>2
        <3>2. End[s][b - 1] < cells /\ End[s][b - 1] \in Nat
            BY <1>1, <1>2, <3>1
        <3>3. End[s][b - 1] < cells + 1
            BY <3>2
        <3> QED
            BY <1>1, <3>1, <3>3
    <2> QED
        BY <2>1, <2>2
<1>4. ~(b + 2 <= c)
    <2> SUFFICES ASSUME b + 2 <= c PROVE FALSE
        OBVIOUS
    <2>1. /\ b + 1 \in 1..N /\ b + 2 \in 1..N /\ ~(b + 1 <= b)
          /\ (b + 1) - 1 = b /\ (b + 2) - 1 = b + 1
          /\ b \in 0..N /\ b + 1 \in 0..N /\ b < b + 1
        BY <1>1
    <2>2. ~(End[s][b] < cells) /\ End[s][b + 1] < cells + 1
        BY <1>1, <2>1
    <2>3. End[s][b] < End[s][b + 1] /\ End[s][b] \in Nat /\ End[s][b + 1] \in Nat
        BY <1>2, <2>1
    <2> QED
        BY <2>2, <2>3
<1>5. c = b \/ (c = b + 1 /\ b + 1 \in 1..N)
    BY <1>1, <1>3, <1>4
<1> QED
    BY <1>5 DEF b, c

\* The messages that Channel takes for sent.
Announced == [s \in Socket |-> [n \in 1..Begun(s) |-> Cells[Script[s][n]]]]

Failed == [s \in Socket |-> reading[s] = "failed"]

\* Begun in terms of the cells.
LEMMA BegunSent == \A s \in Socket : Begun(s) = BegunBy(s, Sent(s))
BY DEF Begun, BegunBy

\* A step that sends no cell announces nothing.
LEMMA SameAnnounced ==
    ASSUME outgoing' = outgoing
    PROVE  Announced' = Announced
BY DEF Announced, Begun, Sent

\* The cell that begins a message announces it.
LEMMA SendAnnounces ==
    ASSUME SocketInv, NEW s \in Socket, SendCell(s)
    PROVE  AbstractChannel!Next \/ Announced' = Announced
<1>1. Sent(s) \in Nat /\ Sent(s)' = Sent(s) + 1
    BY SendKeeps
<1>2. ASSUME NEW c \in Socket \ {s} PROVE Begun(c)' = Begun(c)
    <2>1. outgoing'[c] = outgoing[c]
        BY DEF SendCell, SocketInv, SocketType
    <2> QED
        BY <2>1 DEF Begun, Sent
<1> DEFINE b == Begun(s)
<1>3. b = BegunBy(s, Sent(s)) /\ Begun(s)' = BegunBy(s, Sent(s) + 1)
    BY <1>1 DEF Begun, BegunBy
<1>4. b \in Nat
    BY <1>1, <1>3, BegunFirst
<1>5. Begun(s)' = b \/ (Begun(s)' = b + 1 /\ b + 1 \in 1..Len(Script[s]))
    BY <1>1, <1>3, BegunNext
<1>6. CASE Begun(s)' = b
    <2>1. \A c \in Socket : Begun(c)' = Begun(c)
        BY <1>2, <1>6
    <2>2. Announced' = Announced
        BY <2>1 DEF Announced
    <2> QED
        BY <2>2
<1>7. CASE Begun(s)' = b + 1 /\ b + 1 \in 1..Len(Script[s])
    <2> DEFINE m == Script[s][b + 1]
    <2>1. m \in Message
        BY <1>7, StreamAssumption
    <2> HIDE DEF b
    <2>2. Announced[s] = [n \in 1..b |-> Cells[Script[s][n]]]
        BY DEF Announced, b
    <2>3. Announced'[s] = [n \in 1..b + 1 |-> Cells[Script[s][n]]]
        BY <1>7 DEF Announced
    <2>4. Announced'[s] = Append(Announced[s], Cells[m])
        <3> DEFINE e == [n \in 1..b + 1 |-> Cells[Script[s][n]]]
        <3>1. [n \in 1..b |-> Cells[Script[s][n]]] = [n \in 1..b |-> e[n]]
            BY <1>4
        <3>2. e[b + 1] = Cells[m]
            BY <1>4
        <3> HIDE DEF e
        <3>3. [n \in 1..b + 1 |-> e[n]] = Append([n \in 1..b |-> e[n]], e[b + 1])
            BY <1>4
        <3>4. e = [n \in 1..b + 1 |-> e[n]]
            BY DEF e
        <3>5. Announced'[s] = e
            BY <2>3 DEF e
        <3> QED
            BY <2>2, <3>1, <3>2, <3>3, <3>4, <3>5
    <2>5. \A c \in Socket \ {s} : Announced'[c] = Announced[c]
        BY <1>2 DEF Announced
    <2>6. Announced' = [Announced EXCEPT ![s] = Append(@, Cells[m])]
        BY <2>4, <2>5 DEF Announced
    <2>7. Cells[m] \in {Cells[x] : x \in Message} /\ Failed' = Failed
        BY <2>1 DEF SendCell, Failed
    <2>8. ~ended[s] /\ UNCHANGED <<delivered, ended, Failed>>
        BY <2>7 DEF SendCell
    <2> HIDE DEF m
    <2>9. AbstractChannel!Send(s)
        BY <2>6, <2>7, <2>8 DEF AbstractChannel!Send, Announced, Failed
    <2> QED
        BY <2>9 DEF AbstractChannel!Next
<1> QED
    BY <1>5, <1>6, <1>7

\* A message that is delivered was announced.
LEMMA DeliveryWasAnnounced ==
    ASSUME SocketInv, NEW s \in Socket, MessageRead(s)
    PROVE  AbstractChannel!Next
<1> DEFINE k == Len(delivered[s])
           N == Len(Script[s])
<1>1. /\ k + 1 \in 1..N /\ End[s][k] < Sent(s)
      /\ delivered' = [delivered EXCEPT ![s] = Append(@, Cells[Script[s][k + 1]])]
    BY DeliveryKeeps
<1>2. Line(s) /\ SocketType /\ k \in Nat /\ Sent(s) \in Nat
    <2>1. Line(s) /\ SocketType
        BY DEF SocketInv
    <2>2. Sent(s) >= 0 /\ k <= N
        BY <2>1 DEF Line
    <2>3. Sent(s) \in Int /\ k \in Nat
        BY <2>1, <2>2, LineNumbers
    <2> QED
        BY <2>1, <2>2, <2>3
<1>3. k + 1 <= Begun(s) /\ Begun(s) \in Nat
    <2>1. Begun(s) = BegunBy(s, Sent(s))
        BY BegunSent
    <2>2. (k + 1) - 1 = k
        BY <1>2
    <2>3. /\ BegunBy(s, Sent(s)) \in 0..N
          /\ \A n \in 1..N : n <= BegunBy(s, Sent(s)) <=> End[s][n - 1] < Sent(s)
        BY <1>2, BegunFirst
    <2> QED
        BY <1>1, <2>1, <2>2, <2>3
<1>4. Len(Announced[s]) = Begun(s) /\ Announced[s][k + 1] = Cells[Script[s][k + 1]]
    BY <1>2, <1>3 DEF Announced
<1>5. ~Failed[s] /\ Failed' = Failed /\ ended' = ended /\ Announced' = Announced
    <2>1. outgoing' = outgoing
        BY DEF MessageRead
    <2>2. /\ reading[s] # "failed" /\ reading' = [reading EXCEPT ![s] = "callback"]
          /\ reading \in [Socket -> {"closed", "header", "body", "callback", "failed", "done"}]
        BY <1>2 DEF MessageRead, Waiting, SocketType
    <2>3. ~Failed[s] /\ Failed' = Failed
        BY <2>2 DEF Failed
    <2> QED
        BY <2>1, <2>3, SameAnnounced DEF MessageRead
<1>6. k < Len(Announced[s])
    BY <1>2, <1>3, <1>4
<1>7. delivered' = [delivered EXCEPT ![s] = Append(@, Announced[s][Len(@) + 1])]
    BY <1>1, <1>4
<1>8. AbstractChannel!Deliver(s)
    BY <1>5, <1>6, <1>7 DEF AbstractChannel!Deliver, Announced, Failed
<1> QED
    BY <1>8 DEF AbstractChannel!Next

\* Every step of a connection is one of the channel, or concerns it alone.
LEMMA ChannelStep ==
    ASSUME SocketInv, NEW s \in Socket, SocketStep(s)
    PROVE  \/ AbstractChannel!Next
           \/ UNCHANGED <<Announced, delivered, ended, Failed>>
<1>1. reading \in [Socket -> {"closed", "header", "body", "callback", "failed", "done"}]
    BY DEF SocketInv, SocketType
<1>2. CASE SendCell(s)
    <2>1. UNCHANGED <<delivered, ended, Failed>>
        BY <1>2 DEF SendCell, Failed
    <2> QED
        BY <1>2, <2>1, SendAnnounces
<1>3. CASE EndOfStream(s)
    <2>1. Announced' = Announced
        BY <1>3, SameAnnounced DEF EndOfStream
    <2>2. /\ ended' = [ended EXCEPT ![s] = TRUE]
          /\ delivered' = delivered /\ Failed' = Failed
        BY <1>3 DEF EndOfStream, Failed
    <2>3. AbstractChannel!End(s)
        BY <2>1, <2>2 DEF AbstractChannel!End, Announced, Failed
    <2> QED
        BY <2>3 DEF AbstractChannel!Next
<1>4. CASE MessageRead(s)
    BY <1>4, DeliveryWasAnnounced
<1>5. CASE ReadError(s) /\ UNCHANGED <<outgoing, wire, ended, delivered>>
    <2>1. Announced' = Announced
        BY <1>5, SameAnnounced
    <2>2. /\ reading[s] # "failed" /\ ended[s]
          /\ reading' = [reading EXCEPT ![s] = "failed"]
        BY <1>5 DEF ReadError, Waiting
    <2>3. /\ ~Failed[s] /\ Failed' = [Failed EXCEPT ![s] = TRUE]
          /\ ended[s] /\ ended' = ended /\ delivered' = delivered
        BY <1>1, <1>5, <2>2 DEF Failed
    <2>4. AbstractChannel!Fail(s)
        BY <2>1, <2>3 DEF AbstractChannel!Fail, Announced, Failed
    <2> QED
        BY <2>4 DEF AbstractChannel!Next
<1>6. ASSUME UNCHANGED <<outgoing, delivered, ended>>,
             \/ reading' = reading
             \/ \E state \in {"header", "body", "callback", "done"} :
                    reading[s] # "failed" /\ reading' = [reading EXCEPT ![s] = state]
      PROVE  UNCHANGED <<Announced, delivered, ended, Failed>>
    <2>1. Announced' = Announced
        BY <1>6, SameAnnounced
    <2>2. Failed' = Failed
        BY <1>1, <1>6 DEF Failed
    <2> QED
        BY <1>6, <2>1, <2>2
<1>7. CASE \/ ReadCell(s) \/ HeaderRead(s)
           \/ /\ \/ reading[s] \in {"closed", "callback"} /\ AsyncReceive(s)
                 \/ reading[s] = "callback" /\ Done(s)
              /\ UNCHANGED <<outgoing, wire, ended, delivered>>
    BY <1>6, <1>7 DEF ReadCell, HeaderRead, AsyncReceive, Done
<1> QED
    BY <1>2, <1>3, <1>4, <1>5, <1>7 DEF SocketStep

\* To its owner, a DISocket is a channel of whole messages.
THEOREM SocketIsChannel == Spec => ImplementsChannel
<1>1. Init => AbstractChannel!Init
    <2> SUFFICES ASSUME Init PROVE AbstractChannel!Init
        OBVIOUS
    <2>1. ASSUME NEW s \in Socket PROVE [n \in 1..Begun(s) |-> Cells[Script[s][n]]] = <<>>
        <3>1. Sent(s) = 0
            BY SocketInvInit
        <3>2. /\ BegunBy(s, 0) \in 0..Len(Script[s]) /\ Len(Script[s]) \in Nat
              /\ \A n \in 1..Len(Script[s]) : n <= BegunBy(s, 0) <=> End[s][n - 1] < 0
            BY BegunFirst, StreamLayout
        <3>3. \A n \in 0..Len(Script[s]) : End[s][n] \in Nat
            BY StreamLayout
        <3>4. BegunBy(s, 0) = 0
            BY <3>2, <3>3
        <3>5. Begun(s) = 0
            BY <3>1, <3>4, BegunSent
        <3> QED
            BY <3>5
    <2> QED
        BY <2>1 DEF Init, SocketInit, AbstractChannel!Init
<1>2. SocketInv /\ [Next]_vars
        => [AbstractChannel!Next]_<<Announced, delivered, ended, Failed>>
    <2> SUFFICES ASSUME SocketInv, [Next]_vars
                 PROVE  \/ AbstractChannel!Next
                        \/ UNCHANGED <<Announced, delivered, ended, Failed>>
        OBVIOUS
    <2>1. ASSUME UNCHANGED socketVars PROVE UNCHANGED <<Announced, delivered, ended, Failed>>
        BY <2>1, SameAnnounced DEF socketVars, Failed
    <2> QED
        BY <2>1, StepOfSockets, ChannelStep
<1>3. SocketInv /\ [Next]_vars => [AbstractChannel!Next]_(AbstractChannel!channelVars)
    BY <1>2 DEF AbstractChannel!channelVars, Announced, Failed
<1> QED
    BY <1>1, <1>3, StreamInvariant, PTL DEF Spec, ImplementsChannel, AbstractChannel!Spec

-----------------------------------------------------------------------------
(* The thread pool.                                                        *)

Job == {"ioContext.run"}

\* Jobs, notifications and threads that are awake keep their balance.
PoolInv ==
    /\ worker \in [Worker -> {"ready", "asleep", "job"}]
    /\ jobQueue \in Seq(Job)
    /\ owed \in Nat
    /\ NoLostWakeup

\* A thread that changes its state changes the number of those that are ready.
LEMMA CountReady ==
    ASSUME NEW w \in Worker, NEW state \in {"ready", "asleep", "job"},
           worker \in [Worker -> {"ready", "asleep", "job"}],
           worker' = [worker EXCEPT ![w] = state]
    PROVE  /\ Cardinality(Workers("ready")) \in Nat
           /\ Cardinality(Workers("ready")') \in Nat
           /\ worker[w] # "ready" /\ state = "ready"
                => Cardinality(Workers("ready")') = Cardinality(Workers("ready")) + 1
           /\ worker[w] = "ready" /\ state # "ready"
                => Cardinality(Workers("ready")') = Cardinality(Workers("ready")) - 1
<1> DEFINE before == Workers("ready")
           after == Workers("ready")'
<1>1. IsFiniteSet(before) /\ IsFiniteSet(after)
    BY WorkerAssumption, FS_Subset DEF Workers
<1>2. Cardinality(before) \in Nat /\ Cardinality(after) \in Nat
    BY <1>1, FS_CardinalityType
<1>3. CASE worker[w] # "ready" /\ state = "ready"
    <2>1. after = before \cup {w} /\ w \notin before
        BY <1>3 DEF Workers
    <2>2. Cardinality(after) = Cardinality(before) + 1
        BY <1>1, <2>1, FS_AddElement
    <2> QED
        BY <1>2, <1>3, <2>2
<1>4. CASE worker[w] = "ready" /\ state # "ready"
    <2>1. after = before \ {w} /\ w \in before
        BY <1>4 DEF Workers
    <2>2. Cardinality(after) = Cardinality(before) - 1
        BY <1>1, <2>1, FS_RemoveElement
    <2> QED
        BY <1>2, <1>4, <2>2
<1> QED
    BY <1>2, <1>3, <1>4

\* A job more, and a notification due.
LEMMA AddJobKeeps ==
    ASSUME PoolInv, AddJob("ioContext.run")
    PROVE  PoolInv'
<1>1. jobQueue' \in Seq(Job) /\ Len(jobQueue') = Len(jobQueue) + 1
    BY AppendProperties DEF PoolInv, AddJob, Job
<1>2. Len(jobQueue) \in Nat
    BY LenProperties DEF PoolInv
<1>3. Cardinality(Workers("ready")) \in Nat
    BY WorkerAssumption, FS_Subset, FS_CardinalityType DEF Workers
<1>4. Workers("ready")' = Workers("ready") /\ Workers("asleep")' = Workers("asleep")
    BY DEF AddJob, Workers
<1>5. NoLostWakeup'
    BY <1>1, <1>2, <1>3, <1>4 DEF PoolInv, AddJob, NoLostWakeup
<1> QED
    BY <1>1, <1>5 DEF PoolInv, AddJob

\* A notification wakes a thread that sleeps, or nobody does.
LEMMA NotifyKeeps ==
    ASSUME PoolInv, Notify
    PROVE  PoolInv'
<1>1. Len(jobQueue) \in Nat
    BY LenProperties DEF PoolInv
<1>2. CASE Workers("asleep") = {}
    <2>1. Workers("asleep")' = {}
        BY <1>2 DEF Notify, Workers
    <2> QED
        BY <1>2, <2>1 DEF Notify, PoolInv, NoLostWakeup
<1>3. ASSUME NEW w \in Workers("asleep"), worker' = [worker EXCEPT ![w] = "ready"]
      PROVE  PoolInv'
    <2>1. w \in Worker /\ worker[w] = "asleep"
        BY DEF Workers
    <2>2. /\ Cardinality(Workers("ready")) \in Nat
          /\ Cardinality(Workers("ready")') = Cardinality(Workers("ready")) + 1
        BY <1>3, <2>1, CountReady DEF PoolInv
    <2>3. Len(jobQueue) <= owed + Cardinality(Workers("ready"))
        BY <2>1 DEF PoolInv, NoLostWakeup, Workers
    <2>4. NoLostWakeup'
        BY <1>1, <2>2, <2>3 DEF Notify, PoolInv, NoLostWakeup
    <2> QED
        BY <1>3, <2>1, <2>4 DEF Notify, PoolInv
<1> QED
    BY <1>2, <1>3 DEF Notify

\* A thread takes a job, or falls asleep when there is none.
LEMMA TakeOrSleepKeeps ==
    ASSUME PoolInv, NEW w \in Worker, TakeOrSleep(w)
    PROVE  PoolInv'
<1>1. Len(jobQueue) \in Nat
    BY LenProperties DEF PoolInv
<1>2. CASE jobQueue = <<>>
    <2>1. /\ Cardinality(Workers("ready")') \in Nat
          /\ Len(jobQueue') = 0
        BY <1>2, CountReady DEF TakeOrSleep, PoolInv
    <2> QED
        BY <1>2, <2>1 DEF TakeOrSleep, PoolInv, NoLostWakeup
<1>3. CASE jobQueue # <<>>
    <2>1. worker' = [worker EXCEPT ![w] = "job"] /\ jobQueue' = Tail(jobQueue)
        BY <1>3 DEF TakeOrSleep
    <2>2. /\ Cardinality(Workers("ready")) \in Nat
          /\ Cardinality(Workers("ready")') = Cardinality(Workers("ready")) - 1
        BY <2>1, CountReady DEF TakeOrSleep, PoolInv
    <2>3. jobQueue' \in Seq(Job) /\ Len(jobQueue') = Len(jobQueue) - 1
        BY <1>3, <2>1, HeadTailProperties DEF PoolInv
    <2>4. Workers("asleep")' = Workers("asleep")
        BY <2>1 DEF TakeOrSleep, PoolInv, Workers
    <2>5. NoLostWakeup'
        BY <1>1, <2>2, <2>3, <2>4 DEF TakeOrSleep, PoolInv, NoLostWakeup
    <2> QED
        BY <2>1, <2>3, <2>5 DEF TakeOrSleep, PoolInv
<1> QED
    BY <1>2, <1>3

\* A thread that gets ready can only help.
LEMMA ReadyKeeps ==
    ASSUME PoolInv, NEW w \in Worker, WakeUp(w) \/ JobEnd(w)
    PROVE  PoolInv'
<1>1. /\ worker[w] \in {"asleep", "job"}
      /\ worker' = [worker EXCEPT ![w] = "ready"]
      /\ UNCHANGED <<jobQueue, owed>>
    BY DEF WakeUp, JobEnd
<1>2. /\ Cardinality(Workers("ready")) \in Nat
      /\ Cardinality(Workers("ready")') = Cardinality(Workers("ready")) + 1
    BY <1>1, CountReady DEF PoolInv
<1>3. Workers("asleep")' \subseteq Workers("asleep")
    BY <1>1 DEF PoolInv, Workers
<1>4. Len(jobQueue) \in Nat
    BY LenProperties DEF PoolInv
<1>5. NoLostWakeup'
    BY <1>1, <1>2, <1>3, <1>4 DEF PoolInv, NoLostWakeup
<1> QED
    BY <1>1, <1>5 DEF PoolInv

\* While a thread sleeps, each job in the queue has a thread that is awake, or a
\* notification, to itself.
THEOREM PoolInvariant == Spec => []PoolInv
<1>1. Init => PoolInv
    <2> SUFFICES ASSUME Init PROVE PoolInv
        OBVIOUS
    <2>1. Workers("asleep") = {}
        BY DEF Init, PoolInit, Workers
    <2>2. <<>> \in Seq(Job)
        BY EmptySeq
    <2> QED
        BY <2>1, <2>2 DEF Init, PoolInit, PoolInv, NoLostWakeup
<1>2. PoolInv /\ [Next]_vars => PoolInv'
    <2> SUFFICES ASSUME PoolInv, [Next]_vars PROVE PoolInv'
        OBVIOUS
    <2>0. ASSUME UNCHANGED poolVars PROVE PoolInv'
        BY <2>0 DEF poolVars, PoolInv, NoLostWakeup, Workers
    <2>1. CASE StartJob
        BY <2>1, AddJobKeeps DEF StartJob
    <2>2. CASE PoolStep
        BY <2>2, NotifyKeeps, TakeOrSleepKeeps, ReadyKeeps DEF PoolStep
    <2>3. ASSUME NEW w \in Worker, RunReturns(w) PROVE PoolInv'
        BY <2>3, ReadyKeeps DEF RunReturns
    <2>4. CASE AcceptError
        BY <2>0, <2>4 DEF AcceptError
    <2>5. ASSUME NEW s \in Socket, Accept(s) \/ ReadStep(s) \/ Callback(s) \/ DeviceStep(s)
          PROVE  PoolInv'
        BY <2>0, <2>5 DEF Accept, ReadStep, Callback, DeviceStep
    <2>6. ASSUME NEW r \in Runs, Request(r) PROVE PoolInv'
        BY <2>0, <2>6 DEF Request
    <2>7. CASE UNCHANGED vars
        BY <2>0, <2>7 DEF vars
    <2> QED
        BY <2>1, <2>2, <2>3, <2>4, <2>5, <2>6, <2>7 DEF Next
<1> QED
    BY <1>1, <1>2, PTL DEF Spec

\* No wake-up is lost.
THEOREM NoWakeupIsLost == Spec => []NoLostWakeup
<1>1. PoolInv => NoLostWakeup
    BY DEF PoolInv
<1> QED
    BY <1>1, PoolInvariant, PTL

-----------------------------------------------------------------------------
(* The list of devices.                                                    *)

Steps == {"first", "addDevice", "insertDevice", "receive"}

\* What an accepted write of a registration is not.
IsRefused(s) == {<<s, "updateStatus">>, <<s, "addDevice">>} \cap refused # {}

\* Where the first handler is, what it was called for, and that what is read
\* next is read after it.
Entry(s) ==
    /\ step[s] = "first" <=> registered[s] = {}
    /\ step[s] \in {"addDevice", "insertDevice"} => reading[s] = "callback"
    /\ reading[s] \in {"closed", "header", "body"} /\ step[s] = "first" => delivered[s] = <<>>
    /\ reading[s] = "callback" =>
        /\ delivered[s] # <<>>
        /\ got[s] = delivered[s][Len(delivered[s])]
        /\ step[s] = "first" => Len(delivered[s]) = 1
    /\ registered[s] # {} =>
        /\ delivered[s] # <<>>
        /\ Type[Script[s][1]] = "DEVICE_ON"
        /\ registered[s] = {Script[s][1]}

\* Where the handler has been leaves its trace in the list and in "devices".
Trace(s) ==
    /\ step[s] # "receive" => ~IsRefused(s)
    /\ s \in listed <=>
        /\ step[s] \in {"insertDevice", "receive"}
        /\ <<s, "updateStatus">> \notin refused
        /\ reading[s] \notin {"done", "failed"}
    /\ s \in documents <=> step[s] = "receive" /\ ~IsRefused(s)

\* A run with a listed device has a key.
KeysHold == \A r \in Runs : Of(r) \cap listed # {} => r \in keys

\* A connection registers with the first message it delivers or never, and its
\* device is in the list, in the keys and in "devices" as far as its handler went.
RegistrationInv ==
    /\ registered \in [Socket -> SUBSET Message]
    /\ step \in [Socket -> Steps]
    /\ \A s \in Socket : Entry(s) /\ Trace(s)
    /\ KeysHold

\* The first message that was delivered is the first of the script.
LEMMA FirstMessage ==
    ASSUME SocketInv, NEW s \in Socket, delivered[s] # <<>>
    PROVE  /\ Len(delivered[s]) \in Nat \ {0}
           /\ Script[s][1] \in Message
           /\ Head(delivered[s][1]).of = Script[s][1]
<1>1. Len(delivered[s]) \in Nat \ {0}
    BY EmptySeq, LenProperties DEF SocketInv, SocketType
<1>2. Len(Script[s]) \in Nat /\ Len(delivered[s]) <= Len(Script[s])
    BY LineNumbers DEF SocketInv, Line
<1>3. 1 \in 1..Len(delivered[s]) /\ 1 \in 1..Len(Script[s])
    BY <1>1, <1>2
<1>4. Script[s][1] \in Message
    BY <1>3, StreamAssumption, ElementOfSeq
<1>5. delivered[s][1] = Cells[Script[s][1]]
    BY <1>3 DEF SocketInv, Line
<1> DEFINE m == Script[s][1]
<1>6. /\ Cells[m] = [i \in 1..HeaderSize + Size[m] |-> [of |-> m, at |-> i]]
      /\ HeaderSize + Size[m] \in Nat \ {0}
    BY <1>4, StreamAssumption DEF Cells
<1>7. 1 \in 1..HeaderSize + Size[m]
    BY <1>6
<1>8. Head(Cells[m]) = [of |-> m, at |-> 1]
    BY <1>6, <1>7
<1> QED
    BY <1>1, <1>4, <1>5, <1>8

\* A connection that does not move keeps its place, whatever is recorded of others.
LEMMA EntryLocal ==
    ASSUME NEW s \in Socket, Entry(s), Trace(s),
           reading'[s] = reading[s], got'[s] = got[s], delivered'[s] = delivered[s],
           registered'[s] = registered[s], step'[s] = step[s],
           s \in listed' <=> s \in listed,
           s \in documents' <=> s \in documents,
           \A write : <<s, write>> \in refused' <=> <<s, write>> \in refused
    PROVE  Entry(s)' /\ Trace(s)'
<1>1. IsRefused(s)' <=> IsRefused(s)
    BY DEF IsRefused
<1>2. Entry(s)'
    BY DEF Entry
<1>3. Trace(s)'
    BY <1>1 DEF Trace
<1> QED
    BY <1>2, <1>3

\* Reading a message from the stream, or failing to.
LEMMA ReadKeepsEntry ==
    ASSUME SocketInv, NEW s \in Socket, Entry(s), UNCHANGED <<registered, step>>,
           \/ AsyncReceive(s) /\ reading[s] = "closed" /\ UNCHANGED delivered
           \/ ReadCell(s) \/ HeaderRead(s) \/ MessageRead(s) \/ ReadError(s)
    PROVE  Entry(s)'
<1>0. DOMAIN reading = Socket /\ DOMAIN got = Socket /\ DOMAIN delivered = Socket
    BY DEF SocketInv, SocketType
<1>1. CASE AsyncReceive(s) /\ reading[s] = "closed" /\ UNCHANGED delivered
    BY <1>0, <1>1 DEF AsyncReceive, Entry
<1>2. CASE ReadCell(s)
    BY <1>0, <1>2 DEF ReadCell, Waiting, Entry
<1>3. CASE HeaderRead(s)
    BY <1>0, <1>3 DEF HeaderRead, Entry
<1>4. CASE MessageRead(s)
    <2>1. /\ reading'[s] = "callback" /\ got'[s] = got[s]
          /\ delivered'[s] = Append(delivered[s], got[s])
        BY <1>0, <1>4 DEF MessageRead
    <2>2. got[s] \in Seq(Cell) /\ delivered[s] \in Seq(Seq(Cell))
        BY DEF SocketInv, SocketType
    <2>3. /\ Len(delivered[s]) \in Nat
          /\ Len(delivered'[s]) = Len(delivered[s]) + 1
          /\ delivered'[s][Len(delivered[s]) + 1] = got[s]
          /\ delivered'[s] # <<>>
        <3>1. /\ Append(delivered[s], got[s]) # <<>>
              /\ Len(Append(delivered[s], got[s])) = Len(delivered[s]) + 1
              /\ Append(delivered[s], got[s])[Len(delivered[s]) + 1] = got[s]
            BY <2>2, AppendProperties
        <3>2. Len(delivered[s]) \in Nat
            BY <2>2, LenProperties
        <3> QED
            BY <2>1, <3>1, <3>2
    <2>4. step[s] = "first" => Len(delivered[s]) = 0
        BY <1>4, EmptySeq DEF MessageRead, Waiting, Entry
    <2> QED
        BY <2>1, <2>3, <2>4 DEF Entry
<1>5. CASE ReadError(s)
    BY <1>0, <1>5 DEF ReadError, Waiting, Entry
<1> QED
    BY <1>1, <1>2, <1>3, <1>4, <1>5

\* Nothing is done to the other connections.
Apart(s) ==
    \A c \in Socket \ {s} :
        /\ reading'[c] = reading[c] /\ got'[c] = got[c] /\ delivered'[c] = delivered[c]
        /\ registered'[c] = registered[c] /\ step'[c] = step[c]
        /\ c \in listed' <=> c \in listed
        /\ c \in documents' <=> c \in documents
        /\ \A write : <<c, write>> \in refused' <=> <<c, write>> \in refused

\* What a step of one connection has to show.
LEMMA OneKeeps ==
    ASSUME RegistrationInv, NEW s \in Socket, Apart(s),
           Entry(s)', Trace(s)', KeysHold',
           registered' \in [Socket -> SUBSET Message], step' \in [Socket -> Steps]
    PROVE  RegistrationInv'
<1>1. ASSUME NEW c \in Socket \ {s} PROVE Entry(c)' /\ Trace(c)'
    BY EntryLocal DEF RegistrationInv, Apart
<1> QED
    BY <1>1 DEF RegistrationInv

\* The device leaves the list, and its key with it if it was the last.
LEMMA LeaveKeeps ==
    ASSUME RegistrationInv, NEW s \in Socket, Leave(s)
    PROVE  KeysHold'
<1>1. \A r : Of(r)' = Of(r)
    BY DEF Leave, Of
<1>2. PICK r \in Runs :
        keys' = IF Of(r) \cap listed' = {} THEN keys \ {r} ELSE keys \cup {r}
    BY DEF Leave
<1>3. listed' \subseteq listed
    BY DEF Leave
<1>4. ASSUME NEW q \in Runs, Of(q) \cap listed' # {} PROVE q \in keys'
    <2>1. q \in keys
        BY <1>3, <1>4 DEF RegistrationInv, KeysHold
    <2> QED
        BY <1>2, <1>4, <2>1
<1>5. Runs' = Runs
    BY DEF Runs
<1> QED
    BY <1>1, <1>4, <1>5 DEF KeysHold

\* The first callback makes the device of the message it was called for, and the
\* status of its run is written or not.
LEMMA RegisterKeeps ==
    ASSUME SocketInv, RegistrationInv, NEW s \in Socket, Callback(s), Register(s)
    PROVE  RegistrationInv'
<1>1. /\ reading[s] = "callback" /\ step[s] = "first" /\ registered[s] = {}
      /\ Len(delivered[s]) = 1 /\ delivered[s] # <<>> /\ got[s] = delivered[s][1]
      /\ ~IsRefused(s) /\ s \notin listed /\ s \notin documents
    BY DEF Callback, Register, RegistrationInv, Entry, Trace
<1>2. Received(s) = Script[s][1] /\ Script[s][1] \in Message
    BY <1>1, FirstMessage DEF Received
<1>3. /\ DOMAIN reading = Socket /\ DOMAIN got = Socket
      /\ registered \in [Socket -> SUBSET Message] /\ step \in [Socket -> Steps]
    BY DEF SocketInv, SocketType, RegistrationInv
<1>4. delivered' = delivered
    BY DEF Callback
<1>5. CASE Type[Received(s)] # "DEVICE_ON"
    <2>1. Done(s) /\ UNCHANGED listVars
        BY <1>5 DEF Register
    <2>2. reading'[s] = "done" /\ Apart(s)
        BY <1>3, <1>4, <2>1 DEF Done, listVars, Apart
    <2>3. Entry(s)'
        BY <1>1, <1>4, <2>1, <2>2 DEF listVars, Entry
    <2>4. Trace(s)'
        BY <1>1, <2>1, <2>2 DEF listVars, IsRefused, Trace
    <2>5. KeysHold'
        BY <2>1 DEF listVars, RegistrationInv, KeysHold, Of, Runs
    <2> QED
        BY <1>3, <2>1, <2>2, <2>3, <2>4, <2>5, OneKeeps DEF listVars
<1>6. CASE Type[Received(s)] = "DEVICE_ON"
    <2>1. /\ registered' = [registered EXCEPT ![s] = {Script[s][1]}]
          /\ \/ Goto(s, "addDevice") /\ UNCHANGED <<reading, got, refused>>
             \/ Refuse(s, "updateStatus")
          /\ UNCHANGED <<listed, keys, documents>>
        BY <1>2, <1>6 DEF Register
    <2>2. /\ registered' \in [Socket -> SUBSET Message]
          /\ registered'[s] = {Script[s][1]}
          /\ \A c \in Socket \ {s} : registered'[c] = registered[c]
        BY <1>2, <1>3, <2>1
    <2>3. KeysHold'
        <3>1. ASSUME NEW r PROVE Of(r)' \cap listed' \subseteq Of(r) \cap listed
            BY <1>1, <2>1, <2>2 DEF Of
        <3> QED
            BY <2>1, <3>1 DEF RegistrationInv, KeysHold, Runs
    <2>4. CASE Goto(s, "addDevice") /\ UNCHANGED <<reading, got, refused>>
        <3>1. step' \in [Socket -> Steps] /\ step'[s] = "addDevice" /\ Apart(s)
            BY <1>3, <1>4, <2>1, <2>2, <2>4 DEF Goto, Steps, Apart
        <3>2. Entry(s)'
            BY <1>1, <1>2, <1>4, <1>6, <2>2, <2>4, <3>1 DEF Entry
        <3>3. Trace(s)'
            BY <1>1, <2>1, <2>4, <3>1 DEF IsRefused, Trace
        <3> QED
            BY <2>2, <2>3, <3>1, <3>2, <3>3, OneKeeps
    <2>5. CASE Refuse(s, "updateStatus")
        <3>1. /\ step' \in [Socket -> Steps] /\ step'[s] = "receive"
              /\ reading'[s] = "header"
              /\ refused' = refused \cup {<<s, "updateStatus">>}
            BY <1>3, <2>5 DEF Refuse, GoOn, Goto, AsyncReceive, Steps
        <3>2. Apart(s)
            BY <1>3, <1>4, <2>1, <2>2, <2>5 DEF Refuse, GoOn, Goto, AsyncReceive, Apart
        <3>3. Entry(s)'
            BY <1>1, <1>2, <1>4, <1>6, <2>2, <3>1 DEF Entry
        <3>4. Trace(s)'
            BY <1>1, <2>1, <3>1 DEF IsRefused, Trace
        <3> QED
            BY <2>2, <2>3, <3>1, <3>2, <3>3, <3>4, OneKeeps
    <2> QED
        BY <2>1, <2>4, <2>5
<1> QED
    BY <1>5, <1>6

\* The device is added to the list, with the key of its run.
LEMMA AddDeviceKeeps ==
    ASSUME SocketInv, RegistrationInv, NEW s \in Socket, Callback(s), AddDevice(s)
    PROVE  RegistrationInv'
<1>1. /\ reading[s] = "callback" /\ step[s] = "addDevice"
      /\ ~IsRefused(s) /\ s \notin documents
      /\ registered \in [Socket -> SUBSET Message] /\ step \in [Socket -> Steps]
    BY DEF Callback, AddDevice, RegistrationInv, Trace
<1>2. /\ step' = [step EXCEPT ![s] = "insertDevice"]
      /\ listed' = listed \cup {s}
      /\ keys' = keys \cup {r \in Runs : s \in Of(r)}
      /\ UNCHANGED <<reading, got, delivered, registered, refused, documents>>
    BY DEF Callback, AddDevice, Goto
<1>3. step' \in [Socket -> Steps] /\ step'[s] = "insertDevice" /\ Apart(s)
    BY <1>1, <1>2 DEF Steps, Apart
<1>4. Entry(s)'
    BY <1>1, <1>2, <1>3 DEF RegistrationInv, Entry
<1>5. Trace(s)'
    BY <1>1, <1>2, <1>3 DEF IsRefused, Trace
<1>6. KeysHold'
    <2>1. ASSUME NEW r \in Runs, Of(r) \cap listed' # {} PROVE r \in keys'
        <3>1. CASE s \in Of(r)
            BY <1>2, <3>1
        <3>2. CASE s \notin Of(r)
            BY <1>2, <2>1, <3>2 DEF RegistrationInv, KeysHold
        <3> QED
            BY <3>1, <3>2
    <2>2. (\A r : Of(r)' = Of(r)) /\ Runs' = Runs
        BY <1>2 DEF Of, Runs
    <2> QED
        BY <2>1, <2>2 DEF KeysHold
<1> QED
    BY <1>1, <1>2, <1>3, <1>4, <1>5, <1>6, OneKeeps

\* Its document is inserted or not.
LEMMA InsertDeviceKeeps ==
    ASSUME SocketInv, RegistrationInv, NEW s \in Socket, Callback(s), InsertDevice(s)
    PROVE  RegistrationInv'
<1>0. /\ reading[s] = "callback" /\ step[s] = "insertDevice" /\ Trace(s)
      /\ registered \in [Socket -> SUBSET Message] /\ step \in [Socket -> Steps]
      /\ DOMAIN reading = Socket /\ DOMAIN got = Socket
    BY DEF Callback, InsertDevice, RegistrationInv, SocketInv, SocketType
<1>1. ~IsRefused(s) /\ s \in listed /\ s \notin documents
    BY <1>0 DEF Trace, IsRefused
<1>2. /\ step' = [step EXCEPT ![s] = "receive"]
      /\ AsyncReceive(s)
      /\ UNCHANGED <<delivered, registered, listed, keys>>
      /\ \/ documents' = documents \cup {s} /\ UNCHANGED refused
         \/ refused' = refused \cup {<<s, "addDevice">>} /\ UNCHANGED documents
    BY DEF Callback, InsertDevice, Refuse, GoOn, Goto
<1>3. step' \in [Socket -> Steps] /\ step'[s] = "receive" /\ reading'[s] = "header"
    BY <1>0, <1>2 DEF AsyncReceive, Steps
<1>4. Apart(s)
    BY <1>0, <1>2 DEF AsyncReceive, Apart
<1>5. Entry(s)'
    BY <1>0, <1>2, <1>3 DEF RegistrationInv, Entry
<1>6. Trace(s)'
    BY <1>1, <1>2, <1>3 DEF IsRefused, Trace
<1>7. KeysHold'
    BY <1>2 DEF RegistrationInv, KeysHold, Of, Runs
<1> QED
    BY <1>0, <1>2, <1>3, <1>4, <1>5, <1>6, <1>7, OneKeeps

\* A later callback may take the device off the list.
LEMMA HandleKeeps ==
    ASSUME SocketInv, RegistrationInv, NEW s \in Socket, Callback(s), Handle(s)
    PROVE  RegistrationInv'
<1>1. /\ reading[s] = "callback" /\ step[s] = "receive" /\ delivered' = delivered
      /\ DOMAIN reading = Socket /\ DOMAIN got = Socket
      /\ registered \in [Socket -> SUBSET Message] /\ step \in [Socket -> Steps]
    BY DEF Callback, Handle, SocketInv, SocketType, RegistrationInv
<1>2. CASE Leave(s) /\ Done(s)
    <2>1. /\ listed' = listed \ {s} /\ reading'[s] = "done"
          /\ UNCHANGED <<step, registered, refused, documents>>
        BY <1>1, <1>2 DEF Leave, Done
    <2>2. Apart(s)
        BY <1>1, <1>2, <2>1 DEF Done, Apart
    <2>3. Entry(s)'
        BY <1>1, <2>1 DEF RegistrationInv, Entry
    <2>4. Trace(s)'
        BY <1>1, <2>1 DEF RegistrationInv, IsRefused, Trace
    <2> QED
        BY <1>1, <1>2, <2>1, <2>2, <2>3, <2>4, LeaveKeeps, OneKeeps
<1>3. CASE AsyncReceive(s) /\ UNCHANGED listVars
    <2>1. reading'[s] = "header" /\ Apart(s)
        BY <1>1, <1>3 DEF AsyncReceive, listVars, Apart
    <2>2. Entry(s)'
        BY <1>1, <1>3, <2>1 DEF listVars, RegistrationInv, Entry
    <2>3. Trace(s)'
        BY <1>1, <1>3, <2>1 DEF listVars, RegistrationInv, IsRefused, Trace
    <2>4. KeysHold'
        BY <1>3 DEF listVars, RegistrationInv, KeysHold, Of, Runs
    <2> QED
        BY <1>1, <1>3, <2>1, <2>2, <2>3, <2>4, OneKeeps DEF listVars
<1> QED
    BY <1>2, <1>3 DEF Handle

\* A message is read, or its connection fails and the device leaves.
LEMMA ReadingKeeps ==
    ASSUME SocketInv, RegistrationInv, NEW s \in Socket, Accept(s) \/ ReadStep(s)
    PROVE  RegistrationInv'
<1>1. /\ UNCHANGED <<registered, step, refused, documents>>
      /\ \/ AsyncReceive(s) /\ reading[s] = "closed" /\ UNCHANGED <<delivered, listVars>>
         \/ (ReadCell(s) \/ HeaderRead(s) \/ MessageRead(s)) /\ UNCHANGED listVars
         \/ ReceiveError(s)
    BY DEF Accept, ReadStep, ReceiveError, Leave, listVars
<1>2. Entry(s)'
    BY <1>1, ReadKeepsEntry DEF ReceiveError, RegistrationInv
<1>3. /\ \A c \in Socket \ {s} :
            reading'[c] = reading[c] /\ got'[c] = got[c] /\ delivered'[c] = delivered[c]
      /\ DOMAIN reading = Socket
    BY <1>1 DEF AsyncReceive, ReadCell, HeaderRead, MessageRead, ReceiveError, ReadError,
       SocketInv, SocketType
<1>4. CASE UNCHANGED listVars /\ ~ReceiveError(s)
    <2>1. reading[s] \notin {"done", "failed"} /\ reading'[s] \notin {"done", "failed"}
        BY <1>1, <1>3, <1>4 DEF AsyncReceive, ReadCell, HeaderRead, MessageRead, Waiting
    <2>2. Trace(s)'
        BY <1>4, <2>1 DEF listVars, RegistrationInv, IsRefused, Trace
    <2>3. KeysHold' /\ Apart(s)
        BY <1>3, <1>4 DEF listVars, RegistrationInv, KeysHold, Of, Runs, Apart
    <2> QED
        BY <1>1, <1>2, <2>2, <2>3, OneKeeps DEF RegistrationInv
<1>5. CASE ReceiveError(s)
    <2>1. reading'[s] = "failed" /\ reading[s] \in {"header", "body"}
        BY <1>3, <1>5 DEF ReceiveError, ReadError, Waiting
    <2>2. CASE step[s] = "first"
        <3>1. UNCHANGED listVars
            BY <1>5, <2>2 DEF ReceiveError
        <3>2. Trace(s)'
            BY <2>1, <2>2, <3>1 DEF listVars, RegistrationInv, IsRefused, Trace
        <3>3. KeysHold' /\ Apart(s)
            BY <1>3, <3>1 DEF listVars, RegistrationInv, KeysHold, Of, Runs, Apart
        <3> QED
            BY <1>1, <1>2, <3>2, <3>3, OneKeeps DEF RegistrationInv
    <2>3. CASE step[s] # "first"
        <3>1. Leave(s) /\ listed' = listed \ {s}
            BY <1>5, <2>3 DEF ReceiveError, Leave
        <3>2. Trace(s)'
            BY <1>1, <2>1, <3>1 DEF RegistrationInv, IsRefused, Trace
        <3>3. Apart(s)
            BY <1>1, <1>3, <3>1 DEF Apart
        <3> QED
            BY <1>1, <1>2, <3>1, <3>2, <3>3, LeaveKeeps, OneKeeps DEF RegistrationInv
    <2> QED
        BY <2>2, <2>3
<1> QED
    BY <1>1, <1>4, <1>5 DEF ReceiveError

\* RegistrationInv is inductive, where the stream is what SocketInv says.
LEMMA RegistrationStep ==
    ASSUME SocketInv, RegistrationInv, [Next]_vars
    PROVE  RegistrationInv'
<1>1. ASSUME UNCHANGED <<reading, got, delivered, step, registered, refused, listed, documents>>,
             keys \subseteq keys'
      PROVE  RegistrationInv'
    <2>1. ASSUME NEW c \in Socket PROVE Entry(c)' /\ Trace(c)'
        BY <1>1, EntryLocal DEF RegistrationInv
    <2>2. KeysHold'
        BY <1>1 DEF RegistrationInv, KeysHold, Of, Runs
    <2> QED
        BY <1>1, <2>1, <2>2 DEF RegistrationInv
<1>2. CASE \/ StartJob \/ PoolStep \/ AcceptError \/ \E w \in Worker : RunReturns(w)
           \/ UNCHANGED vars
    BY <1>1, <1>2 DEF StartJob, PoolStep, AcceptError, RunReturns, vars, socketVars, listVars
<1>3. ASSUME NEW s \in Socket, Accept(s) \/ ReadStep(s) PROVE RegistrationInv'
    BY <1>3, ReadingKeeps
<1>4. ASSUME NEW s \in Socket, Callback(s) PROVE RegistrationInv'
    BY <1>4, RegisterKeeps, AddDeviceKeeps, InsertDeviceKeeps, HandleKeeps DEF Callback
<1>5. ASSUME NEW s \in Socket, DeviceStep(s) PROVE RegistrationInv'
    BY <1>1, <1>5 DEF DeviceStep, SendCell, EndOfStream, listVars
<1>6. ASSUME NEW r \in Runs, Request(r) PROVE RegistrationInv'
    BY <1>1, <1>6 DEF Request, socketVars
<1> QED
    BY <1>2, <1>3, <1>4, <1>5, <1>6 DEF Next

\* Each connection registers with its first message, or never, and its traces in
\* the list, its keys and "devices" are those of the writes that were not refused.
THEOREM RegistrationInvariant == Spec => []RegistrationInv
<1>1. Init => RegistrationInv
    BY DEF Init, SocketInit, RegistrationInv, Entry, Trace, IsRefused, KeysHold, Steps
<1>2. SocketInv /\ RegistrationInv /\ [Next]_vars => RegistrationInv'
    BY RegistrationStep
<1> QED
    BY <1>1, <1>2, StreamInvariant, PTL DEF Spec

-----------------------------------------------------------------------------
(* What the list shows of a registration.                                  *)

\* Reading the items of an array keeps their members.
LEMMA MembersKept ==
    ASSUME NEW item, NEW items, IsArrayOf(item, items), NEW i \in DOMAIN items
    PROVE  /\ DOMAIN Members(items[i], item) = DOMAIN items[i]
           /\ \A m \in DOMAIN items[i] : Members(items[i], item)[m] = items[i][m]
           /\ DOMAIN items[i] \subseteq item.required \cup item.optional
<1>1. /\ item.required \subseteq DOMAIN items[i]
      /\ DOMAIN items[i] \subseteq item.required \cup item.optional
    BY DEF IsArrayOf
<1>2. item.required \cup (item.optional \cap DOMAIN items[i]) = DOMAIN items[i]
    BY <1>1
<1> QED
    BY <1>1, <1>2 DEF Members

\* An array has its length.
LEMMA ArrayLength ==
    ASSUME NEW item, NEW items, IsArrayOf(item, items)
    PROVE  /\ Len(items) \in Nat
           /\ DOMAIN items = 1..Len(items)
           /\ items \in Seq({items[i] : i \in DOMAIN items})
BY LenProperties DEF IsArrayOf

\* Inputs are shown as they were sent.
LEMMA InputsShown ==
    ASSUME NEW items, IsArrayOf(Input, items)
    PROVE  SameItems(EachOf(InputFromJson, items), items)
<1> DEFINE shown == EachOf(InputFromJson, items)
<1>1. shown = [i \in 1..Len(items) |-> Members(items[i], Input)] /\ Len(items) \in Nat
    BY ArrayLength DEF EachOf, InputFromJson
<1>2. Len(shown) = Len(items) /\ DOMAIN shown = 1..Len(items)
    BY <1>1
<1>3. ASSUME NEW i \in DOMAIN shown
      PROVE  /\ DOMAIN shown[i] = DOMAIN items[i]
             /\ \A m \in DOMAIN items[i] : shown[i][m] = items[i][m]
             /\ "channel" \notin DOMAIN items[i]
    <2>1. i \in DOMAIN items /\ shown[i] = Members(items[i], Input)
        BY <1>1, <1>2, <1>3, ArrayLength
    <2>2. "channel" \notin Input.required \cup Input.optional
        BY DEF Input
    <2> QED
        BY <2>1, <2>2, MembersKept
<1> HIDE DEF shown
<1>4. SameItems(shown, items)
    BY <1>2, <1>3 DEF SameItems
<1> QED
    BY <1>4 DEF shown

\* Outputs and forwards are shown as they were sent, but for the name of the
\* member that tells the channel.
LEMMA ChannelsShown ==
    ASSUME NEW items, NEW item, item \in {Output, Forward}, IsArrayOf(item, items),
           NEW parsed, parsed = [i \in DOMAIN items |-> Members(items[i], item)]
    PROVE  SameItems(EachOf(ShowChannel, parsed), items)
<1> DEFINE shown == EachOf(ShowChannel, parsed)
<1>1. /\ Len(items) \in Nat /\ DOMAIN items = 1..Len(items)
      /\ shown = [i \in 1..Len(items) |-> ShowChannel(Members(items[i], item))]
    BY ArrayLength DEF EachOf
<1>2. Len(shown) = Len(items) /\ DOMAIN shown = 1..Len(items)
    BY <1>1
<1>3. ASSUME NEW i \in DOMAIN shown
      PROVE  /\ DOMAIN shown[i] = (DOMAIN items[i] \ {"channel"}) \cup {"sourceChannel"}
             /\ \A m \in DOMAIN items[i] \ {"channel"} : shown[i][m] = items[i][m]
             /\ "sourceChannel" \notin DOMAIN items[i]
             /\ shown[i]["sourceChannel"] = items[i]["channel"]
    <2>1. i \in DOMAIN items /\ shown[i] = ShowChannel(Members(items[i], item))
        BY <1>1, <1>2, <1>3
    <2>2. /\ "sourceChannel" \notin item.required \cup item.optional
          /\ "channel" \in item.required
        BY DEF Output, Forward
    <2>3. "channel" \in DOMAIN items[i] /\ "sourceChannel" \notin DOMAIN items[i]
        BY <2>1, <2>2, MembersKept DEF IsArrayOf
    <2>4. /\ DOMAIN Members(items[i], item) = DOMAIN items[i]
          /\ \A m \in DOMAIN items[i] : Members(items[i], item)[m] = items[i][m]
        BY <2>1, MembersKept
    <2> QED
        BY <2>1, <2>3, <2>4 DEF ShowChannel
<1> HIDE DEF shown
<1>4. SameItems(shown, items)
    BY <1>2, <1>3 DEF SameItems
<1> QED
    BY <1>4 DEF shown

\* The entry of a device in the list shows its registration, with its channels.
LEMMA LiveShows ==
    ASSUME NEW m \in Registration
    PROVE  Shows(Live[m], Payload[m], TRUE)
<1> DEFINE json == Payload[m]
           specs == SpecsFromJson(json.specs)
           shown == ToJson(ToDomain(json))
<1>1. /\ IsArrayOf(Input, json.specs.inputs)
      /\ IsArrayOf(Output, json.specs.outputs)
      /\ IsArrayOf(Forward, json.specs.forwards)
    BY PayloadAssumption
<1>2. /\ shown.name = json.name
      /\ shown.specs = [numbers |-> [n \in Numbers |-> json.specs[n]],
                        inputs |-> EachOf(InputFromJson, json.specs.inputs),
                        outputs |-> EachOf(ShowChannel, EachOf(OutputFromJson, json.specs.outputs)),
                        forwards |-> EachOf(ShowChannel, EachOf(ForwardFromJson, json.specs.forwards))]
    BY DEF ToJson, ToDomain, SpecsFromJson, Specs
<1>3. SameItems(shown.specs.inputs, json.specs.inputs)
    BY <1>1, <1>2, InputsShown
<1>4. SameItems(shown.specs.outputs, json.specs.outputs)
    <2> DEFINE parsed == EachOf(OutputFromJson, json.specs.outputs)
    <2>1. parsed = [i \in DOMAIN json.specs.outputs |-> Members(json.specs.outputs[i], Output)]
        BY DEF EachOf, OutputFromJson
    <2>2. shown.specs.outputs = EachOf(ShowChannel, parsed)
        BY <1>2
    <2> HIDE DEF parsed
    <2>3. SameItems(EachOf(ShowChannel, parsed), json.specs.outputs)
        BY <1>1, <2>1, ChannelsShown
    <2> QED
        BY <2>2, <2>3
<1>5. SameItems(shown.specs.forwards, json.specs.forwards)
    <2> DEFINE parsed == EachOf(ForwardFromJson, json.specs.forwards)
    <2>1. parsed = [i \in DOMAIN json.specs.forwards |-> Members(json.specs.forwards[i], Forward)]
        BY DEF EachOf, ForwardFromJson
    <2>2. shown.specs.forwards = EachOf(ShowChannel, parsed)
        BY <1>2
    <2> HIDE DEF parsed
    <2>3. SameItems(EachOf(ShowChannel, parsed), json.specs.forwards)
        BY <1>1, <2>1, ChannelsShown
    <2> QED
        BY <2>2, <2>3
<1>6. \A n \in Numbers : shown.specs.numbers[n] = json.specs[n]
    BY <1>2
<1>7. Live[m] = shown
    BY DEF Live
<1> HIDE DEF shown
<1> QED
    BY <1>2, <1>3, <1>4, <1>5, <1>6, <1>7 DEF Shows

\* What is made of its document shows its registration, without its channels.
LEMMA PastShows ==
    ASSUME NEW m \in Registration
    PROVE  Shows(Past[m], Payload[m], FALSE)
<1> DEFINE json == Payload[m]
           shown == ToJson(FromDocument(ToDocument(ToDomain(json))))
<1>1. shown.name = json.name
    BY DEF ToJson, FromDocument, ToDocument, ToDomain
<1>2. shown.specs.numbers = [n \in Numbers |-> json.specs[n]]
    BY DEF ToJson, FromDocument, ToDocument, ToDomain, SpecsFromJson, Specs, Digits, LexicalCast
<1>3. Past[m] = shown
    BY DEF Past
<1> QED
    BY <1>1, <1>2, <1>3 DEF Shows

\* The list of devices shows exactly the devices it should, each as it
\* registered: whatever devices send, however their bytes are cut, whichever
\* writes are refused and whatever clients ask for in between.
THEOREM ListingIsRegistration == Spec => []ListingShowsRegistration
<1>1. SocketInv /\ RegistrationInv => ListingShowsRegistration
    <2> SUFFICES ASSUME SocketInv, RegistrationInv, NEW r \in Runs
                 PROVE  LET said(s) == Payload[Head(delivered[s][1]).of]
                            live == r \in keys \/ Connected(r) # {}
                            expected == IF live THEN Connected(r) ELSE Recorded(r)
                        IN  /\ \A shown \in Listing(r) :
                                    \E s \in expected : Shows(shown, said(s), live)
                            /\ \A s \in expected :
                                    \E shown \in Listing(r) : Shows(shown, said(s), live)
        BY DEF ListingShowsRegistration
    <2> DEFINE said(s) == Payload[Head(delivered[s][1]).of]
               live == r \in keys \/ Connected(r) # {}
               expected == IF live THEN Connected(r) ELSE Recorded(r)
               entry(m) == IF live THEN Live[m] ELSE Past[m]
    <2>1. Connected(r) = Of(r) \cap listed
        <3>1. ASSUME NEW s \in Of(r) PROVE s \in Connected(r) <=> s \in listed
            BY DEF RegistrationInv, Trace, Connected, Of
        <3> QED
            BY <3>1 DEF Connected
    <2>2. Recorded(r) = Of(r) \cap documents
        <3>1. ASSUME NEW s \in Of(r) PROVE s \in Recorded(r) <=> s \in documents
            BY DEF RegistrationInv, Trace, IsRefused, Recorded, Of
        <3> QED
            BY <3>1 DEF Recorded
    <2>3. live <=> r \in keys
        BY <2>1 DEF RegistrationInv, KeysHold
    <2>4. expected \subseteq Of(r)
        BY <2>1, <2>2
    <2>5. ASSUME NEW s \in Of(r)
          PROVE  /\ registered[s] = {Script[s][1]} /\ Script[s][1] \in Registration
                 /\ said(s) = Payload[Script[s][1]]
        <3>1. s \in Socket /\ registered[s] # {}
            BY DEF Of
        <3> QED
            BY <3>1, FirstMessage DEF RegistrationInv, Entry, Registration
    <2>6. ASSUME NEW m \in Registration PROVE Shows(entry(m), Payload[m], live)
        <3>1. CASE live
            <4>1. entry(m) = Live[m] /\ live = TRUE
                BY <3>1
            <4> QED
                BY <4>1, LiveShows
        <3>2. CASE ~live
            <4>1. entry(m) = Past[m] /\ live = FALSE
                BY <3>2
            <4> QED
                BY <4>1, PastShows
        <3> QED
            BY <3>1, <3>2
    <2>7. Listing(r) = {entry(m) : m \in UNION {registered[s] : s \in expected}}
        <3>1. CASE live
            BY <2>1, <2>3, <3>1 DEF Listing
        <3>2. CASE ~live
            BY <2>2, <2>3, <3>2 DEF Listing
        <3> QED
            BY <3>1, <3>2
    <2> HIDE DEF entry, said, expected, live
    <2>8. ASSUME NEW shown \in Listing(r)
          PROVE  \E s \in expected : Shows(shown, said(s), live)
        <3>1. PICK m \in UNION {registered[s] : s \in expected} : shown = entry(m)
            BY <2>7
        <3>2. PICK s \in expected : m \in registered[s]
            OBVIOUS
        <3>3. m \in Registration /\ said(s) = Payload[m]
            BY <2>4, <2>5, <3>2
        <3> QED
            BY <2>6, <3>1, <3>3
    <2>9. ASSUME NEW s \in expected
          PROVE  \E shown \in Listing(r) : Shows(shown, said(s), live)
        <3>1. /\ registered[s] = {Script[s][1]} /\ Script[s][1] \in Registration
              /\ said(s) = Payload[Script[s][1]]
            BY <2>4, <2>5
        <3>2. entry(Script[s][1]) \in Listing(r)
            BY <2>7, <3>1
        <3> QED
            BY <2>6, <3>1, <3>2
    <2> QED
        BY <2>8, <2>9 DEF said, expected, live
<1> QED
    BY <1>1, StreamInvariant, RegistrationInvariant, PTL

=============================================================================
