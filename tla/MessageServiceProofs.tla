------------------------ MODULE MessageServiceProofs ------------------------
(***************************************************************************)
(* The search of MessageService, for any messages, requests and widths of  *)
(* numbers: what is found is what the request means, as it was sent, and   *)
(* the statistics of it are those of all that is found.  The loops of the  *)
(* code are reasoned about by what holds after each of their rounds.       *)
(***************************************************************************)
EXTENDS MessageService, SequenceTheorems, FiniteSetTheorems,
        WellFoundedInduction, TLAPS

\* A number smaller than the modulus is left alone.
LEMMA SmallRemainder ==
    ASSUME NEW v \in Nat, NEW w \in Nat \ {0}, v < w
    PROVE  v % w = v
OBVIOUS

\* A field of 64 bits has room for a number of 32 bits.
LEMMA WidthsNested == W32 \in Nat \ {0} /\ W64 \in Nat \ {0} /\ W32 <= W64
<1>1. W32 \in Nat \ {0} /\ W64 \in Nat \ {0} /\ W64 % W32 = 0
    BY WidthAssumption
<1>2. ASSUME W64 < W32 PROVE FALSE
    BY <1>1, <1>2, SmallRemainder
<1> QED
    BY <1>1, <1>2

\* A number below 2^31 comes back from a document unchanged.
LEMMA NumbersKept ==
    ASSUME NEW v \in Nat, Fits(v)
    PROVE  Int32(v) = v /\ UInt32(v) = v /\ UInt64(v) = v
<1>1. v < W32 /\ v < W64
    BY WidthsNested DEF Fits
<1>2. v % W32 = v /\ v % W64 = v
    BY <1>1, WidthsNested, SmallRemainder
<1> QED
    BY <1>2 DEF Fits, Int32, UInt32, UInt64

\* What is stored is what devices send.
StoredType == stored \in Seq(Messages)

\* Only messages of devices are ever stored.
THEOREM StoredInvariant == Spec => []StoredType
<1>1. Init => StoredType
    BY EmptySeq DEF Init, StoredType
<1>2. StoredType /\ [Next]_stored => StoredType'
    BY AppendProperties DEF Next, AddMessage, StoredType
<1> QED
    BY <1>1, <1>2, PTL DEF Spec

\* All numbers of the stored message i are below 2^31.
Small(i) ==
    /\ Fits(stored[i].subSpecification)
    /\ Fits(stored[i].startTime)
    /\ Fits(stored[i].duration)
    /\ Fits(stored[i].payloadSize)

\* The document of such a message has its numbers, and gives it back.
LEMMA DocumentKept ==
    ASSUME StoredType, NEW i \in DOMAIN stored, Small(i)
    PROVE  LET doc == ToDocument(i, stored[i])
           IN  /\ doc.oid = i
               /\ doc.sender = stored[i].sender
               /\ doc.subSpecification = stored[i].subSpecification
               /\ doc.startTime = stored[i].startTime
               /\ doc.creationTimer = stored[i].creationTimer
               /\ FromDocument(doc) = stored[i]
<1> DEFINE m == stored[i]
           doc == ToDocument(i, m)
<1>1. m \in Messages
    BY ElementOfSeq, LenProperties DEF StoredType
<1>2. m \in [sender : {m.sender}, subSpecification : 0..W32 - 1, startTime : 0..W64 - 1,
             duration : 0..W64 - 1, payloadSize : 0..W64 - 1,
             creationTimer : {m.creationTimer}]
    BY <1>1, MessagesAssumption
<1>3. /\ m.subSpecification \in Nat /\ m.startTime \in Nat
      /\ m.duration \in Nat /\ m.payloadSize \in Nat
    BY <1>2, WidthsNested
<1>4. \A v \in {m.subSpecification, m.startTime, m.duration, m.payloadSize} :
        Int32(v) = v /\ UInt32(v) = v /\ UInt64(v) = v
    BY <1>3, NumbersKept DEF Small
<1>5. doc = [oid |-> i, sender |-> m.sender, subSpecification |-> m.subSpecification,
             startTime |-> m.startTime, duration |-> m.duration,
             payloadSize |-> m.payloadSize, creationTimer |-> m.creationTimer]
    BY <1>4 DEF ToDocument
<1>6. m = [sender |-> m.sender, subSpecification |-> m.subSpecification,
           startTime |-> m.startTime, duration |-> m.duration,
           payloadSize |-> m.payloadSize, creationTimer |-> m.creationTimer]
    BY <1>2
<1> HIDE DEF m, doc
<1>7. FromDocument(doc) = m
    BY <1>4, <1>5, <1>6 DEF FromDocument
<1> QED
    BY <1>5, <1>7 DEF m, doc

\* A query that does not name payload parts selects what is meant.
LEMMA MatchesMeant ==
    ASSUME StoredType, \A i \in DOMAIN stored : Small(i),
           NEW request, request.payloadParts = {}
    PROVE  {d \in Documents : Matches(d, request)} =
            {ToDocument(i, stored[i]) : i \in {j \in DOMAIN stored : Meant(stored[j], request)}}
<1>1. \A i \in DOMAIN stored :
        Matches(ToDocument(i, stored[i]), request) <=> Meant(stored[i], request)
    BY DocumentKept DEF Matches, Meant
<1> QED
    BY <1>1 DEF Documents

\* Documents with a larger oid are as many as messages meant that came later.
LEMMA NewerCounted ==
    ASSUME StoredType, \A i \in DOMAIN stored : Small(i),
           NEW meant \in SUBSET DOMAIN stored, NEW i \in meant
    PROVE  Cardinality({e \in {ToDocument(j, stored[j]) : j \in meant} : e.oid > i}) =
            Cardinality({j \in meant : j > i})
<1> DEFINE later == {j \in meant : j > i}
           docs == {ToDocument(j, stored[j]) : j \in meant}
           newer == {e \in docs : e.oid > i}
           doc == [j \in later |-> ToDocument(j, stored[j])]
<1>1. \A j \in meant : ToDocument(j, stored[j]).oid = j
    BY DocumentKept
<1>2. IsFiniteSet(later)
    <2>1. DOMAIN stored = 1..Len(stored) /\ Len(stored) \in Nat
        BY LenProperties DEF StoredType
    <2> QED
        <3>1. IsFiniteSet(1..Len(stored))
            BY <2>1, FS_Interval
        <3>2. later \subseteq 1..Len(stored)
            BY <2>1
        <3> QED
            BY <3>1, <3>2, FS_Subset
<1>3. doc \in Bijection(later, newer)
    <2>1. doc \in [later -> newer]
        BY <1>1
    <2>2. \A j, k \in later : doc[j] = doc[k] => j = k
        BY <1>1
    <2>3. \A e \in newer : \E j \in later : doc[j] = e
        BY <1>1
    <2> QED
        BY <2>1, <2>2, <2>3 DEF Bijection, Injection, Surjection, IsInjective
<1>4. ExistsBijection(later, newer)
    BY <1>3 DEF ExistsBijection
<1> QED
    BY <1>2, <1>4, FS_Bijection

\* A request that does not filter by payload parts finds the messages it means,
\* the newest ones when it has a count, all of them when that is 0, as they were
\* sent, if their numbers fit in 31 bits.
THEOREM SearchFindsWhatIsMeant == Spec => []SearchIsExact
<1>1. StoredType => SearchIsExact
    <2> SUFFICES ASSUME StoredType, \A i \in DOMAIN stored : Small(i),
                        NEW request \in Requests, request.payloadParts = {}
                 PROVE  LET meant == {i \in DOMAIN stored : Meant(stored[i], request)}
                            found == Search(Documents, request)
                        IN  /\ {doc.oid : doc \in found} =
                                {i \in meant : \A n \in request.count :
                                    n = 0 \/ Cardinality({j \in meant : j > i}) < n}
                            /\ \A doc \in found : FromDocument(doc) = stored[doc.oid]
        BY DEF SearchIsExact, Small
    <2> DEFINE meant == {i \in DOMAIN stored : Meant(stored[i], request)}
               docs == {ToDocument(j, stored[j]) : j \in meant}
               found == Search(Documents, request)
    <2>1. {d \in Documents : Matches(d, request)} = docs
        BY MatchesMeant
    <2>2. \A j \in meant : /\ ToDocument(j, stored[j]).oid = j
                           /\ FromDocument(ToDocument(j, stored[j])) = stored[j]
        BY DocumentKept
    <2>3. found = {d \in docs : \A n \in request.count :
                    n = 0 \/ Cardinality({e \in docs : e.oid > d.oid}) < n}
        <3>1. CASE request.count = {}
            BY <2>1, <3>1 DEF Search
        <3>2. CASE request.count # {}
            <4>1. PICK n \in request.count : request.count = {n}
                BY <3>2, RequestsAssumption
            <4>2. (CHOOSE k \in request.count : TRUE) = n
                BY <4>1
            <4> QED
                BY <2>1, <3>2, <4>1, <4>2 DEF Search, Newest
        <3> QED
            BY <3>1, <3>2
    <2>4. ASSUME NEW i \in meant
          PROVE  Cardinality({e \in docs : e.oid > i}) = Cardinality({j \in meant : j > i})
        BY NewerCounted
    <2>5. found \subseteq docs
        BY <2>3
    <2>6. \A j \in meant :
            ToDocument(j, stored[j]) \in found <=>
                \A n \in request.count : n = 0 \/ Cardinality({k \in meant : k > j}) < n
        <3> SUFFICES ASSUME NEW j \in meant
                     PROVE  ToDocument(j, stored[j]) \in found <=>
                                \A n \in request.count : n = 0 \/ Cardinality({k \in meant : k > j}) < n
            OBVIOUS
        <3> DEFINE d == ToDocument(j, stored[j])
        <3>1. d \in docs /\ d.oid = j
            BY <2>2
        <3>2. Cardinality({e \in docs : e.oid > j}) = Cardinality({k \in meant : k > j})
            BY <2>4
        <3> HIDE DEF d, docs, meant, found
        <3>3. d \in found <=> \A n \in request.count : n = 0 \/ Cardinality({e \in docs : e.oid > j}) < n
            BY <2>3, <3>1
        <3> QED
            BY <3>2, <3>3 DEF d
    <2> HIDE DEF found, meant
    <2>7. \A doc \in found : \E j \in meant : doc = ToDocument(j, stored[j])
        BY <2>5
    <2>8. {doc.oid : doc \in found} =
            {i \in meant : \A n \in request.count :
                n = 0 \/ Cardinality({j \in meant : j > i}) < n}
        BY <2>2, <2>6, <2>7
    <2>9. \A doc \in found : FromDocument(doc) = stored[doc.oid]
        BY <2>2, <2>7
    <2> QED
        BY <2>8, <2>9 DEF found, meant
<1> QED
    BY <1>1, StoredInvariant, PTL

-----------------------------------------------------------------------------
(* Loops over sequences.                                                   *)

\* Induction over the rounds of a loop, on a set of rounds.
LEMMA Rounds ==
    ASSUME NEW N \in Nat, NEW S, 0 \in S, \A n \in 1..N : n - 1 \in S => n \in S
    PROVE  \A n \in 0..N : n \in S
<1> DEFINE T == (0..N) \ S
           R == OpToRel(<, Nat)
<1> SUFFICES ASSUME T # {} PROVE FALSE
    OBVIOUS
<1> HIDE DEF R
<1>1. IsWellFoundedOn(R, Nat)
    BY NatLessThanWellFounded DEF R
<1>2. T \subseteq Nat
    OBVIOUS
<1>3. PICK x \in T : \A y \in T : ~ (<<y, x>> \in R)
    <2> HIDE DEF T
    <2> QED
        BY <1>1, <1>2, WFMin
<1>4. ASSUME NEW y \in T PROVE ~(y < x)
    <2>1. y \in Nat /\ x \in Nat /\ <<y, x>> \notin R
        BY <1>3
    <2> QED
        BY <2>1 DEF OpToRel, R
<1>5. x \in 1..N /\ x \notin S
    BY <1>3
<1>6. x - 1 \in 0..N /\ x - 1 < x
    BY <1>5
<1>7. x - 1 \in S
    BY <1>4, <1>6
<1> QED
    BY <1>5, <1>7

\* f has the values of a loop after each round, the nth of which is step[n].
IsLoop(f, N, A, base, step) ==
    /\ f \in [0..N -> A]
    /\ f[0] = base
    /\ \A n \in 1..N : f[n] = step[n][f[n - 1]]

\* Every loop has such values.
LEMMA Recursion ==
    ASSUME NEW N \in Nat, NEW A, NEW base \in A, NEW step \in [1..N -> [A -> A]]
    PROVE  \E f : IsLoop(f, N, A, base, step)
<1> DEFINE Reached(m) == \E f : IsLoop(f, m, A, base, step)
           S == {m \in 0..N : Reached(m)}
<1>1. 0 \in S
    <2> DEFINE f == [n \in 0..0 |-> base]
    <2>1. f \in [0..0 -> A] /\ f[0] = base /\ \A n \in 1..0 : f[n] = step[n][f[n - 1]]
        OBVIOUS
    <2>2. Reached(0)
        BY <2>1 DEF IsLoop
    <2> QED
        BY <2>2
<1>2. ASSUME NEW m \in 1..N, m - 1 \in S PROVE m \in S
    <2>1. PICK f : IsLoop(f, m - 1, A, base, step)
        BY <1>2
    <2>2. /\ f \in [0..m - 1 -> A] /\ f[0] = base
          /\ \A n \in 1..m - 1 : f[n] = step[n][f[n - 1]]
        BY <2>1 DEF IsLoop
    <2>3. m - 1 \in 0..m - 1 /\ step[m][f[m - 1]] \in A
        BY <2>2
    <2> DEFINE g == [n \in 0..m |-> IF n = m THEN step[m][f[m - 1]] ELSE f[n]]
    <2>4. g \in [0..m -> A] /\ g[0] = base
        BY <2>2, <2>3
    <2>5. ASSUME NEW n \in 1..m PROVE g[n] = step[n][g[n - 1]]
        <3>1. n - 1 \in 0..m /\ n - 1 # m /\ g[n - 1] = f[n - 1]
            OBVIOUS
        <3>2. CASE n = m
            BY <3>1, <3>2
        <3>3. CASE n # m
            BY <2>2, <3>1, <3>3
        <3> QED
            BY <3>2, <3>3
    <2> HIDE DEF g
    <2>6. Reached(m)
        BY <2>4, <2>5 DEF IsLoop
    <2> HIDE DEF Reached
    <2> QED
        BY <2>6
<1>3. \A m \in 0..N : m \in S
    <2> HIDE DEF S
    <2> QED
        BY <1>1, <1>2, Rounds
<1> QED
    BY <1>3

\* The rounds of Sum.
LEMMA SumRounds ==
    ASSUME NEW field, NEW rows, Len(rows) \in Nat,
           \A n \in 1..Len(rows) : rows[n][field] \in Nat
    PROVE  \E sum \in [0..Len(rows) -> Nat] :
            /\ sum[0] = 0
            /\ \A n \in 1..Len(rows) :
                sum[n] = sum[n - 1] + rows[n][field]
            /\ Sum(field, rows) = sum[Len(rows)]
<1> DEFINE N == Len(rows)
           A == Nat
           none == 0
           After(x, n) == x + rows[n][field]
           step == [n \in 1..N |-> [x \in A |-> After(x, n)]]
           result == CHOOSE f : f = [n \in 0..N |-> IF n = 0 THEN none ELSE After(f[n - 1], n)]
<1>1. N \in Nat /\ none \in A
    OBVIOUS
<1>2. \A n \in 1..N : \A x \in A : After(x, n) \in A
    OBVIOUS
<1>3. Sum(field, rows) = result[N]
    BY DEF Sum
<1> HIDE DEF N, A, none, After
<1>4. PICK f : IsLoop(f, N, A, none, step)
    <2>1. step \in [1..N -> [A -> A]]
        BY <1>2
    <2> HIDE DEF step
    <2> QED
        BY <1>1, <2>1, Recursion
<1>5. f = [n \in 0..N |-> IF n = 0 THEN none ELSE After(f[n - 1], n)]
    <2>1. f \in [0..N -> A] /\ f[0] = none /\ \A n \in 1..N : f[n] = step[n][f[n - 1]]
        BY <1>4 DEF IsLoop
    <2>2. ASSUME NEW n \in 1..N PROVE f[n] = After(f[n - 1], n)
        <3>1. f[n - 1] \in A
            <4>1. n - 1 \in 0..N
                BY <1>1
            <4> QED
                BY <2>1, <4>1
        <3>2. step[n] = [x \in A |-> After(x, n)]
            OBVIOUS
        <3> HIDE DEF step
        <3> QED
            BY <2>1, <3>1, <3>2
    <2> HIDE DEF step
    <2>3. ASSUME NEW n \in 0..N PROVE f[n] = IF n = 0 THEN none ELSE After(f[n - 1], n)
        <3>1. CASE n = 0
            BY <2>1, <3>1
        <3>2. CASE n # 0
            <4>1. n \in 1..N
                BY <1>1, <3>2
            <4> QED
                BY <2>2, <3>2, <4>1
        <3> QED
            BY <3>1, <3>2
    <2> QED
        BY <2>1, <2>3
<1>6. result = [n \in 0..N |-> IF n = 0 THEN none ELSE After(result[n - 1], n)]
    BY <1>5
<1> HIDE DEF result, step
<1>7. result[0] = none /\ \A n \in 1..N : result[n] = After(result[n - 1], n)
    <2>1. 0 \in 0..N /\ \A n \in 1..N : n \in 0..N /\ n # 0
        BY <1>1
    <2> QED
        BY <1>6, <2>1
<1>8. \A n \in 0..N : result[n] \in A
    <2> DEFINE S == {n \in 0..N : result[n] \in A}
    <2>1. 0 \in S
        BY <1>1, <1>7
    <2>2. ASSUME NEW n \in 1..N, n - 1 \in S PROVE n \in S
        <3>1. n \in 0..N /\ result[n - 1] \in A /\ result[n] = After(result[n - 1], n)
            BY <1>1, <1>7, <2>2
        <3> QED
            BY <1>2, <3>1
    <2> HIDE DEF S
    <2>3. \A n \in 0..N : n \in S
        BY <1>1, <2>1, <2>2, Rounds
    <2> QED
        BY <2>3 DEF S
<1>9. result \in [0..N -> A]
    BY <1>6, <1>8
<1> QED
    BY <1>3, <1>7, <1>9 DEF N, A, none, After

\* The rounds of With.
LEMMA WithRounds ==
    ASSUME NEW V, NEW msgs \in Seq(V), NEW time
    PROVE  \E bucket \in [0..Len(msgs) -> Seq(V)] :
            /\ bucket[0] = <<>>
            /\ \A n \in 1..Len(msgs) :
                bucket[n] = (IF msgs[n].startTime = time THEN Append(bucket[n - 1], msgs[n]) ELSE bucket[n - 1])
            /\ With(msgs, time) = bucket[Len(msgs)]
<1> DEFINE N == Len(msgs)
           A == Seq(V)
           none == <<>>
           After(x, n) == (IF msgs[n].startTime = time THEN Append(x, msgs[n]) ELSE x)
           step == [n \in 1..N |-> [x \in A |-> After(x, n)]]
           result == CHOOSE f : f = [n \in 0..N |-> IF n = 0 THEN none ELSE After(f[n - 1], n)]
<1>1. N \in Nat /\ none \in A
    BY EmptySeq, LenProperties
<1>2. \A n \in 1..N : \A x \in A : After(x, n) \in A
    BY ElementOfSeq, AppendProperties
<1>3. With(msgs, time) = result[N]
    BY DEF With
<1> HIDE DEF N, A, none, After
<1>4. PICK f : IsLoop(f, N, A, none, step)
    <2>1. step \in [1..N -> [A -> A]]
        BY <1>2
    <2> HIDE DEF step
    <2> QED
        BY <1>1, <2>1, Recursion
<1>5. f = [n \in 0..N |-> IF n = 0 THEN none ELSE After(f[n - 1], n)]
    <2>1. f \in [0..N -> A] /\ f[0] = none /\ \A n \in 1..N : f[n] = step[n][f[n - 1]]
        BY <1>4 DEF IsLoop
    <2>2. ASSUME NEW n \in 1..N PROVE f[n] = After(f[n - 1], n)
        <3>1. f[n - 1] \in A
            <4>1. n - 1 \in 0..N
                BY <1>1
            <4> QED
                BY <2>1, <4>1
        <3>2. step[n] = [x \in A |-> After(x, n)]
            OBVIOUS
        <3> HIDE DEF step
        <3> QED
            BY <2>1, <3>1, <3>2
    <2> HIDE DEF step
    <2>3. ASSUME NEW n \in 0..N PROVE f[n] = IF n = 0 THEN none ELSE After(f[n - 1], n)
        <3>1. CASE n = 0
            BY <2>1, <3>1
        <3>2. CASE n # 0
            <4>1. n \in 1..N
                BY <1>1, <3>2
            <4> QED
                BY <2>2, <3>2, <4>1
        <3> QED
            BY <3>1, <3>2
    <2> QED
        BY <2>1, <2>3
<1>6. result = [n \in 0..N |-> IF n = 0 THEN none ELSE After(result[n - 1], n)]
    BY <1>5
<1> HIDE DEF result, step
<1>7. result[0] = none /\ \A n \in 1..N : result[n] = After(result[n - 1], n)
    <2>1. 0 \in 0..N /\ \A n \in 1..N : n \in 0..N /\ n # 0
        BY <1>1
    <2> QED
        BY <1>6, <2>1
<1>8. \A n \in 0..N : result[n] \in A
    <2> DEFINE S == {n \in 0..N : result[n] \in A}
    <2>1. 0 \in S
        BY <1>1, <1>7
    <2>2. ASSUME NEW n \in 1..N, n - 1 \in S PROVE n \in S
        <3>1. n \in 0..N /\ result[n - 1] \in A /\ result[n] = After(result[n - 1], n)
            BY <1>1, <1>7, <2>2
        <3> QED
            BY <1>2, <3>1
    <2> HIDE DEF S
    <2>3. \A n \in 0..N : n \in S
        BY <1>1, <2>1, <2>2, Rounds
    <2> QED
        BY <2>3 DEF S
<1>9. result \in [0..N -> A]
    BY <1>6, <1>8
<1> QED
    BY <1>3, <1>7, <1>9 DEF N, A, none, After

\* The rounds of Visited.
LEMMA VisitedRounds ==
    ASSUME NEW V, NEW msgs \in Seq(V), Len(Times(msgs)) \in Nat,
           \A time \in Nat : With(msgs, time) \in Seq(V),
           \A k \in 1..Len(Times(msgs)) : Times(msgs)[k] \in Nat
    PROVE  \E visited \in [0..Len(Times(msgs)) -> Seq(V)] :
            /\ visited[0] = <<>>
            /\ \A n \in 1..Len(Times(msgs)) :
                visited[n] = visited[n - 1] \o With(msgs, Times(msgs)[n])
            /\ Visited(msgs) = visited[Len(Times(msgs))]
<1> DEFINE N == Len(Times(msgs))
           A == Seq(V)
           none == <<>>
           After(x, n) == x \o With(msgs, Times(msgs)[n])
           step == [n \in 1..N |-> [x \in A |-> After(x, n)]]
           result == CHOOSE f : f = [n \in 0..N |-> IF n = 0 THEN none ELSE After(f[n - 1], n)]
<1>1. N \in Nat /\ none \in A
    BY EmptySeq
<1>2. \A n \in 1..N : \A x \in A : After(x, n) \in A
    BY ConcatProperties
<1>3. Visited(msgs) = result[N]
    BY DEF Visited
<1> HIDE DEF N, A, none, After
<1>4. PICK f : IsLoop(f, N, A, none, step)
    <2>1. step \in [1..N -> [A -> A]]
        BY <1>2
    <2> HIDE DEF step
    <2> QED
        BY <1>1, <2>1, Recursion
<1>5. f = [n \in 0..N |-> IF n = 0 THEN none ELSE After(f[n - 1], n)]
    <2>1. f \in [0..N -> A] /\ f[0] = none /\ \A n \in 1..N : f[n] = step[n][f[n - 1]]
        BY <1>4 DEF IsLoop
    <2>2. ASSUME NEW n \in 1..N PROVE f[n] = After(f[n - 1], n)
        <3>1. f[n - 1] \in A
            <4>1. n - 1 \in 0..N
                BY <1>1
            <4> QED
                BY <2>1, <4>1
        <3>2. step[n] = [x \in A |-> After(x, n)]
            OBVIOUS
        <3> HIDE DEF step
        <3> QED
            BY <2>1, <3>1, <3>2
    <2> HIDE DEF step
    <2>3. ASSUME NEW n \in 0..N PROVE f[n] = IF n = 0 THEN none ELSE After(f[n - 1], n)
        <3>1. CASE n = 0
            BY <2>1, <3>1
        <3>2. CASE n # 0
            <4>1. n \in 1..N
                BY <1>1, <3>2
            <4> QED
                BY <2>2, <3>2, <4>1
        <3> QED
            BY <3>1, <3>2
    <2> QED
        BY <2>1, <2>3
<1>6. result = [n \in 0..N |-> IF n = 0 THEN none ELSE After(result[n - 1], n)]
    BY <1>5
<1> HIDE DEF result, step
<1>7. result[0] = none /\ \A n \in 1..N : result[n] = After(result[n - 1], n)
    <2>1. 0 \in 0..N /\ \A n \in 1..N : n \in 0..N /\ n # 0
        BY <1>1
    <2> QED
        BY <1>6, <2>1
<1>8. \A n \in 0..N : result[n] \in A
    <2> DEFINE S == {n \in 0..N : result[n] \in A}
    <2>1. 0 \in S
        BY <1>1, <1>7
    <2>2. ASSUME NEW n \in 1..N, n - 1 \in S PROVE n \in S
        <3>1. n \in 0..N /\ result[n - 1] \in A /\ result[n] = After(result[n - 1], n)
            BY <1>1, <1>7, <2>2
        <3> QED
            BY <1>2, <3>1
    <2> HIDE DEF S
    <2>3. \A n \in 0..N : n \in S
        BY <1>1, <2>1, <2>2, Rounds
    <2> QED
        BY <2>3 DEF S
<1>9. result \in [0..N -> A]
    BY <1>6, <1>8
<1> QED
    BY <1>3, <1>7, <1>9 DEF N, A, none, After

\* The rounds of Highest.
LEMMA HighestRounds ==
    ASSUME NEW field, NEW msgs, Len(Visited(msgs)) \in Nat,
           \A n \in 1..Len(Visited(msgs)) : Visited(msgs)[n][field] \in Nat
    PROVE  \E max \in [0..Len(Visited(msgs)) -> Nat] :
            /\ max[0] = 0
            /\ \A n \in 1..Len(Visited(msgs)) :
                max[n] = (IF Visited(msgs)[n][field] > max[n - 1] THEN Visited(msgs)[n][field] ELSE max[n - 1])
            /\ Highest(field, msgs) = max[Len(Visited(msgs))]
<1> DEFINE N == Len(Visited(msgs))
           A == Nat
           none == 0
           After(x, n) == (IF Visited(msgs)[n][field] > x THEN Visited(msgs)[n][field] ELSE x)
           step == [n \in 1..N |-> [x \in A |-> After(x, n)]]
           result == CHOOSE f : f = [n \in 0..N |-> IF n = 0 THEN none ELSE After(f[n - 1], n)]
<1>1. N \in Nat /\ none \in A
    OBVIOUS
<1>2. \A n \in 1..N : \A x \in A : After(x, n) \in A
    OBVIOUS
<1>3. Highest(field, msgs) = result[N]
    BY DEF Highest
<1> HIDE DEF N, A, none, After
<1>4. PICK f : IsLoop(f, N, A, none, step)
    <2>1. step \in [1..N -> [A -> A]]
        BY <1>2
    <2> HIDE DEF step
    <2> QED
        BY <1>1, <2>1, Recursion
<1>5. f = [n \in 0..N |-> IF n = 0 THEN none ELSE After(f[n - 1], n)]
    <2>1. f \in [0..N -> A] /\ f[0] = none /\ \A n \in 1..N : f[n] = step[n][f[n - 1]]
        BY <1>4 DEF IsLoop
    <2>2. ASSUME NEW n \in 1..N PROVE f[n] = After(f[n - 1], n)
        <3>1. f[n - 1] \in A
            <4>1. n - 1 \in 0..N
                BY <1>1
            <4> QED
                BY <2>1, <4>1
        <3>2. step[n] = [x \in A |-> After(x, n)]
            OBVIOUS
        <3> HIDE DEF step
        <3> QED
            BY <2>1, <3>1, <3>2
    <2> HIDE DEF step
    <2>3. ASSUME NEW n \in 0..N PROVE f[n] = IF n = 0 THEN none ELSE After(f[n - 1], n)
        <3>1. CASE n = 0
            BY <2>1, <3>1
        <3>2. CASE n # 0
            <4>1. n \in 1..N
                BY <1>1, <3>2
            <4> QED
                BY <2>2, <3>2, <4>1
        <3> QED
            BY <3>1, <3>2
    <2> QED
        BY <2>1, <2>3
<1>6. result = [n \in 0..N |-> IF n = 0 THEN none ELSE After(result[n - 1], n)]
    BY <1>5
<1> HIDE DEF result, step
<1>7. result[0] = none /\ \A n \in 1..N : result[n] = After(result[n - 1], n)
    <2>1. 0 \in 0..N /\ \A n \in 1..N : n \in 0..N /\ n # 0
        BY <1>1
    <2> QED
        BY <1>6, <2>1
<1>8. \A n \in 0..N : result[n] \in A
    <2> DEFINE S == {n \in 0..N : result[n] \in A}
    <2>1. 0 \in S
        BY <1>1, <1>7
    <2>2. ASSUME NEW n \in 1..N, n - 1 \in S PROVE n \in S
        <3>1. n \in 0..N /\ result[n - 1] \in A /\ result[n] = After(result[n - 1], n)
            BY <1>1, <1>7, <2>2
        <3> QED
            BY <1>2, <3>1
    <2> HIDE DEF S
    <2>3. \A n \in 0..N : n \in S
        BY <1>1, <2>1, <2>2, Rounds
    <2> QED
        BY <2>3 DEF S
<1>9. result \in [0..N -> A]
    BY <1>6, <1>8
<1> QED
    BY <1>3, <1>7, <1>9 DEF N, A, none, After

\* The rounds of Minimum.
IsMinimum(min, tested, field, msgs) ==
    /\ min \in [0..Len(Visited(msgs)) -> Nat]
    /\ min[0] = W64 - 1
    /\ \A n \in 1..Len(Visited(msgs)) :
        min[n] = (IF Visited(msgs)[n][tested] < min[n - 1] THEN Visited(msgs)[n][field] ELSE min[n - 1])
    /\ Minimum(tested, field, msgs) = min[Len(Visited(msgs))]

LEMMA MinimumRounds ==
    ASSUME NEW tested, NEW field, NEW msgs, Len(Visited(msgs)) \in Nat,
           \A n \in 1..Len(Visited(msgs)) : Visited(msgs)[n][tested] \in Nat,
           \A n \in 1..Len(Visited(msgs)) : Visited(msgs)[n][field] \in Nat
    PROVE  \E min : IsMinimum(min, tested, field, msgs)
<1> DEFINE N == Len(Visited(msgs))
           A == Nat
           none == W64 - 1
           After(x, n) == (IF Visited(msgs)[n][tested] < x THEN Visited(msgs)[n][field] ELSE x)
           step == [n \in 1..N |-> [x \in A |-> After(x, n)]]
           result == CHOOSE f : f = [n \in 0..N |-> IF n = 0 THEN none ELSE After(f[n - 1], n)]
<1>1. N \in Nat /\ none \in A
    BY WidthAssumption
<1>2. \A n \in 1..N : \A x \in A : After(x, n) \in A
    OBVIOUS
<1>3. Minimum(tested, field, msgs) = result[N]
    BY DEF Minimum
<1> HIDE DEF N, A, none, After
<1>4. PICK f : IsLoop(f, N, A, none, step)
    <2>1. step \in [1..N -> [A -> A]]
        BY <1>2
    <2> HIDE DEF step
    <2> QED
        BY <1>1, <2>1, Recursion
<1>5. f = [n \in 0..N |-> IF n = 0 THEN none ELSE After(f[n - 1], n)]
    <2>1. f \in [0..N -> A] /\ f[0] = none /\ \A n \in 1..N : f[n] = step[n][f[n - 1]]
        BY <1>4 DEF IsLoop
    <2>2. ASSUME NEW n \in 1..N PROVE f[n] = After(f[n - 1], n)
        <3>1. f[n - 1] \in A
            <4>1. n - 1 \in 0..N
                BY <1>1
            <4> QED
                BY <2>1, <4>1
        <3>2. step[n] = [x \in A |-> After(x, n)]
            OBVIOUS
        <3> HIDE DEF step
        <3> QED
            BY <2>1, <3>1, <3>2
    <2> HIDE DEF step
    <2>3. ASSUME NEW n \in 0..N PROVE f[n] = IF n = 0 THEN none ELSE After(f[n - 1], n)
        <3>1. CASE n = 0
            BY <2>1, <3>1
        <3>2. CASE n # 0
            <4>1. n \in 1..N
                BY <1>1, <3>2
            <4> QED
                BY <2>2, <3>2, <4>1
        <3> QED
            BY <3>1, <3>2
    <2> QED
        BY <2>1, <2>3
<1>6. result = [n \in 0..N |-> IF n = 0 THEN none ELSE After(result[n - 1], n)]
    BY <1>5
<1> HIDE DEF result, step
<1>7. result[0] = none /\ \A n \in 1..N : result[n] = After(result[n - 1], n)
    <2>1. 0 \in 0..N /\ \A n \in 1..N : n \in 0..N /\ n # 0
        BY <1>1
    <2> QED
        BY <1>6, <2>1
<1>8. \A n \in 0..N : result[n] \in A
    <2> DEFINE S == {n \in 0..N : result[n] \in A}
    <2>1. 0 \in S
        BY <1>1, <1>7
    <2>2. ASSUME NEW n \in 1..N, n - 1 \in S PROVE n \in S
        <3>1. n \in 0..N /\ result[n - 1] \in A /\ result[n] = After(result[n - 1], n)
            BY <1>1, <1>7, <2>2
        <3> QED
            BY <1>2, <3>1
    <2> HIDE DEF S
    <2>3. \A n \in 0..N : n \in S
        BY <1>1, <2>1, <2>2, Rounds
    <2> QED
        BY <2>3 DEF S
<1>9. result \in [0..N -> A]
    BY <1>6, <1>8
<1>10. IsMinimum(result, tested, field, msgs)
    BY <1>3, <1>7, <1>9 DEF N, A, none, After, IsMinimum
<1> QED
    BY <1>10

\* What remains of a sum does not change with what remains of a part of it.
LEMMA RemainderOfSum ==
    ASSUME NEW w \in Nat \ {0}, NEW a \in Nat, NEW b \in Nat
    PROVE  (a + (b % w)) % w = (a + b) % w
<1> DEFINE c == a + (b % w)
<1>1. b = w * (b \div w) + (b % w) /\ b \div w \in Int /\ b % w \in Int
    <2>1. b = w * (b \div w) + (b % w)
        OBVIOUS
    <2> QED
        BY <2>1
<1>2. c = w * (c \div w) + (c % w) /\ c \div w \in Int /\ c % w \in 0..w - 1
    <2>1. c \in Int
        BY <1>1
    <2> HIDE DEF c
    <2>2. c = w * (c \div w) + (c % w)
        BY <2>1
    <2>3. 0 <= c % w /\ c % w < w /\ c % w \in Int /\ c \div w \in Int
        BY <2>1
    <2> QED
        BY <2>2, <2>3
<1> DEFINE q == (b \div w) + (c \div w)
<1>3. a + b = q * w + (c % w)
    BY <1>1, <1>2
<1>4. q \in Int
    BY <1>1, <1>2
<1> HIDE DEF q, c
<1>5. (q * w + (c % w)) % w = c % w
    <2> DEFINE r == c % w
    <2>1. r \in 0..w - 1
        BY <1>2
    <2> HIDE DEF r
    <2>2. (q * w + r) % w = r
        BY <1>4, <2>1
    <2> QED
        BY <2>2 DEF r
<1> QED
    BY <1>3, <1>5 DEF c

\* An average lies between the least and the greatest.
LEMMA AverageBetween ==
    ASSUME NEW n \in Nat \ {0}, NEW sum \in Nat, NEW low \in Nat, NEW high \in Nat,
           n * low <= sum, sum <= n * high
    PROVE  low <= sum \div n /\ sum \div n <= high
<1> DEFINE q == sum \div n
           r == sum % n
<1>1. sum = n * q + r /\ q \in Int /\ r \in Int /\ 0 <= r /\ r < n
    <2>1. sum = n * (sum \div n) + (sum % n)
        OBVIOUS
    <2> QED
        BY <2>1
<1> HIDE DEF q, r
<1>2. ASSUME NEW x \in Int, NEW y \in Int, x < y PROVE n * x + n <= n * y
    <2>1. PICK d \in Nat : y = x + 1 + d
        <3>1. y - x - 1 \in Nat /\ y = x + 1 + (y - x - 1)
            BY <1>2
        <3> QED
            BY <3>1
    <2>2. n * y = n * x + n + n * d
        BY <2>1
    <2>3. n * d \in Nat /\ n * x \in Int
        OBVIOUS
    <2> QED
        BY <2>2, <2>3
<1>3. n * q \in Int /\ n * low \in Int /\ n * high \in Int
    BY <1>1
<1>4. ~(q < low)
    BY <1>1, <1>2, <1>3
<1>5. ~(high < q)
    BY <1>1, <1>2, <1>3
<1> QED
    BY <1>1, <1>4, <1>5 DEF q

-----------------------------------------------------------------------------
(* Sorting.                                                                *)

\* Ascending lists the numbers of a finite set, each once, in their order.
LEMMA AscendingOrder ==
    ASSUME NEW S \in SUBSET Nat, IsFiniteSet(S)
    PROVE  /\ Cardinality(S) \in Nat
           /\ Ascending(S) \in Seq(S) /\ Len(Ascending(S)) = Cardinality(S)
           /\ \A i, j \in 1..Cardinality(S) : i < j => Ascending(S)[i] < Ascending(S)[j]
           /\ \A x \in S : \E i \in 1..Cardinality(S) : Ascending(S)[i] = x
<1> DEFINE N == Cardinality(S)
           Below(x) == {y \in S : y < x}
           rank == [x \in S |-> Cardinality(Below(x))]
<1>1. N \in Nat
    BY FS_CardinalityType
<1>2. ASSUME NEW x \in S
      PROVE  /\ IsFiniteSet(Below(x)) /\ rank[x] \in Nat /\ rank[x] < N
    <2>1. Below(x) \in SUBSET S /\ Below(x) # S
        OBVIOUS
    <2>2. IsFiniteSet(Below(x)) /\ Cardinality(Below(x)) <= N /\ Cardinality(Below(x)) # N
        BY <2>1, FS_Subset
    <2>3. Cardinality(Below(x)) \in Nat
        BY <2>2, FS_CardinalityType
    <2> QED
        BY <1>1, <2>2, <2>3
<1>3. ASSUME NEW x \in S, NEW y \in S, x < y PROVE rank[x] < rank[y]
    <2>1. x \notin Below(x) /\ Below(x) \cup {x} \in SUBSET Below(y)
        <3>1. x \in Nat /\ ~(x < x)
            OBVIOUS
        <3>2. ASSUME NEW z \in Below(x) PROVE z \in Below(y)
            <4>1. z \in Nat /\ y \in Nat /\ z < x
                OBVIOUS
            <4> QED
                BY <1>3, <3>1, <4>1
        <3> QED
            BY <1>3, <3>1, <3>2
    <2>2. Cardinality(Below(x) \cup {x}) = Cardinality(Below(x)) + 1
        BY <1>2, <2>1, FS_AddElement
    <2>3. Cardinality(Below(x) \cup {x}) <= Cardinality(Below(y))
        BY <1>2, <2>1, FS_Subset
    <2> QED
        BY <1>2, <2>2, <2>3
<1>4. \A i \in 1..N : \E x \in S : rank[x] = i - 1
    <2>1. rank \in [S -> 0..N - 1]
        BY <1>1, <1>2
    <2>2. \A x, y \in S : rank[x] = rank[y] => x = y
        <3> TAKE x, y \in S
        <3>1. x \in Nat /\ y \in Nat /\ (x = y \/ x < y \/ y < x)
            OBVIOUS
        <3>2. rank[x] \in Nat /\ rank[y] \in Nat
            BY <1>2
        <3> HIDE DEF rank
        <3> QED
            BY <1>3, <3>1, <3>2
    <2>3. IsFiniteSet(0..N - 1) /\ Cardinality(0..N - 1) = N
        <3> HIDE DEF N
        <3>1. 0 \in Int /\ N - 1 \in Int
            BY <1>1
        <3>2. /\ IsFiniteSet(0..N - 1)
              /\ Cardinality(0..N - 1) = IF 0 > N - 1 THEN 0 ELSE (N - 1) - 0 + 1
            BY <3>1, FS_Interval
        <3> QED
            BY <1>1, <3>2
    <2> HIDE DEF rank
    <2>4. rank \in Injection(S, 0..N - 1)
        BY <2>1, <2>2 DEF Injection, IsInjective
    <2>5. rank \in Surjection(S, 0..N - 1)
        BY <2>3, <2>4, FS_Injection
    <2> QED
        BY <1>1, <2>5 DEF Surjection
<1>5. ASSUME NEW i \in 1..N
      PROVE  Ascending(S)[i] \in S /\ rank[Ascending(S)[i]] = i - 1
    <2>1. Ascending(S)[i] = CHOOSE x \in S : Cardinality(Below(x)) = i - 1
        BY DEF Ascending
    <2>2. \E x \in S : Cardinality(Below(x)) = i - 1
        BY <1>4
    <2> HIDE DEF Below
    <2> QED
        BY <2>1, <2>2
<1> DEFINE a == Ascending(S)
<1>6. a = [i \in 1..N |-> a[i]]
    BY DEF Ascending
<1>7. a \in Seq(S) /\ Len(a) = N
    <2>1. \A i \in 1..N : a[i] \in S
        BY <1>5
    <2> HIDE DEF a, N
    <2> QED
        BY <1>1, <1>6, <2>1
<1> HIDE DEF rank
<1>8. \A i, j \in 1..N : i < j => a[i] < a[j]
    <2> SUFFICES ASSUME NEW i \in 1..N, NEW j \in 1..N, i < j PROVE a[i] < a[j]
        OBVIOUS
    <2>1. a[i] \in S /\ a[j] \in S /\ rank[a[i]] = i - 1 /\ rank[a[j]] = j - 1
        BY <1>5
    <2>2. a[i] \in Nat /\ a[j] \in Nat
        BY <2>1
    <2> HIDE DEF a, N
    <2>3. ~(rank[a[j]] < rank[a[i]]) /\ rank[a[i]] # rank[a[j]]
        BY <1>1, <2>1
    <2>4. ~(a[j] < a[i]) /\ a[i] # a[j]
        BY <1>3, <2>1, <2>3
    <2> QED
        BY <2>2, <2>4
<1>9. ASSUME NEW x \in S PROVE \E i \in 1..N : a[i] = x
    <2> DEFINE i == rank[x] + 1
    <2>1. i \in 1..N /\ rank[x] = i - 1
        <3>1. rank[x] \in Nat /\ rank[x] < N
            BY <1>2
        <3> HIDE DEF N
        <3> QED
            BY <1>1, <3>1
    <2>2. a[i] \in S /\ rank[a[i]] = rank[x]
        BY <1>5, <2>1
    <2>3. x \in Nat /\ a[i] \in Nat /\ rank[x] \in Nat
        BY <1>2, <2>2
    <2> HIDE DEF a, i
    <2>4. ~(x < a[i]) /\ ~(a[i] < x)
        BY <1>3, <2>2, <2>3
    <2> QED
        BY <2>1, <2>3, <2>4
<1> QED
    BY <1>1, <1>7, <1>8, <1>9

-----------------------------------------------------------------------------
(* The buckets.                                                            *)

\* A bucket holds the messages of its time and no others.
LEMMA WithContents ==
    ASSUME NEW V, NEW msgs \in Seq(V), NEW time
    PROVE  /\ With(msgs, time) \in Seq(V)
           /\ \A j \in 1..Len(With(msgs, time)) : \E i \in 1..Len(msgs) :
                With(msgs, time)[j] = msgs[i] /\ msgs[i].startTime = time
           /\ \A i \in 1..Len(msgs) : msgs[i].startTime = time =>
                \E j \in 1..Len(With(msgs, time)) : With(msgs, time)[j] = msgs[i]
<1> DEFINE N == Len(msgs)
<1>1. PICK bucket \in [0..N -> Seq(V)] :
        /\ bucket[0] = <<>>
        /\ \A n \in 1..N :
            bucket[n] = (IF msgs[n].startTime = time THEN Append(bucket[n - 1], msgs[n])
                         ELSE bucket[n - 1])
        /\ With(msgs, time) = bucket[N]
    BY WithRounds
<1>2. N \in Nat /\ \A n \in 1..N : msgs[n] \in V
    BY LenProperties, ElementOfSeq
<1> DEFINE Right(n) ==
            /\ \A j \in 1..Len(bucket[n]) : \E i \in 1..n :
                bucket[n][j] = msgs[i] /\ msgs[i].startTime = time
            /\ \A i \in 1..n : msgs[i].startTime = time =>
                \E j \in 1..Len(bucket[n]) : bucket[n][j] = msgs[i]
           S == {n \in 0..N : Right(n)}
<1>3. 0 \in S
    BY <1>1, <1>2
<1>4. ASSUME NEW n \in 1..N, n - 1 \in S PROVE n \in S
    <2> DEFINE old == bucket[n - 1]
               new == bucket[n]
    <2>1. n \in 0..N /\ n - 1 \in 0..N /\ old \in Seq(V) /\ msgs[n] \in V /\ Right(n - 1)
        <3>1. n \in 0..N /\ n - 1 \in 0..N /\ msgs[n] \in V
            BY <1>2
        <3>2. old \in Seq(V)
            BY <3>1
        <3> HIDE DEF Right
        <3>3. Right(n - 1)
            BY <1>4
        <3> QED
            BY <3>1, <3>2, <3>3
    <2>2. Len(old) \in Nat
        BY <2>1, LenProperties
    <2>3. new = IF msgs[n].startTime = time THEN Append(old, msgs[n]) ELSE old
        BY <1>1
    <2>4. \A i \in 1..n : i = n \/ i \in 1..n - 1
        BY <1>2
    <2>5. CASE msgs[n].startTime # time
        <3>1. new = old /\ \A i \in 1..n - 1 : i \in 1..n
            BY <2>3, <2>5
        <3> HIDE DEF old, new
        <3>2. /\ \A j \in 1..Len(old) : \E i \in 1..n - 1 : old[j] = msgs[i] /\ msgs[i].startTime = time
              /\ \A i \in 1..n - 1 : msgs[i].startTime = time => \E j \in 1..Len(old) : old[j] = msgs[i]
            BY <2>1 DEF old
        <3>3. /\ \A j \in 1..Len(new) : \E i \in 1..n : new[j] = msgs[i] /\ msgs[i].startTime = time
              /\ \A i \in 1..n : msgs[i].startTime = time => \E j \in 1..Len(new) : new[j] = msgs[i]
            BY <2>4, <2>5, <3>1, <3>2
        <3> QED
            BY <2>1, <3>3 DEF new
    <2>6. CASE msgs[n].startTime = time
        <3>1. /\ Len(new) = Len(old) + 1
              /\ \A j \in 1..Len(old) : new[j] = old[j]
              /\ new[Len(old) + 1] = msgs[n]
            BY <2>1, <2>3, <2>6, AppendProperties
        <3> HIDE DEF old, new
        <3>2. /\ \A j \in 1..Len(old) : \E i \in 1..n - 1 : old[j] = msgs[i] /\ msgs[i].startTime = time
              /\ \A i \in 1..n - 1 : msgs[i].startTime = time => \E j \in 1..Len(old) : old[j] = msgs[i]
            BY <2>1 DEF old
        <3>3. \A j \in 1..Len(new) : \E i \in 1..n : new[j] = msgs[i] /\ msgs[i].startTime = time
            <4> TAKE j \in 1..Len(new)
            <4>1. CASE j = Len(old) + 1
                BY <1>2, <2>6, <3>1, <4>1
            <4>2. CASE j # Len(old) + 1
                <5>1. j \in 1..Len(old)
                    BY <2>2, <3>1, <4>2
                <5>2. PICK i \in 1..n - 1 : old[j] = msgs[i] /\ msgs[i].startTime = time
                    BY <3>2, <5>1
                <5>3. i \in 1..n
                    OBVIOUS
                <5> QED
                    BY <3>1, <5>1, <5>2, <5>3
            <4> QED
                BY <4>1, <4>2
        <3>4. \A i \in 1..n : msgs[i].startTime = time => \E j \in 1..Len(new) : new[j] = msgs[i]
            <4> SUFFICES ASSUME NEW i \in 1..n, msgs[i].startTime = time
                         PROVE  \E j \in 1..Len(new) : new[j] = msgs[i]
                OBVIOUS
            <4>1. CASE i = n
                <5>1. Len(old) + 1 \in 1..Len(new)
                    BY <2>2, <3>1
                <5> QED
                    BY <3>1, <4>1, <5>1
            <4>2. CASE i # n
                <5>1. PICK j \in 1..Len(old) : old[j] = msgs[i]
                    BY <2>4, <3>2, <4>2
                <5>2. j \in 1..Len(new)
                    BY <2>2, <3>1
                <5> QED
                    BY <3>1, <5>1, <5>2
            <4> QED
                BY <4>1, <4>2
        <3> QED
            BY <2>1, <3>3, <3>4 DEF new
    <2> QED
        BY <2>5, <2>6
<1>5. N \in S
    <2> HIDE DEF S
    <2>1. \A n \in 0..N : n \in S
        BY <1>2, <1>3, <1>4, Rounds
    <2> QED
        BY <1>2, <2>1
<1>6. bucket[N] \in Seq(V)
    BY <1>1, <1>2
<1> QED
    BY <1>1, <1>5, <1>6

\* The entries of two sequences in a row are the entries of both.
LEMMA JoinedEntries ==
    ASSUME NEW V, NEW a \in Seq(V), NEW b \in Seq(V), NEW c, c = a \o b
    PROVE  /\ \A j \in 1..Len(c) : (\E i \in 1..Len(a) : c[j] = a[i]) \/ (\E i \in 1..Len(b) : c[j] = b[i])
           /\ \A i \in 1..Len(a) : \E j \in 1..Len(c) : c[j] = a[i]
           /\ \A i \in 1..Len(b) : \E j \in 1..Len(c) : c[j] = b[i]
<1>1. Len(a) \in Nat /\ Len(b) \in Nat
    BY LenProperties
<1>2. /\ Len(c) = Len(a) + Len(b)
      /\ \A i \in 1..Len(a) + Len(b) : c[i] = IF i <= Len(a) THEN a[i] ELSE b[i - Len(a)]
    BY ConcatProperties
<1>3. ASSUME NEW j \in 1..Len(c)
      PROVE  (\E i \in 1..Len(a) : c[j] = a[i]) \/ (\E i \in 1..Len(b) : c[j] = b[i])
    <2>1. CASE j <= Len(a)
        BY <1>1, <1>2, <2>1
    <2>2. CASE ~(j <= Len(a))
        <3>1. j - Len(a) \in 1..Len(b) /\ c[j] = b[j - Len(a)]
            BY <1>1, <1>2, <2>2
        <3> QED
            BY <3>1
    <2> QED
        BY <2>1, <2>2
<1>4. ASSUME NEW i \in 1..Len(a) PROVE \E j \in 1..Len(c) : c[j] = a[i]
    <2>1. i \in 1..Len(c) /\ c[i] = a[i]
        BY <1>1, <1>2
    <2> QED
        BY <2>1
<1>5. ASSUME NEW i \in 1..Len(b) PROVE \E j \in 1..Len(c) : c[j] = b[i]
    <2>1. /\ Len(a) + i \in 1..Len(a) + Len(b) /\ ~(Len(a) + i <= Len(a))
          /\ (Len(a) + i) - Len(a) = i
        BY <1>1
    <2> QED
        BY <1>2, <2>1
<1> QED
    BY <1>2, <1>3, <1>4, <1>5

\* The times are those of the messages, each once, in their order.
LEMMA TimesOrder ==
    ASSUME NEW V, NEW msgs \in Seq(V), \A m \in V : m.startTime \in Nat
    PROVE  /\ Len(Times(msgs)) \in Nat /\ DOMAIN Times(msgs) = 1..Len(Times(msgs))
           /\ \A k \in 1..Len(Times(msgs)) : Times(msgs)[k] \in Nat
           /\ \A k, l \in 1..Len(Times(msgs)) : k < l => Times(msgs)[k] < Times(msgs)[l]
           /\ \A i \in 1..Len(msgs) : \E k \in 1..Len(Times(msgs)) :
                Times(msgs)[k] = msgs[i].startTime
<1> DEFINE N == Len(msgs)
           all == {msgs[i].startTime : i \in 1..N}
           at == [i \in 1..N |-> msgs[i].startTime]
<1>1. N \in Nat /\ DOMAIN msgs = 1..N /\ \A i \in 1..N : msgs[i] \in V
    BY LenProperties, ElementOfSeq
<1>2. all \in SUBSET Nat
    BY <1>1
<1>3. IsFiniteSet(all)
    <2>1. at \in Surjection(1..N, all)
        BY DEF Surjection
    <2>2. IsFiniteSet(1..N)
        BY <1>1, FS_Interval
    <2> HIDE DEF at, all
    <2> QED
        BY <2>1, <2>2, FS_Surjection
<1>4. Times(msgs) = Ascending(all)
    BY <1>1 DEF Times
<1>5. \A i \in 1..N : msgs[i].startTime \in all
    OBVIOUS
<1> HIDE DEF all
<1>6. /\ Cardinality(all) \in Nat
      /\ Ascending(all) \in Seq(all) /\ Len(Ascending(all)) = Cardinality(all)
      /\ \A i, j \in 1..Cardinality(all) : i < j => Ascending(all)[i] < Ascending(all)[j]
      /\ \A x \in all : \E i \in 1..Cardinality(all) : Ascending(all)[i] = x
    BY <1>2, <1>3, AscendingOrder
<1>7. \A k \in 1..Len(Times(msgs)) : Times(msgs)[k] \in Nat
    BY <1>2, <1>4, <1>6, ElementOfSeq
<1>8. DOMAIN Times(msgs) = 1..Len(Times(msgs))
    BY <1>4, <1>6, LenProperties
<1> QED
    BY <1>4, <1>5, <1>6, <1>7, <1>8

\* The loops visit every message, and nothing else.
LEMMA VisitedContents ==
    ASSUME NEW V, NEW msgs \in Seq(V), \A m \in V : m.startTime \in Nat
    PROVE  /\ Visited(msgs) \in Seq(V)
           /\ \A j \in 1..Len(Visited(msgs)) : \E i \in 1..Len(msgs) : Visited(msgs)[j] = msgs[i]
           /\ \A i \in 1..Len(msgs) : \E j \in 1..Len(Visited(msgs)) : Visited(msgs)[j] = msgs[i]
<1> DEFINE K == Len(Times(msgs))
           time == Times(msgs)
<1>1. /\ K \in Nat /\ \A k \in 1..K : time[k] \in Nat
      /\ \A i \in 1..Len(msgs) : \E k \in 1..K : time[k] = msgs[i].startTime
    BY TimesOrder
<1>2. /\ \A t \in Nat : With(msgs, t) \in Seq(V)
      /\ \A t \in Nat : \A j \in 1..Len(With(msgs, t)) : \E i \in 1..Len(msgs) : With(msgs, t)[j] = msgs[i]
      /\ \A t \in Nat : \A i \in 1..Len(msgs) : msgs[i].startTime = t =>
            \E j \in 1..Len(With(msgs, t)) : With(msgs, t)[j] = msgs[i]
    BY WithContents
<1>3. PICK visited \in [0..K -> Seq(V)] :
        /\ visited[0] = <<>>
        /\ \A k \in 1..K : visited[k] = visited[k - 1] \o With(msgs, time[k])
        /\ Visited(msgs) = visited[K]
    BY <1>1, <1>2, VisitedRounds
<1> DEFINE Right(k) ==
            /\ \A j \in 1..Len(visited[k]) : \E i \in 1..Len(msgs) : visited[k][j] = msgs[i]
            /\ \A i \in 1..Len(msgs) : (\E l \in 1..k : time[l] = msgs[i].startTime) =>
                \E j \in 1..Len(visited[k]) : visited[k][j] = msgs[i]
           S == {k \in 0..K : Right(k)}
<1>4. 0 \in S
    BY <1>1, <1>3
<1>5. ASSUME NEW k \in 1..K, k - 1 \in S PROVE k \in S
    <2> DEFINE old == visited[k - 1]
               new == visited[k]
               more == With(msgs, time[k])
    <2>1. k \in 0..K /\ k - 1 \in 0..K /\ \A l \in 1..k : l = k \/ l \in 1..k - 1
        BY <1>1
    <2>2. old \in Seq(V) /\ new = old \o more
        BY <1>3, <2>1
    <2>3. /\ more \in Seq(V)
          /\ \A j \in 1..Len(more) : \E i \in 1..Len(msgs) : more[j] = msgs[i]
          /\ \A i \in 1..Len(msgs) : msgs[i].startTime = time[k] =>
                \E j \in 1..Len(more) : more[j] = msgs[i]
        BY <1>1, <1>2
    <2>4. Right(k - 1)
        <3> HIDE DEF Right
        <3> QED
            BY <1>5
    <2>5. /\ \A j \in 1..Len(old) : \E i \in 1..Len(msgs) : old[j] = msgs[i]
          /\ \A i \in 1..Len(msgs) : (\E l \in 1..k - 1 : time[l] = msgs[i].startTime) =>
                \E j \in 1..Len(old) : old[j] = msgs[i]
        BY <2>4
    <2> HIDE DEF old, new, more, time
    <2>6. /\ \A j \in 1..Len(new) : \/ \E i \in 1..Len(old) : new[j] = old[i]
                                    \/ \E i \in 1..Len(more) : new[j] = more[i]
          /\ \A i \in 1..Len(old) : \E j \in 1..Len(new) : new[j] = old[i]
          /\ \A i \in 1..Len(more) : \E j \in 1..Len(new) : new[j] = more[i]
        <3>1. old \in Seq(V) /\ more \in Seq(V) /\ new = old \o more
            BY <2>2, <2>3
        <3> QED
            BY <3>1, JoinedEntries
    <2>7. \A j \in 1..Len(new) : \E i \in 1..Len(msgs) : new[j] = msgs[i]
        <3> TAKE j \in 1..Len(new)
        <3>1. CASE \E i \in 1..Len(old) : new[j] = old[i]
            <4>1. PICK i \in 1..Len(old) : new[j] = old[i]
                BY <3>1
            <4>2. \E l \in 1..Len(msgs) : old[i] = msgs[l]
                BY <2>5
            <4> QED
                BY <4>1, <4>2
        <3>2. CASE \E i \in 1..Len(more) : new[j] = more[i]
            <4>1. PICK i \in 1..Len(more) : new[j] = more[i]
                BY <3>2
            <4>2. \E l \in 1..Len(msgs) : more[i] = msgs[l]
                BY <2>3
            <4> QED
                BY <4>1, <4>2
        <3> QED
            BY <2>6, <3>1, <3>2
    <2>8. \A i \in 1..Len(msgs) : (\E l \in 1..k : time[l] = msgs[i].startTime) =>
            \E j \in 1..Len(new) : new[j] = msgs[i]
        <3> SUFFICES ASSUME NEW i \in 1..Len(msgs), NEW l \in 1..k, time[l] = msgs[i].startTime
                     PROVE  \E j \in 1..Len(new) : new[j] = msgs[i]
            OBVIOUS
        <3>1. CASE l = k
            <4>1. PICK j \in 1..Len(more) : more[j] = msgs[i]
                BY <2>3, <3>1
            <4>2. \E n \in 1..Len(new) : new[n] = more[j]
                BY <2>6
            <4> QED
                BY <4>1, <4>2
        <3>2. CASE l \in 1..k - 1
            <4>1. PICK j \in 1..Len(old) : old[j] = msgs[i]
                BY <2>5, <3>2
            <4>2. \E n \in 1..Len(new) : new[n] = old[j]
                BY <2>6
            <4> QED
                BY <4>1, <4>2
        <3> QED
            BY <2>1, <3>1, <3>2
    <2>9. Right(k)
        BY <2>7, <2>8 DEF new
    <2> HIDE DEF Right
    <2> QED
        BY <2>1, <2>9
<1>6. K \in S
    <2> HIDE DEF S, K
    <2>1. \A k \in 0..K : k \in S
        BY <1>1, <1>4, <1>5, Rounds
    <2> QED
        BY <1>1, <2>1
<1>7. visited[K] \in Seq(V)
    BY <1>1, <1>3
<1> QED
    BY <1>1, <1>3, <1>6, <1>7

-----------------------------------------------------------------------------
(* Sums.                                                                   *)

\* One more row adds its field to a sum.
LEMMA SumGrows ==
    ASSUME NEW field, NEW V, NEW rows \in Seq(V), NEW m \in V, \A v \in V : v[field] \in Nat
    PROVE  /\ Sum(field, rows) \in Nat
           /\ Sum(field, Append(rows, m)) = Sum(field, rows) + m[field]
<1> DEFINE N == Len(rows)
           longer == Append(rows, m)
<1>1. /\ N \in Nat /\ \A n \in 1..N : rows[n] \in V
      /\ longer \in Seq(V) /\ Len(longer) = N + 1
      /\ \A n \in 1..N : longer[n] = rows[n]
      /\ longer[N + 1] = m
    BY LenProperties, ElementOfSeq, AppendProperties
<1>2. PICK p \in [0..N -> Nat] :
        /\ p[0] = 0 /\ \A n \in 1..N : p[n] = p[n - 1] + rows[n][field]
        /\ Sum(field, rows) = p[N]
    BY <1>1, SumRounds
<1> HIDE DEF N, longer
<1>3. PICK q \in [0..N + 1 -> Nat] :
        /\ q[0] = 0 /\ \A n \in 1..N + 1 : q[n] = q[n - 1] + longer[n][field]
        /\ Sum(field, longer) = q[N + 1]
    <2>1. \A n \in 1..N + 1 : longer[n] \in V
        BY <1>1, ElementOfSeq
    <2>2. Len(longer) \in Nat /\ \A n \in 1..Len(longer) : longer[n][field] \in Nat
        BY <1>1, <2>1
    <2>3. \E q \in [0..Len(longer) -> Nat] :
            /\ q[0] = 0 /\ \A n \in 1..Len(longer) : q[n] = q[n - 1] + longer[n][field]
            /\ Sum(field, longer) = q[Len(longer)]
        BY <2>2, SumRounds
    <2> QED
        BY <1>1, <2>3
<1> DEFINE S == {n \in 0..N : p[n] = q[n]}
<1>4. 0 \in S
    BY <1>1, <1>2, <1>3
<1>5. ASSUME NEW n \in 1..N, n - 1 \in S PROVE n \in S
    <2>1. n \in 0..N /\ n \in 1..N + 1
        BY <1>1
    <2>2. p[n - 1] = q[n - 1] /\ longer[n] = rows[n]
        BY <1>1, <1>5
    <2> QED
        BY <1>2, <1>3, <2>1, <2>2
<1>6. p[N] = q[N]
    <2> HIDE DEF S
    <2>1. \A n \in 0..N : n \in S
        BY <1>1, <1>4, <1>5, Rounds
    <2>2. N \in S
        BY <1>1, <2>1
    <2> QED
        BY <2>2 DEF S
<1>7. q[N + 1] = q[N] + longer[N + 1][field]
    BY <1>1, <1>3
<1>8. p[N] \in Nat
    BY <1>1, <1>2
<1> QED
    BY <1>1, <1>2, <1>3, <1>6, <1>7, <1>8 DEF longer

\* Nothing adds up to nothing.
LEMMA SumOfNone ==
    ASSUME NEW field
    PROVE  Sum(field, <<>>) = 0
<1>1. Len(<<>>) = 0
    BY EmptySeq
<1>2. Len(<<>>) \in Nat /\ \A n \in 1..Len(<<>>) : <<>>[n][field] \in Nat
    BY <1>1
<1>3. \E sum \in [0..Len(<<>>) -> Nat] : sum[0] = 0 /\ Sum(field, <<>>) = sum[Len(<<>>)]
    BY <1>2, SumRounds
<1> QED
    BY <1>1, <1>3

\* The sum of w[n] for the n in I.
Part(w, N, I) == Sum(1, [n \in 1..N |-> <<IF n \in I THEN w[n] ELSE 0>>])

\* p has the sums of w[n] for the n in I up to each index.
IsPart(p, w, N, I) ==
    /\ p \in [0..N -> Nat]
    /\ p[0] = 0
    /\ \A n \in 1..N : p[n] = p[n - 1] + (IF n \in I THEN w[n] ELSE 0)
    /\ Part(w, N, I) = p[N]

LEMMA PartRounds ==
    ASSUME NEW N \in Nat, NEW w \in [1..N -> Nat], NEW I
    PROVE  \E p : IsPart(p, w, N, I)
<1> DEFINE rows == [n \in 1..N |-> <<IF n \in I THEN w[n] ELSE 0>>]
<1>1. rows \in Seq(Seq(Nat)) /\ Len(rows) = N
    <2>1. \A n \in 1..N : <<IF n \in I THEN w[n] ELSE 0>> \in Seq(Nat)
        OBVIOUS
    <2>2. rows \in [1..N -> Seq(Nat)]
        BY <2>1
    <2> HIDE DEF rows
    <2> QED
        BY <2>2
<1>2. \A n \in 1..N : rows[n][1] = (IF n \in I THEN w[n] ELSE 0) /\ rows[n][1] \in Nat
    OBVIOUS
<1>3. Part(w, N, I) = Sum(1, rows)
    BY DEF Part
<1> HIDE DEF rows
<1>4. \E p \in [0..Len(rows) -> Nat] :
        /\ p[0] = 0 /\ \A n \in 1..Len(rows) : p[n] = p[n - 1] + rows[n][1]
        /\ Sum(1, rows) = p[Len(rows)]
    BY <1>1, <1>2, SumRounds
<1>5. PICK p \in [0..N -> Nat] :
        /\ p[0] = 0 /\ \A n \in 1..N : p[n] = p[n - 1] + rows[n][1]
        /\ Sum(1, rows) = p[N]
    BY <1>1, <1>4
<1>6. \A n \in 1..N : p[n] = p[n - 1] + (IF n \in I THEN w[n] ELSE 0)
    BY <1>2, <1>5
<1> QED
    BY <1>3, <1>5, <1>6 DEF IsPart

\* K consists of I and J, which have nothing in common.
Splits(K, I, J) == I \cap J = {} /\ K = I \cup J

\* The parts of two sets add up to the part of their union, if no index is in
\* both.
LEMMA PartSplits ==
    ASSUME NEW N \in Nat, NEW w \in [1..N -> Nat], NEW I, NEW J, NEW K,
           Splits(K, I, J)
    PROVE  /\ Part(w, N, I) \in Nat
           /\ Part(w, N, K) = Part(w, N, I) + Part(w, N, J)
<1>1. PICK p : IsPart(p, w, N, I)
    BY PartRounds
<1>2. PICK q : IsPart(q, w, N, J)
    BY PartRounds
<1>3. PICK r : IsPart(r, w, N, K)
    BY PartRounds
<1> DEFINE S == {n \in 0..N : r[n] = p[n] + q[n]}
<1>4. 0 \in S
    BY <1>1, <1>2, <1>3 DEF IsPart
<1>5. ASSUME NEW n \in 1..N, n - 1 \in S PROVE n \in S
    <2>1. /\ n \in 0..N /\ n - 1 \in 0..N /\ w[n] \in Nat
          /\ p[n - 1] \in Nat /\ q[n - 1] \in Nat
        BY <1>1, <1>2 DEF IsPart
    <2>2. r[n - 1] = p[n - 1] + q[n - 1]
        BY <1>5
    <2> DEFINE x == IF n \in I THEN w[n] ELSE 0
               y == IF n \in J THEN w[n] ELSE 0
               z == IF n \in K THEN w[n] ELSE 0
    <2>3. x \in Nat /\ y \in Nat /\ z = x + y
        <3>1. (n \in K <=> n \in I \/ n \in J) /\ ~ (n \in I /\ n \in J)
            BY DEF Splits
        <3> QED
            BY <2>1, <3>1
    <2>4. p[n] = p[n - 1] + x /\ q[n] = q[n - 1] + y /\ r[n] = r[n - 1] + z
        BY <1>1, <1>2, <1>3 DEF IsPart
    <2> HIDE DEF x, y, z
    <2>5. r[n] = p[n] + q[n]
        BY <2>1, <2>2, <2>3, <2>4
    <2> QED
        BY <2>1, <2>5
<1>6. N \in S
    <2> HIDE DEF S
    <2>1. \A n \in 0..N : n \in S
        BY <1>4, <1>5, Rounds
    <2> QED
        BY <2>1
<1> QED
    BY <1>1, <1>2, <1>3, <1>6 DEF IsPart

\* The part of no index is zero.
LEMMA PartOfNone ==
    ASSUME NEW N \in Nat, NEW w \in [1..N -> Nat], NEW I, I = {}
    PROVE  Part(w, N, I) = 0
<1>1. Splits(I, I, I)
    BY DEF Splits
<1>2. Part(w, N, I) \in Nat /\ Part(w, N, I) = Part(w, N, I) + Part(w, N, I)
    BY <1>1, PartSplits
<1> QED
    BY <1>2

\* The messages of a time, the field of every message, and one for each.
At(msgs, time) == {n \in 1..Len(msgs) : msgs[n].startTime = time}
Column(field, msgs) == [n \in 1..Len(msgs) |-> msgs[n][field]]
Ones(msgs) == [n \in 1..Len(msgs) |-> 1]

\* A bucket counts and adds up the messages of its time.
LEMMA BucketParts ==
    ASSUME NEW field, NEW V, NEW msgs \in Seq(V), NEW time, \A v \in V : v[field] \in Nat
    PROVE  /\ Len(With(msgs, time)) = Part(Ones(msgs), Len(msgs), At(msgs, time))
           /\ Sum(field, With(msgs, time)) = Part(Column(field, msgs), Len(msgs), At(msgs, time))
<1> DEFINE N == Len(msgs)
           I == At(msgs, time)
           v == Column(field, msgs)
           o == Ones(msgs)
<1>1. N \in Nat /\ \A n \in 1..N : msgs[n] \in V
    BY LenProperties, ElementOfSeq
<1>2. PICK bucket \in [0..N -> Seq(V)] :
        /\ bucket[0] = <<>>
        /\ \A n \in 1..N :
            bucket[n] = (IF msgs[n].startTime = time THEN Append(bucket[n - 1], msgs[n])
                         ELSE bucket[n - 1])
        /\ With(msgs, time) = bucket[N]
    BY WithRounds
<1>3. o \in [1..N -> Nat] /\ v \in [1..N -> Nat]
    BY <1>1 DEF Ones, Column
<1>4. \A n \in 1..N : n \in I <=> msgs[n].startTime = time
    BY DEF At
<1>5. \A n \in 1..N : o[n] = 1 /\ v[n] = msgs[n][field]
    BY DEF Ones, Column
<1> HIDE DEF I, v, o, N
<1>6. PICK p : IsPart(p, o, N, I)
    BY <1>1, <1>3, PartRounds
<1>7. PICK q : IsPart(q, v, N, I)
    BY <1>1, <1>3, PartRounds
<1> DEFINE S == {n \in 0..N : Len(bucket[n]) = p[n] /\ Sum(field, bucket[n]) = q[n]}
<1>8. 0 \in S
    <2>1. 0 \in 0..N /\ p[0] = 0 /\ q[0] = 0
        BY <1>1, <1>6, <1>7 DEF IsPart
    <2>2. Len(bucket[0]) = 0 /\ Sum(field, bucket[0]) = 0
        BY <1>2, SumOfNone, EmptySeq
    <2> QED
        BY <2>1, <2>2
<1>9. ASSUME NEW n \in 1..N, n - 1 \in S PROVE n \in S
    <2> DEFINE old == bucket[n - 1]
    <2>1. n \in 0..N /\ n - 1 \in 0..N /\ msgs[n] \in V
        BY <1>1
    <2>2. old \in Seq(V)
        BY <2>1
    <2>3. /\ bucket[n] = IF msgs[n].startTime = time THEN Append(old, msgs[n]) ELSE old
          /\ Len(old) = p[n - 1] /\ Sum(field, old) = q[n - 1]
        BY <1>2, <1>9
    <2>4. /\ p[n] = p[n - 1] + (IF n \in I THEN o[n] ELSE 0)
          /\ q[n] = q[n - 1] + (IF n \in I THEN v[n] ELSE 0)
          /\ p[n - 1] \in Nat /\ q[n - 1] \in Nat
        BY <1>6, <1>7, <2>1 DEF IsPart
    <2> HIDE DEF old, S
    <2>5. Len(bucket[n]) = p[n] /\ Sum(field, bucket[n]) = q[n]
        <3>1. CASE n \in I
            <4>1. bucket[n] = Append(old, msgs[n])
                BY <1>4, <2>3, <3>1
            <4>2. Len(Append(old, msgs[n])) = Len(old) + 1
                BY <2>1, <2>2, AppendProperties
            <4>3. Sum(field, Append(old, msgs[n])) = Sum(field, old) + msgs[n][field]
                BY <2>1, <2>2, SumGrows
            <4>4. p[n] = p[n - 1] + 1 /\ q[n] = q[n - 1] + msgs[n][field]
                BY <1>5, <2>4, <3>1
            <4> QED
                BY <2>3, <4>1, <4>2, <4>3, <4>4
        <3>2. CASE n \notin I
            <4>1. bucket[n] = old
                BY <1>4, <2>3, <3>2
            <4>2. p[n] = p[n - 1] /\ q[n] = q[n - 1]
                BY <2>4, <3>2
            <4> QED
                BY <2>3, <4>1, <4>2
        <3> QED
            BY <3>1, <3>2
    <2> QED
        BY <2>1, <2>5 DEF S
<1>10. N \in S
    <2> HIDE DEF S
    <2>1. \A n \in 0..N : n \in S
        BY <1>1, <1>8, <1>9, Rounds
    <2> QED
        BY <1>1, <2>1
<1> QED
    BY <1>2, <1>6, <1>7, <1>10 DEF IsPart, N, I, v, o

\* All messages together.
LEMMA WholeParts ==
    ASSUME NEW field, NEW V, NEW msgs \in Seq(V), \A v \in V : v[field] \in Nat
    PROVE  /\ Len(msgs) = Part(Ones(msgs), Len(msgs), 1..Len(msgs))
           /\ Sum(field, msgs) = Part(Column(field, msgs), Len(msgs), 1..Len(msgs))
<1> DEFINE N == Len(msgs)
           v == Column(field, msgs)
           o == Ones(msgs)
<1>1. N \in Nat /\ \A n \in 1..N : msgs[n] \in V
    BY LenProperties, ElementOfSeq
<1>2. o \in [1..N -> Nat] /\ v \in [1..N -> Nat]
    BY <1>1 DEF Ones, Column
<1>3. \A n \in 1..N : o[n] = 1 /\ v[n] = msgs[n][field]
    BY DEF Ones, Column
<1>4. PICK sum \in [0..N -> Nat] :
        /\ sum[0] = 0 /\ \A n \in 1..N : sum[n] = sum[n - 1] + msgs[n][field]
        /\ Sum(field, msgs) = sum[N]
    BY <1>1, SumRounds
<1> HIDE DEF v, o, N
<1>5. PICK p : IsPart(p, o, N, 1..N)
    BY <1>1, <1>2, PartRounds
<1>6. PICK q : IsPart(q, v, N, 1..N)
    BY <1>1, <1>2, PartRounds
<1> DEFINE S == {n \in 0..N : p[n] = n /\ q[n] = sum[n]}
<1>7. 0 \in S
    BY <1>1, <1>4, <1>5, <1>6 DEF IsPart
<1>8. ASSUME NEW n \in 1..N, n - 1 \in S PROVE n \in S
    <2>1. n \in 0..N /\ n - 1 \in 0..N
        BY <1>1
    <2>2. p[n - 1] = n - 1 /\ q[n - 1] = sum[n - 1]
        BY <1>8
    <2>3. p[n] = p[n - 1] + 1 /\ q[n] = q[n - 1] + msgs[n][field]
        BY <1>3, <1>5, <1>6 DEF IsPart
    <2>4. p[n] = n /\ q[n] = sum[n]
        BY <1>4, <2>2, <2>3
    <2> QED
        BY <2>1, <2>4
<1>9. N \in S
    <2> HIDE DEF S
    <2>1. \A n \in 0..N : n \in S
        BY <1>1, <1>7, <1>8, Rounds
    <2> QED
        BY <1>1, <2>1
<1> QED
    BY <1>4, <1>5, <1>6, <1>9 DEF IsPart, N, v, o

-----------------------------------------------------------------------------
(* The histogram.                                                          *)

\* The messages whose time is one of the first k.
Upto(msgs, k) == {n \in 1..Len(msgs) : \E l \in 1..k : Times(msgs)[l] = msgs[n].startTime}

\* Each round of the loop over the times adds the messages of its time, which
\* none of the rounds before has added; the last one has added all.
LEMMA UptoGrows ==
    ASSUME NEW V, NEW msgs \in Seq(V), \A m \in V : m.startTime \in Nat
    PROVE  /\ Upto(msgs, 0) = {}
           /\ \A k \in 1..Len(Times(msgs)) :
                Splits(Upto(msgs, k), Upto(msgs, k - 1), At(msgs, Times(msgs)[k]))
           /\ Upto(msgs, Len(Times(msgs))) = 1..Len(msgs)
<1> DEFINE K == Len(Times(msgs))
           time == Times(msgs)
<1>1. /\ K \in Nat /\ \A k \in 1..K : time[k] \in Nat
      /\ \A k, l \in 1..K : k < l => time[k] < time[l]
      /\ \A i \in 1..Len(msgs) : \E k \in 1..K : time[k] = msgs[i].startTime
    BY TimesOrder
<1>2. Upto(msgs, 0) = {}
    BY DEF Upto
<1>3. Upto(msgs, K) = 1..Len(msgs)
    BY <1>1 DEF Upto
<1>4. ASSUME NEW k \in 1..K
      PROVE  Splits(Upto(msgs, k), Upto(msgs, k - 1), At(msgs, time[k]))
    <2> HIDE DEF time, K
    <2>1. /\ \A l \in 1..k : l = k \/ l \in 1..k - 1
          /\ \A l \in 1..k - 1 : l \in 1..k /\ l \in 1..K /\ l < k
          /\ k \in 1..k
        BY <1>1
    <2>2. \A l \in 1..k - 1 : time[l] # time[k]
        <3> TAKE l \in 1..k - 1
        <3>1. l \in 1..K /\ l < k
            BY <2>1
        <3>2. time[l] < time[k] /\ time[l] \in Nat /\ time[k] \in Nat
            BY <1>1, <3>1
        <3> QED
            BY <3>2
    <2>3. /\ Upto(msgs, k) = {n \in 1..Len(msgs) : \E l \in 1..k : time[l] = msgs[n].startTime}
          /\ Upto(msgs, k - 1) = {n \in 1..Len(msgs) : \E l \in 1..k - 1 : time[l] = msgs[n].startTime}
          /\ At(msgs, time[k]) = {n \in 1..Len(msgs) : msgs[n].startTime = time[k]}
        BY DEF Upto, At, time
    <2>4. Upto(msgs, k) = Upto(msgs, k - 1) \cup At(msgs, time[k])
        BY <2>1, <2>3
    <2>5. Upto(msgs, k - 1) \cap At(msgs, time[k]) = {}
        BY <2>2, <2>3
    <2> QED
        BY <2>4, <2>5 DEF Splits
<1> QED
    BY <1>2, <1>3, <1>4

\* The rows of the histogram, in the order of their times, add up to the
\* messages and to their total.
LEMMA HistogramSums ==
    ASSUME NEW V, NEW msgs \in Seq(V), W64 \in Nat \ {0},
           \A m \in V : m.startTime \in Nat, \A m \in V : m["payloadSize"] \in Nat
    PROVE  /\ \A i, j \in DOMAIN Histogram(msgs) :
                i < j => Histogram(msgs)[i][1] < Histogram(msgs)[j][1]
           /\ Sum(2, Histogram(msgs)) = Len(msgs)
           /\ Total(3, Histogram(msgs)) = Total("payloadSize", msgs)
<1> DEFINE K == Len(Times(msgs))
           N == Len(msgs)
           time == Times(msgs)
           data == Histogram(msgs)
           bucket(k) == With(msgs, time[k])
           sizes == Column("payloadSize", msgs)
           one == Ones(msgs)
           w == W64
<1>1. /\ K \in Nat /\ DOMAIN time = 1..K /\ \A k \in 1..K : time[k] \in Nat
      /\ \A k, l \in 1..K : k < l => time[k] < time[l]
    BY TimesOrder
<1>2. N \in Nat /\ \A n \in 1..N : msgs[n] \in V
    BY LenProperties, ElementOfSeq
<1>3. one \in [1..N -> Nat] /\ sizes \in [1..N -> Nat]
    BY <1>2 DEF Ones, Column
<1>4. /\ \A k \in 1..K : Len(bucket(k)) = Part(one, N, At(msgs, time[k]))
      /\ \A k \in 1..K : Sum("payloadSize", bucket(k)) = Part(sizes, N, At(msgs, time[k]))
    BY BucketParts
<1>5. /\ N = Part(one, N, 1..N)
      /\ Sum("payloadSize", msgs) = Part(sizes, N, 1..N)
    BY WholeParts
<1>6. /\ Upto(msgs, 0) = {}
      /\ \A k \in 1..K : Splits(Upto(msgs, k), Upto(msgs, k - 1), At(msgs, time[k]))
      /\ Upto(msgs, K) = 1..N
    BY UptoGrows
<1>7. /\ DOMAIN data = 1..K
      /\ \A k \in 1..K : data[k] = <<time[k], Len(bucket(k)), Sum("payloadSize", bucket(k)) % w>>
    BY <1>1 DEF Histogram, Total
<1> HIDE DEF K, N, time, data, bucket, sizes, one, w
<1>8. \A k \in 1..K : Part(one, N, At(msgs, time[k])) \in Nat /\ Part(sizes, N, At(msgs, time[k])) \in Nat
    <2> TAKE k \in 1..K
    <2>1. PICK p : IsPart(p, one, N, At(msgs, time[k]))
        BY <1>2, <1>3, PartRounds
    <2>2. PICK q : IsPart(q, sizes, N, At(msgs, time[k]))
        BY <1>2, <1>3, PartRounds
    <2> QED
        BY <1>2, <2>1, <2>2 DEF IsPart
<1>9. \A k \in 1..K : data[k][1] = time[k] /\ data[k][2] \in Nat /\ data[k][3] \in Nat
    <2> TAKE k \in 1..K
    <2>1. data[k] = <<time[k], Len(bucket(k)), Sum("payloadSize", bucket(k)) % w>>
        BY <1>7
    <2>2. Len(bucket(k)) \in Nat /\ Sum("payloadSize", bucket(k)) \in Nat
        BY <1>4, <1>8
    <2>3. Sum("payloadSize", bucket(k)) % w \in Nat
        BY <2>2 DEF w
    <2> QED
        BY <2>1, <2>2, <2>3
<1>10. data \in Seq({data[k] : k \in 1..K}) /\ Len(data) = K
    <2>1. data = [k \in 1..K |-> data[k]]
        BY <1>7 DEF data, Histogram
    <2> DEFINE rows == {data[k] : k \in 1..K}
    <2>2. data \in [1..K -> rows]
        BY <2>1
    <2> HIDE DEF rows
    <2>3. data \in Seq(rows) /\ Len(data) = K
        BY <1>1, <2>2
    <2> QED
        BY <2>3 DEF rows
<1>11. PICK s \in [0..K -> Nat] :
        /\ s[0] = 0 /\ \A k \in 1..K : s[k] = s[k - 1] + data[k][2]
        /\ Sum(2, data) = s[K]
    <2>1. Len(data) \in Nat /\ \A k \in 1..Len(data) : data[k][2] \in Nat
        BY <1>1, <1>9, <1>10
    <2>2. \E s \in [0..Len(data) -> Nat] :
            /\ s[0] = 0 /\ \A k \in 1..Len(data) : s[k] = s[k - 1] + data[k][2]
            /\ Sum(2, data) = s[Len(data)]
        BY <2>1, SumRounds
    <2> QED
        BY <1>10, <2>2
<1>12. PICK r \in [0..K -> Nat] :
        /\ r[0] = 0 /\ \A k \in 1..K : r[k] = r[k - 1] + data[k][3]
        /\ Sum(3, data) = r[K]
    <2>1. Len(data) \in Nat /\ \A k \in 1..Len(data) : data[k][3] \in Nat
        BY <1>1, <1>9, <1>10
    <2>2. \E r \in [0..Len(data) -> Nat] :
            /\ r[0] = 0 /\ \A k \in 1..Len(data) : r[k] = r[k - 1] + data[k][3]
            /\ Sum(3, data) = r[Len(data)]
        BY <2>1, SumRounds
    <2> QED
        BY <1>10, <2>2
<1> DEFINE ones(k) == Part(one, N, Upto(msgs, k))
           values(k) == Part(sizes, N, Upto(msgs, k))
<1>13. ones(0) = 0 /\ values(0) = 0
    BY <1>2, <1>3, <1>6, PartOfNone
<1>14. ASSUME NEW k \in 1..K
       PROVE  /\ ones(k - 1) \in Nat /\ values(k - 1) \in Nat
              /\ ones(k) = ones(k - 1) + data[k][2]
              /\ Sum("payloadSize", bucket(k)) \in Nat
              /\ values(k) = values(k - 1) + Sum("payloadSize", bucket(k))
              /\ data[k][3] = Sum("payloadSize", bucket(k)) % w
    <2> DEFINE before == Upto(msgs, k - 1)
               after == Upto(msgs, k)
               at == At(msgs, time[k])
    <2>1. Splits(after, before, at)
        BY <1>6
    <2> HIDE DEF before, after, at
    <2>2. N \in Nat /\ one \in [1..N -> Nat] /\ sizes \in [1..N -> Nat]
        BY <1>2, <1>3
    <2>3. ASSUME NEW x \in [1..N -> Nat]
          PROVE  Part(x, N, before) \in Nat /\ Part(x, N, after) = Part(x, N, before) + Part(x, N, at)
        BY <2>1, <2>2, PartSplits
    <2>4. /\ Part(one, N, before) \in Nat /\ Part(one, N, after) = Part(one, N, before) + Part(one, N, at)
          /\ Part(sizes, N, before) \in Nat /\ Part(sizes, N, after) = Part(sizes, N, before) + Part(sizes, N, at)
        BY <2>2, <2>3
    <2>5. /\ ones(k - 1) = Part(one, N, before) /\ ones(k) = Part(one, N, after)
          /\ values(k - 1) = Part(sizes, N, before) /\ values(k) = Part(sizes, N, after)
        BY DEF before, after
    <2>6. Len(bucket(k)) = Part(one, N, at) /\ Sum("payloadSize", bucket(k)) = Part(sizes, N, at)
        BY <1>4 DEF at
    <2>7. Part(one, N, at) \in Nat /\ Part(sizes, N, at) \in Nat
        BY <1>8 DEF at
    <2> HIDE DEF ones, values
    <2>8. data[k][2] = Len(bucket(k)) /\ data[k][3] = Sum("payloadSize", bucket(k)) % w
        <3>1. data[k] = <<time[k], Len(bucket(k)), Sum("payloadSize", bucket(k)) % w>>
            BY <1>7
        <3> QED
            BY <3>1
    <2> QED
        BY <2>4, <2>5, <2>6, <2>7, <2>8
<1> HIDE DEF ones, values
<1> DEFINE S == {k \in 0..K : s[k] = ones(k) /\ r[k] % w = values(k) % w}
<1>15. 0 \in S
    BY <1>1, <1>11, <1>12, <1>13
<1>16. ASSUME NEW k \in 1..K, k - 1 \in S PROVE k \in S
    <2>1. k \in 0..K /\ k - 1 \in 0..K
        BY <1>1
    <2>2. s[k - 1] = ones(k - 1) /\ r[k - 1] % w = values(k - 1) % w
        BY <1>16
    <2>3. s[k] = ones(k)
        BY <1>11, <1>14, <2>2
    <2> DEFINE a == r[k - 1]
               b == Sum("payloadSize", bucket(k))
               c == values(k - 1)
    <2>4. a \in Nat /\ b \in Nat /\ c \in Nat /\ w \in Nat \ {0}
        BY <1>12, <1>14, <2>1 DEF w
    <2>5. r[k] = a + (b % w) /\ values(k) = b + c /\ a % w = c % w
        <3>1. r[k] = r[k - 1] + data[k][3]
            BY <1>12
        <3>2. data[k][3] = b % w /\ values(k) = values(k - 1) + b
            BY <1>14
        <3> HIDE DEF b
        <3> QED
            BY <2>2, <2>4, <3>1, <3>2
    <2> HIDE DEF a, b, c
    <2>6. (a + (b % w)) % w = (a + b) % w
        BY <2>4, RemainderOfSum
    <2>7. (b + (a % w)) % w = (b + a) % w /\ (b + (c % w)) % w = (b + c) % w
        BY <2>4, RemainderOfSum
    <2>8. a + b = b + a
        BY <2>4
    <2>9. r[k] % w = values(k) % w
        BY <2>5, <2>6, <2>7, <2>8
    <2> QED
        BY <2>1, <2>3, <2>9
<1>17. K \in S
    <2> HIDE DEF S
    <2>1. \A k \in 0..K : k \in S
        BY <1>1, <1>15, <1>16, Rounds
    <2> QED
        BY <1>1, <2>1
<1>18. Sum(2, data) = N /\ Sum(3, data) % w = Sum("payloadSize", msgs) % w
    BY <1>5, <1>6, <1>11, <1>12, <1>17 DEF ones, values
<1>19. \A i, j \in DOMAIN data : i < j => data[i][1] < data[j][1]
    BY <1>1, <1>7, <1>9
<1> QED
    BY <1>18, <1>19 DEF data, N, w, Total

-----------------------------------------------------------------------------
(* The extremes.                                                           *)

\* There is a message to visit if there is a message.
LEMMA VisitedSome ==
    ASSUME NEW V, NEW msgs \in Seq(V), msgs # <<>>, \A m \in V : m.startTime \in Nat
    PROVE  Visited(msgs) \in Seq(V) /\ Len(Visited(msgs)) \in Nat \ {0}
<1>1. Len(msgs) \in Nat /\ Len(msgs) # 0
    BY LenProperties, EmptySeq
<1>2. 1 \in 1..Len(msgs)
    BY <1>1
<1>3. Visited(msgs) \in Seq(V) /\ \E j \in 1..Len(Visited(msgs)) : Visited(msgs)[j] = msgs[1]
    BY <1>2, VisitedContents
<1>4. Len(Visited(msgs)) \in Nat
    BY <1>3, LenProperties
<1> QED
    BY <1>3, <1>4

\* The highest value is the largest one that the loops meet.
LEMMA HighestMet ==
    ASSUME NEW field, NEW msgs, Len(Visited(msgs)) \in Nat \ {0},
           \A n \in 1..Len(Visited(msgs)) : Visited(msgs)[n][field] \in Nat
    PROVE  /\ Highest(field, msgs) \in Nat
           /\ \E j \in 1..Len(Visited(msgs)) : Highest(field, msgs) = Visited(msgs)[j][field]
           /\ \A j \in 1..Len(Visited(msgs)) : Visited(msgs)[j][field] <= Highest(field, msgs)
<1> DEFINE N == Len(Visited(msgs))
           value(n) == Visited(msgs)[n][field]
<1>1. N \in Nat \ {0} /\ \A n \in 1..N : value(n) \in Nat
    OBVIOUS
<1>2. PICK max \in [0..N -> Nat] :
        /\ max[0] = 0
        /\ \A n \in 1..N : max[n] = (IF value(n) > max[n - 1] THEN value(n) ELSE max[n - 1])
        /\ Highest(field, msgs) = max[N]
    BY HighestRounds
<1> HIDE DEF N, value
<1> DEFINE Right(n) == /\ \A j \in 1..n : value(j) <= max[n]
                       /\ max[n] = 0 \/ \E j \in 1..n : max[n] = value(j)
           S == {n \in 0..N : Right(n)}
<1>3. 0 \in S
    BY <1>1, <1>2
<1>4. ASSUME NEW n \in 1..N, n - 1 \in S PROVE n \in S
    <2> DEFINE old == max[n - 1]
               new == max[n]
    <2>1. n \in 0..N /\ n - 1 \in 0..N /\ n \in 1..n /\ \A j \in 1..n : j = n \/ j \in 1..n - 1
        BY <1>1
    <2>2. \A j \in 1..n - 1 : j \in 1..n /\ value(j) \in Nat
        BY <1>1
    <2>3. (\A j \in 1..n - 1 : value(j) <= old) /\ (old = 0 \/ \E j \in 1..n - 1 : old = value(j))
        BY <1>4
    <2>4. old \in Nat /\ new = IF value(n) > old THEN value(n) ELSE old
        BY <1>2, <2>1
    <2>5. value(n) \in Nat
        BY <1>1
    <2> HIDE DEF old, new
    <2>6. \A j \in 1..n : value(j) <= new
        <3>1. old <= new /\ value(n) <= new /\ new \in Nat
            BY <2>4, <2>5
        <3>2. \A j \in 1..n - 1 : value(j) <= new
            BY <2>2, <2>3, <2>4, <3>1
        <3> QED
            BY <2>1, <3>1, <3>2
    <2>7. new = 0 \/ \E j \in 1..n : new = value(j)
        <3>1. CASE value(n) > old
            BY <2>1, <2>4, <3>1
        <3>2. CASE ~(value(n) > old)
            BY <2>2, <2>3, <2>4, <3>2
        <3> QED
            BY <3>1, <3>2
    <2>8. Right(n)
        BY <2>6, <2>7 DEF new
    <2> HIDE DEF Right
    <2> QED
        BY <2>1, <2>8
<1>5. N \in S
    <2> HIDE DEF S
    <2>1. \A n \in 0..N : n \in S
        BY <1>1, <1>3, <1>4, Rounds
    <2> QED
        BY <1>1, <2>1
<1>6. max[N] \in Nat /\ 1 \in 1..N
    BY <1>1, <1>2
<1>7. (\A j \in 1..N : value(j) <= max[N]) /\ (max[N] = 0 \/ \E j \in 1..N : max[N] = value(j))
    BY <1>5
<1>8. \E j \in 1..N : max[N] = value(j)
    <2>1. CASE max[N] = 0
        <3>1. value(1) <= max[N] /\ value(1) \in Nat
            BY <1>1, <1>6, <1>7
        <3> QED
            BY <1>6, <2>1, <3>1
    <2> QED
        BY <1>7, <2>1
<1> QED
    BY <1>2, <1>6, <1>7, <1>8 DEF N, value

\* The lowest value is the smallest one that the loops meet.
LEMMA LowestMet ==
    ASSUME NEW field, NEW msgs, W64 \in Nat \ {0}, Len(Visited(msgs)) \in Nat \ {0},
           \A n \in 1..Len(Visited(msgs)) : Visited(msgs)[n][field] \in 0..W64 - 1
    PROVE  /\ Lowest(field, msgs) \in Nat
           /\ \E j \in 1..Len(Visited(msgs)) : Lowest(field, msgs) = Visited(msgs)[j][field]
           /\ \A j \in 1..Len(Visited(msgs)) : Lowest(field, msgs) <= Visited(msgs)[j][field]
<1> DEFINE N == Len(Visited(msgs))
           value(n) == Visited(msgs)[n][field]
<1>1. N \in Nat \ {0} /\ \A n \in 1..N : value(n) \in Nat /\ value(n) <= W64 - 1
    OBVIOUS
<1>2. PICK min \in [0..N -> Nat] :
        /\ min[0] = W64 - 1
        /\ \A n \in 1..N : min[n] = (IF value(n) < min[n - 1] THEN value(n) ELSE min[n - 1])
        /\ Minimum(field, field, msgs) = min[N]
    <2>1. PICK min : IsMinimum(min, field, field, msgs)
        <3>1. \A n \in 1..N : Visited(msgs)[n][field] \in Nat
            BY <1>1
        <3> QED
            BY <3>1, MinimumRounds
    <2> QED
        BY <2>1 DEF IsMinimum
<1>3. Lowest(field, msgs) = min[N]
    BY <1>2 DEF Lowest
<1> HIDE DEF N, value
<1> DEFINE Right(n) == /\ \A j \in 1..n : min[n] <= value(j)
                       /\ min[n] = W64 - 1 \/ \E j \in 1..n : min[n] = value(j)
           S == {n \in 0..N : Right(n)}
<1>4. 0 \in S
    BY <1>1, <1>2
<1>5. ASSUME NEW n \in 1..N, n - 1 \in S PROVE n \in S
    <2> DEFINE old == min[n - 1]
               new == min[n]
    <2>1. n \in 0..N /\ n - 1 \in 0..N /\ n \in 1..n /\ \A j \in 1..n : j = n \/ j \in 1..n - 1
        BY <1>1
    <2>2. \A j \in 1..n - 1 : j \in 1..n /\ value(j) \in Nat
        BY <1>1
    <2>3. (\A j \in 1..n - 1 : old <= value(j)) /\ (old = W64 - 1 \/ \E j \in 1..n - 1 : old = value(j))
        BY <1>5
    <2>4. old \in Nat /\ new = IF value(n) < old THEN value(n) ELSE old
        BY <1>2, <2>1
    <2>5. value(n) \in Nat
        BY <1>1
    <2> HIDE DEF old, new
    <2>6. \A j \in 1..n : new <= value(j)
        <3>1. new <= old /\ new <= value(n) /\ new \in Nat
            BY <2>4, <2>5
        <3>2. \A j \in 1..n - 1 : new <= value(j)
            BY <2>2, <2>3, <2>4, <3>1
        <3> QED
            BY <2>1, <3>1, <3>2
    <2>7. new = W64 - 1 \/ \E j \in 1..n : new = value(j)
        <3>1. CASE value(n) < old
            BY <2>1, <2>4, <3>1
        <3>2. CASE ~(value(n) < old)
            BY <2>2, <2>3, <2>4, <3>2
        <3> QED
            BY <3>1, <3>2
    <2>8. Right(n)
        BY <2>6, <2>7 DEF new
    <2> HIDE DEF Right
    <2> QED
        BY <2>1, <2>8
<1>6. N \in S
    <2> HIDE DEF S
    <2>1. \A n \in 0..N : n \in S
        BY <1>1, <1>4, <1>5, Rounds
    <2> QED
        BY <1>1, <2>1
<1>7. min[N] \in Nat /\ 1 \in 1..N
    BY <1>1, <1>2
<1>8. (\A j \in 1..N : min[N] <= value(j)) /\ (min[N] = W64 - 1 \/ \E j \in 1..N : min[N] = value(j))
    BY <1>6
<1>9. \E j \in 1..N : min[N] = value(j)
    <2>1. CASE min[N] = W64 - 1
        <3>1. min[N] <= value(1) /\ value(1) \in Nat /\ value(1) <= W64 - 1
            BY <1>1, <1>7, <1>8
        <3> QED
            BY <1>7, <2>1, <3>1
    <2> QED
        BY <1>8, <2>1
<1> QED
    BY <1>3, <1>7, <1>8, <1>9 DEF N, value

\* A minimum for which another field is compared is a value of some message, if
\* the first comparison replaces the starting value.
LEMMA MinimumMet ==
    ASSUME NEW tested, NEW field, NEW msgs, W64 \in Nat \ {0}, Len(Visited(msgs)) \in Nat \ {0},
           \A n \in 1..Len(Visited(msgs)) : Visited(msgs)[n][tested] \in Nat,
           \A n \in 1..Len(Visited(msgs)) : Visited(msgs)[n][field] \in Nat,
           Visited(msgs)[1][tested] < W64 - 1
    PROVE  \E j \in 1..Len(Visited(msgs)) : Minimum(tested, field, msgs) = Visited(msgs)[j][field]
<1> DEFINE N == Len(Visited(msgs))
           value(n) == Visited(msgs)[n][field]
           other(n) == Visited(msgs)[n][tested]
<1>1. N \in Nat \ {0} /\ other(1) < W64 - 1
    OBVIOUS
<1>2. PICK min \in [0..N -> Nat] :
        /\ min[0] = W64 - 1
        /\ \A n \in 1..N : min[n] = (IF other(n) < min[n - 1] THEN value(n) ELSE min[n - 1])
        /\ Minimum(tested, field, msgs) = min[N]
    <2>1. PICK min : IsMinimum(min, tested, field, msgs)
        BY MinimumRounds
    <2> QED
        BY <2>1 DEF IsMinimum
<1> HIDE DEF N, value, other
<1> DEFINE Right(n) == n = 0 \/ \E j \in 1..n : min[n] = value(j)
           S == {n \in 0..N : Right(n)}
<1>3. 0 \in S
    BY <1>1
<1>4. ASSUME NEW n \in 1..N, n - 1 \in S PROVE n \in S
    <2>1. n \in 0..N /\ n \in 1..n /\ \A j \in 1..n - 1 : j \in 1..n
        BY <1>1
    <2>2. n - 1 = 0 \/ \E j \in 1..n - 1 : min[n - 1] = value(j)
        BY <1>4
    <2>3. min[n] = IF other(n) < min[n - 1] THEN value(n) ELSE min[n - 1]
        BY <1>2
    <2>4. \E j \in 1..n : min[n] = value(j)
        <3>1. CASE n = 1
            BY <1>1, <1>2, <2>1, <2>3, <3>1
        <3>2. CASE n # 1
            <4>1. \E j \in 1..n - 1 : min[n - 1] = value(j)
                BY <2>2, <3>2
            <4> QED
                BY <2>1, <2>3, <4>1
        <3> QED
            BY <3>1, <3>2
    <2> QED
        BY <2>1, <2>4
<1>5. N \in S
    <2> HIDE DEF S
    <2>1. \A n \in 0..N : n \in S
        BY <1>1, <1>3, <1>4, Rounds
    <2> QED
        BY <1>1, <2>1
<1> QED
    BY <1>1, <1>2, <1>5 DEF N, value

\* A sum lies between its length times the least and times the greatest.
LEMMA SumBetween ==
    ASSUME NEW field, NEW rows, Len(rows) \in Nat, NEW low \in Nat, NEW high \in Nat,
           \A n \in 1..Len(rows) : rows[n][field] \in Nat,
           \A n \in 1..Len(rows) : low <= rows[n][field] /\ rows[n][field] <= high
    PROVE  /\ Sum(field, rows) \in Nat
           /\ Len(rows) * low <= Sum(field, rows) /\ Sum(field, rows) <= Len(rows) * high
<1> DEFINE N == Len(rows)
           value(n) == rows[n][field]
<1>1. PICK sum \in [0..N -> Nat] :
        /\ sum[0] = 0 /\ \A n \in 1..N : sum[n] = sum[n - 1] + value(n)
        /\ Sum(field, rows) = sum[N]
    BY SumRounds
<1>2. N \in Nat /\ \A n \in 1..N : value(n) \in Nat /\ low <= value(n) /\ value(n) <= high
    OBVIOUS
<1> HIDE DEF N, value
<1> DEFINE S == {n \in 0..N : n * low <= sum[n] /\ sum[n] <= n * high}
<1>3. 0 \in S
    <2>1. 0 * low = 0 /\ 0 * high = 0
        OBVIOUS
    <2> QED
        BY <1>1, <1>2, <2>1
<1>4. ASSUME NEW n \in 1..N, n - 1 \in S PROVE n \in S
    <2>1. n \in 0..N /\ n - 1 \in 0..N
        BY <1>2
    <2> DEFINE a == (n - 1) * low
               b == (n - 1) * high
    <2>2. a <= sum[n - 1] /\ sum[n - 1] <= b
        BY <1>4
    <2>3. n * low = a + low /\ n * high = b + high
        OBVIOUS
    <2>4. a \in Int /\ b \in Int
        OBVIOUS
    <2> HIDE DEF a, b
    <2>5. sum[n - 1] \in Nat /\ sum[n] = sum[n - 1] + value(n)
        BY <1>1, <2>1
    <2>6. a + low <= sum[n] /\ sum[n] <= b + high
        BY <1>2, <2>2, <2>4, <2>5
    <2>7. n * low <= sum[n] /\ sum[n] <= n * high
        BY <2>3, <2>6
    <2> QED
        BY <2>1, <2>7
<1>5. N \in S
    <2> HIDE DEF S
    <2>1. \A n \in 0..N : n \in S
        BY <1>2, <1>3, <1>4, Rounds
    <2> QED
        BY <1>2, <2>1
<1>6. sum[N] \in Nat
    BY <1>1, <1>2
<1> QED
    BY <1>1, <1>5, <1>6 DEF N

-----------------------------------------------------------------------------
(* What is found.                                                          *)

\* The stored messages, read back.
ReadBack == {FromDocument(ToDocument(i, stored[i])) : i \in DOMAIN stored}

\* The numbers of a message that is read back fit in 64 bits.
LEMMA ReadBackNumbers ==
    ASSUME StoredType
    PROVE  \A m \in ReadBack : /\ m.startTime \in 0..W64 - 1
                               /\ m.duration \in 0..W64 - 1
                               /\ m.payloadSize \in 0..W64 - 1
<1> SUFFICES ASSUME NEW i \in DOMAIN stored
             PROVE  LET m == FromDocument(ToDocument(i, stored[i]))
                    IN  /\ m.startTime \in 0..W64 - 1
                        /\ m.duration \in 0..W64 - 1
                        /\ m.payloadSize \in 0..W64 - 1
    BY DEF ReadBack
<1>1. W32 \in Nat \ {0} /\ W64 \in Nat \ {0}
    BY WidthsNested
<1>2. stored[i] \in Messages
    BY ElementOfSeq, LenProperties DEF StoredType
<1>3. /\ stored[i].startTime \in Nat /\ stored[i].duration \in Nat
      /\ stored[i].payloadSize \in Nat
    BY <1>1, <1>2, MessagesAssumption
<1>4. ASSUME NEW n \in Nat PROVE UInt64(Int32(n)) \in 0..W64 - 1
    <2>1. n % W32 \in Int
        BY <1>1
    <2>2. Int32(n) \in Int
        BY <1>1, <2>1 DEF Int32
    <2> QED
        BY <1>1, <2>2 DEF UInt64
<1>5. /\ FromDocument(ToDocument(i, stored[i])).startTime = UInt64(Int32(stored[i].startTime))
      /\ FromDocument(ToDocument(i, stored[i])).duration = UInt64(Int32(stored[i].duration))
      /\ FromDocument(ToDocument(i, stored[i])).payloadSize = UInt64(Int32(stored[i].payloadSize))
    BY DEF FromDocument, ToDocument
<1> QED
    BY <1>3, <1>4, <1>5

\* A search finds stored messages, one for each oid.
LEMMA FoundType ==
    ASSUME StoredType, NEW request
    PROVE  Found(request) \in Seq(ReadBack)
<1> DEFINE found == Search(Documents, request)
           ids == {doc.oid : doc \in found}
           oids == FoundOids(request)
<1>1. found \in SUBSET Documents
    BY DEF Search, Newest
<1>2. ids \in SUBSET (DOMAIN stored)
    <2> HIDE DEF found
    <2>1. \A doc \in Documents : doc.oid \in DOMAIN stored
        BY DEF Documents, ToDocument
    <2> QED
        BY <1>1, <2>1
<1>3. Len(stored) \in Nat /\ DOMAIN stored = 1..Len(stored)
    BY LenProperties DEF StoredType
<1>4. ids \in SUBSET Nat /\ IsFiniteSet(ids)
    <2> HIDE DEF ids
    <2>1. IsFiniteSet(1..Len(stored))
        BY <1>3, FS_Interval
    <2>2. IsFiniteSet(ids)
        BY <1>2, <1>3, <2>1, FS_Subset
    <2> QED
        BY <1>2, <1>3, <2>2
<1>5. oids = IF request.count = {} THEN Ascending(ids) ELSE Reverse(Ascending(ids))
    BY DEF FoundOids
<1> HIDE DEF ids, oids
<1>6. Ascending(ids) \in Seq(ids)
    BY <1>4, AscendingOrder
<1>7. Reverse(Ascending(ids)) \in Seq(ids)
    <2> DEFINE s == Ascending(ids)
    <2>1. Len(s) \in Nat /\ s \in Seq(ids) /\ \A n \in 1..Len(s) : s[n] \in ids
        BY <1>6, LenProperties, ElementOfSeq
    <2> HIDE DEF s
    <2>2. \A j \in 1..Len(s) : Len(s) - j + 1 \in 1..Len(s)
        BY <2>1
    <2>3. Reverse(s) \in [1..Len(s) -> ids]
        BY <2>1, <2>2 DEF Reverse
    <2>4. Reverse(s) \in Seq(ids)
        BY <2>1, <2>3
    <2> QED
        BY <2>4 DEF s
<1>8. oids \in Seq(ids)
    BY <1>5, <1>6, <1>7
<1>9. Len(oids) \in Nat /\ DOMAIN oids = 1..Len(oids) /\ \A n \in 1..Len(oids) : oids[n] \in DOMAIN stored
    BY <1>2, <1>8, LenProperties, ElementOfSeq
<1>10. Found(request) = [n \in 1..Len(oids) |-> FromDocument(ToDocument(oids[n], stored[oids[n]]))]
    BY <1>9 DEF Found, oids
<1>11. \A n \in 1..Len(oids) : FromDocument(ToDocument(oids[n], stored[oids[n]])) \in ReadBack
    BY <1>9 DEF ReadBack
<1>12. Found(request) \in [1..Len(oids) -> ReadBack]
    BY <1>10, <1>11
<1> QED
    BY <1>9, <1>12

\* The histogram accounts for every message found, once: its buckets have
\* ascending times, and their counts and totals sum up to the number and to the
\* total of the messages, in 64 bits, whatever was stored and is asked for.
THEOREM HistogramIsWhole == Spec => []HistogramAddsUp
<1>1. StoredType => HistogramAddsUp
    <2> SUFFICES ASSUME StoredType, NEW request \in Requests
                 PROVE  LET msgs == Found(request)
                            data == Histogram(msgs)
                        IN  /\ \A i, j \in DOMAIN data : i < j => data[i][1] < data[j][1]
                            /\ Sum(2, data) = Len(msgs)
                            /\ Total(3, data) = Total("payloadSize", msgs)
        BY DEF HistogramAddsUp
    <2>1. Found(request) \in Seq(ReadBack)
        BY FoundType
    <2>2. W64 \in Nat \ {0} /\ \A m \in ReadBack : m.startTime \in Nat /\ m["payloadSize"] \in Nat
        BY WidthsNested, ReadBackNumbers
    <2> QED
        BY <2>1, <2>2, HistogramSums
<1> QED
    BY <1>1, StoredInvariant, PTL

\* The extremes that are reported are values of messages found: smallest and
\* largest payload enclose all others, and their average unless the sum
\* overflows; the smallest duration, for which no durations are compared, is
\* the duration of some message, if no payload has the largest size there is.
THEOREM ExtremesAreMet == Spec => []ExtremesAreFound
<1>1. StoredType => ExtremesAreFound
    <2> SUFFICES ASSUME StoredType, NEW request \in Requests, Found(request) # <<>>
                 PROVE  LET msgs == Found(request)
                            sizes == {msgs[i].payloadSize : i \in DOMAIN msgs}
                            durations == {msgs[i].duration : i \in DOMAIN msgs}
                            low == Lowest("payloadSize", msgs)
                            high == Highest("payloadSize", msgs)
                            average == Average("payloadSize", msgs)
                        IN  /\ {low, high} \subseteq sizes
                            /\ \A n \in sizes : low <= n /\ n <= high
                            /\ Len(msgs) * high < W64 => low <= average /\ average <= high
                            /\ high < W64 - 1 => DurationMin(msgs) \in durations
        BY DEF ExtremesAreFound
    <2> DEFINE msgs == Found(request)
               N == Len(msgs)
               v == Visited(msgs)
               low == Lowest("payloadSize", msgs)
               high == Highest("payloadSize", msgs)
               average == Average("payloadSize", msgs)
    <2>1. msgs \in Seq(ReadBack) /\ msgs # <<>>
        BY FoundType
    <2>2. W64 \in Nat \ {0}
        BY WidthsNested
    <2>3. \A m \in ReadBack : /\ m.startTime \in Nat /\ m["duration"] \in Nat
                              /\ m["payloadSize"] \in 0..W64 - 1
        BY <2>2, ReadBackNumbers
    <2> HIDE DEF msgs
    <2>4. /\ N \in Nat \ {0} /\ DOMAIN msgs = 1..N
          /\ \A i \in 1..N : msgs[i] \in ReadBack
        BY <2>1, LenProperties, EmptySeq, ElementOfSeq
    <2>5. v \in Seq(ReadBack) /\ Len(v) \in Nat \ {0}
        BY <2>1, <2>3, VisitedSome
    <2>6. /\ \A j \in 1..Len(v) : \E i \in 1..N : v[j] = msgs[i]
          /\ \A i \in 1..N : \E j \in 1..Len(v) : v[j] = msgs[i]
        BY <2>1, <2>3, VisitedContents
    <2>7. \A j \in 1..Len(v) : /\ v[j]["duration"] \in Nat
                               /\ v[j]["payloadSize"] \in Nat
                               /\ v[j]["payloadSize"] \in 0..W64 - 1
        <3> TAKE j \in 1..Len(v)
        <3>1. v[j] \in ReadBack
            BY <2>5, ElementOfSeq
        <3> QED
            BY <2>2, <2>3, <3>1
    <2>8. /\ high \in Nat
          /\ \E j \in 1..Len(v) : high = v[j]["payloadSize"]
          /\ \A j \in 1..Len(v) : v[j]["payloadSize"] <= high
        BY <2>5, <2>7, HighestMet
    <2>9. /\ low \in Nat
          /\ \E j \in 1..Len(v) : low = v[j]["payloadSize"]
          /\ \A j \in 1..Len(v) : low <= v[j]["payloadSize"]
        BY <2>2, <2>5, <2>7, LowestMet
    <2>10. high < W64 - 1 => \E j \in 1..Len(v) : DurationMin(msgs) = v[j]["duration"]
        <3> SUFFICES ASSUME high < W64 - 1
                     PROVE  \E j \in 1..Len(v) : DurationMin(msgs) = v[j]["duration"]
            OBVIOUS
        <3>1. v[1]["payloadSize"] < W64 - 1
            <4>1. 1 \in 1..Len(v)
                BY <2>5
            <4>2. v[1]["payloadSize"] <= high /\ v[1]["payloadSize"] \in Nat
                BY <2>7, <2>8, <4>1
            <4> QED
                BY <2>2, <2>8, <4>2
        <3>2. \E j \in 1..Len(v) : Minimum("payloadSize", "duration", msgs) = v[j]["duration"]
            BY <2>2, <2>5, <2>7, <3>1, MinimumMet
        <3> QED
            BY <3>2 DEF DurationMin
    <2> HIDE DEF v, low, high
    <2>11. /\ \E i \in 1..N : high = msgs[i]["payloadSize"]
           /\ \E i \in 1..N : low = msgs[i]["payloadSize"]
        BY <2>6, <2>8, <2>9
    <2>12. \A i \in 1..N : low <= msgs[i]["payloadSize"] /\ msgs[i]["payloadSize"] <= high
        BY <2>6, <2>8, <2>9
    <2>13. high < W64 - 1 => \E i \in 1..N : DurationMin(msgs) = msgs[i]["duration"]
        BY <2>6, <2>10
    <2>14. N * high < W64 => low <= average /\ average <= high
        <3> SUFFICES ASSUME N * high < W64
                     PROVE  low <= average /\ average <= high
            OBVIOUS
        <3> DEFINE sum == Sum("payloadSize", msgs)
        <3>1. \A i \in 1..N : msgs[i]["payloadSize"] \in Nat
            BY <2>2, <2>3, <2>4
        <3>2. sum \in Nat /\ N * low <= sum /\ sum <= N * high
            BY <2>4, <2>8, <2>9, <2>12, <3>1, SumBetween
        <3>3. average = (sum % W64) \div N
            BY <2>1 DEF Average, Total
        <3> HIDE DEF sum, average, N
        <3>4. sum < W64
            <4> DEFINE most == N * high
            <4>1. most \in Nat /\ sum <= most /\ most < W64
                BY <2>4, <2>8, <3>2
            <4> HIDE DEF most
            <4> QED
                BY <2>2, <3>2, <4>1
        <3>5. sum % W64 = sum
            BY <2>2, <3>2, <3>4, SmallRemainder
        <3>6. low <= sum \div N /\ sum \div N <= high
            BY <2>4, <2>8, <2>9, <3>2, AverageBetween
        <3> QED
            BY <3>3, <3>5, <3>6
    <2> QED
        BY <2>4, <2>11, <2>12, <2>13, <2>14 DEF N, low, high, msgs
<1> QED
    BY <1>1, StoredInvariant, PTL

=============================================================================
