------------------------- MODULE MessageFeedProofs -------------------------
(***************************************************************************)
(* Safety of MessageFeed for any connections, threads, clients, pages and  *)
(* bounds.                                                                 *)
(***************************************************************************)
EXTENDS MessageFeed, FiniteSetTheorems, WellFoundedInduction, TLAPS

\* A set of positive numbers with a bound has a largest one.
LEMMA Largest ==
    ASSUME NEW m \in Nat, NEW S \in SUBSET (1..m), S # {}
    PROVE  \E n \in S : \A k \in S : k <= n
<1> DEFINE T == {m - n : n \in S}
           R == OpToRel(<, Nat)
<1> HIDE DEF R
<1>1. \A n \in S : n \in Nat /\ m - n \in Nat
    OBVIOUS
<1>2. T \subseteq Nat /\ T # {}
    BY <1>1
<1>3. IsWellFoundedOn(R, Nat)
    BY NatLessThanWellFounded DEF R
<1>4. PICK x \in T : \A y \in T : ~ (<<y, x>> \in R)
    <2> HIDE DEF T
    <2> QED
        BY <1>2, <1>3, WFMin
<1>5. \A y \in T : ~(y < x)
    BY <1>2, <1>4 DEF OpToRel, R
<1>6. PICK n \in S : x = m - n
    OBVIOUS
<1>7. \A k \in S : ~(m - k < m - n)
    BY <1>5, <1>6
<1> QED
    BY <1>1, <1>7

-----------------------------------------------------------------------------
(* What a connection stores is newer than all it stored, and differs from  *)
(* all that is stored; there are no more of them than threads.             *)

FreshInv ==
    /\ TypeOK
    /\ IsFiniteSet(collection)
    /\ Cardinality(AtWork) <= IoThreads
    /\ \A c \in AtWork : \A d \in collection :
        d.oid # writing[c] /\ (d.from = c => d.oid < writing[c])
    /\ \A b, c \in AtWork : writing[b] = writing[c] => b = c

\* A client's cursor is the id of a message that it was given.
CursorInv == \A k \in Client : cursor[k] = 0 \/ \E d \in received[k] : d.oid = cursor[k]

FeedInv == FreshInv /\ CursorInv /\ SkippedWasOvertaken /\ FewAreOvertaken

\* The documents that a poll may be given.
Newer(k) == {d \in collection : d.oid > cursor[k] /\ d.sender \in Watch[k]}

Page(k) == NewerMessages(collection, cursor[k], Watch[k], Count)

\* The connections at work on less than a bound are finite, and at most those
\* at work.
LEMMA AtWorkIsFinite ==
    /\ IsFiniteSet(AtWork) /\ Cardinality(AtWork) \in Nat
    /\ \A n : /\ IsFiniteSet({c \in AtWork : writing[c] < n})
              /\ Cardinality({c \in AtWork : writing[c] < n}) \in Nat
<1>1. IsFiniteSet(AtWork)
    BY NamesAssumption, FS_Subset DEF AtWork
<1>2. \A n : IsFiniteSet({c \in AtWork : writing[c] < n})
    BY <1>1, FS_Subset
<1> QED
    BY <1>1, <1>2, FS_CardinalityType

\* A page has the oldest of the newer messages: no gap below any of them.
LEMMA PageIsClosed ==
    ASSUME FreshInv, NEW k \in Client, NEW p \in Page(k), NEW d \in Newer(k), d.oid <= p.oid
    PROVE  d \in Page(k)
<1> DEFINE Below(x) == {e \in Newer(k) : e.oid < x.oid}
<1>1. IsFiniteSet(Newer(k))
    BY FS_Subset DEF FreshInv, Newer
<1>2. p \in Newer(k) /\ Cardinality(Below(p)) < Count
    BY DEF Page, NewerMessages, Oldest, Newer
<1>3. \A e \in Newer(k) : e.oid \in Nat
    BY DEF FreshInv, TypeOK, Newer
<1>4. Below(d) \subseteq Below(p)
    BY <1>2, <1>3
<1>5. IsFiniteSet(Below(p))
    BY <1>1, FS_Subset
<1>6. /\ Cardinality(Below(d)) <= Cardinality(Below(p))
      /\ Cardinality(Below(d)) \in Nat /\ Cardinality(Below(p)) \in Nat
    BY <1>4, <1>5, FS_Subset, FS_CardinalityType
<1>7. Cardinality(Below(d)) < Count
    BY <1>2, <1>6, FeedAssumption
<1> QED
    BY <1>7 DEF Page, NewerMessages, Oldest, Newer

\* After a page the cursor is the largest id of the page.
LEMMA CursorOfPage ==
    ASSUME FreshInv, NEW k \in Client, Page(k) # {}
    PROVE  /\ \E p \in Page(k) : p.oid = NextCursor(k, Page(k))
           /\ \A p \in Page(k) : p.oid <= NextCursor(k, Page(k))
<1> DEFINE S == {d.oid : d \in Page(k)}
<1>1. lastOid \in Nat /\ S \in SUBSET (1..lastOid) /\ S # {}
    <2>1. lastOid \in Nat /\ \A d \in collection : d.oid \in 1..lastOid
        BY FeedAssumption DEF FreshInv, TypeOK
    <2>2. Page(k) \subseteq collection
        BY DEF Page, NewerMessages, Oldest
    <2> HIDE DEF Page
    <2>3. S \subseteq 1..lastOid
        BY <2>1, <2>2
    <2>4. S # {}
        OBVIOUS
    <2> QED
        BY <2>1, <2>3, <2>4
<1>2. \E n \in S : \A x \in S : x <= n
    BY <1>1, Largest
<1>3. \E n \in S : \A d \in Page(k) : d.oid <= n
    BY <1>2
<1>4. /\ NextCursor(k, Page(k)) \in S
      /\ \A d \in Page(k) : d.oid <= NextCursor(k, Page(k))
    BY <1>3 DEF NextCursor
<1> QED
    BY <1>4

-----------------------------------------------------------------------------
\* A connection begins to store with an id above all others.
LEMMA BeginStoreKeeps ==
    ASSUME FeedInv, NEW c \in Connection, BeginStore(c)
    PROVE  FeedInv'
<1> USE DEF FeedInv
<1>1. TypeOK'
    BY FeedAssumption DEF FreshInv, TypeOK, BeginStore
<1>2. /\ AtWork' = AtWork \cup {c} /\ c \notin AtWork
      /\ \A b \in AtWork : writing'[b] = writing[b]
      /\ writing'[c] = lastOid + 1
    BY FeedAssumption DEF FreshInv, TypeOK, BeginStore, AtWork
<1>3. /\ lastOid \in Nat
      /\ \A b \in Connection : writing[b] \in 0..lastOid
      /\ \A d \in collection : d.oid \in 1..lastOid
    BY FeedAssumption DEF FreshInv, TypeOK
<1>4. Cardinality(AtWork') <= IoThreads
    <2>1. Cardinality(AtWork') = Cardinality(AtWork) + 1
        BY <1>2, AtWorkIsFinite, FS_AddElement
    <2> QED
        BY <2>1, AtWorkIsFinite, FeedAssumption DEF BeginStore, ThreadFree
<1>5. FreshInv'
    <2>1. \A b \in AtWork' : \A d \in collection :
            d.oid # writing'[b] /\ (d.from = b => d.oid < writing'[b])
        BY <1>2, <1>3 DEF FreshInv
    <2>2. \A a, b \in AtWork' : writing'[a] = writing'[b] => a = b
        <3>1. \A a \in AtWork : writing[a] # lastOid + 1
            BY <1>3 DEF AtWork
        <3> QED
            BY <1>2, <3>1 DEF FreshInv
    <2> QED
        BY <1>1, <1>4, <2>1, <2>2 DEF FreshInv, BeginStore
<1>6. CursorInv' /\ SkippedWasOvertaken'
    BY DEF BeginStore, CursorInv, SkippedWasOvertaken, Due
<1>7. FewAreOvertaken'
    <2>1. \A d \in collection :
            {b \in AtWork' : writing'[b] < d.oid} = {b \in AtWork : writing[b] < d.oid}
        BY <1>2, <1>3
    <2> QED
        BY <2>1 DEF BeginStore, FewAreOvertaken
<1> QED
    BY <1>5, <1>6, <1>7

\* A message becomes visible, or is not saved: others may have overtaken it.
LEMMA EndStoreKeeps ==
    ASSUME FeedInv, NEW c \in Connection, EndStore(c)
    PROVE  FeedInv'
<1> USE DEF FeedInv
<1> DEFINE new == [oid |-> writing[c], sender |-> NameOf[c], from |-> c]
<1>1. /\ c \in AtWork /\ AtWork' = AtWork \ {c}
      /\ \A b \in AtWork' : writing'[b] = writing[b]
    BY FeedAssumption DEF FreshInv, TypeOK, EndStore, AtWork
<1>2. /\ lastOid \in Nat /\ writing[c] \in 1..lastOid
      /\ \A b \in Connection : writing[b] \in 0..lastOid
      /\ \A d \in collection : d.oid \in 1..lastOid
      /\ new \in [oid : 1..lastOid, sender : Sender, from : Connection]
    <2>1. /\ lastOid \in Nat
          /\ \A b \in Connection : writing[b] \in 0..lastOid
          /\ \A d \in collection : d.oid \in 1..lastOid
        BY FeedAssumption DEF FreshInv, TypeOK
    <2>2. writing[c] \in 1..lastOid
        BY <2>1 DEF EndStore
    <2>3. NameOf[c] \in Sender
        BY NamesAssumption
    <2> QED
        BY <2>1, <2>2, <2>3
<1>3. collection' \subseteq collection \cup {new} /\ collection \subseteq collection'
    BY DEF EndStore
<1>4. TypeOK'
    <2>1. lastOid' \in 0..MaxMessages /\ writing' \in [Connection -> 0..lastOid']
        BY <1>2 DEF FreshInv, TypeOK, EndStore
    <2>2. collection' \in SUBSET [oid : 1..lastOid', sender : Sender, from : Connection]
        BY <1>2, <1>3 DEF FreshInv, TypeOK, EndStore
    <2>3. cursor' \in [Client -> 0..lastOid'] /\ received' \in [Client -> SUBSET collection']
        BY <1>3 DEF FreshInv, TypeOK, EndStore
    <2> QED
        BY <2>1, <2>2, <2>3 DEF TypeOK
<1>5. /\ IsFiniteSet(collection')
      /\ Cardinality(AtWork') = Cardinality(AtWork) - 1
    <2>1. IsFiniteSet(collection \cup {new})
        BY FS_AddElement DEF FreshInv
    <2>2. IsFiniteSet(collection')
        BY <1>3, <2>1, FS_Subset
    <2>3. Cardinality(AtWork \ {c}) = Cardinality(AtWork) - 1
        BY <1>1, AtWorkIsFinite, FS_RemoveElement
    <2> QED
        BY <1>1, <2>2, <2>3
<1>6. FreshInv'
    <2>1. \A b \in AtWork' : b # c /\ writing[b] # writing[c]
        BY <1>1 DEF FreshInv
    <2>2. \A b \in AtWork' : \A d \in collection' :
            d.oid # writing'[b] /\ (d.from = b => d.oid < writing'[b])
        <3> SUFFICES ASSUME NEW b \in AtWork', NEW d \in collection'
                     PROVE  d.oid # writing[b] /\ (d.from = b => d.oid < writing[b])
            BY <1>1
        <3>1. CASE d \in collection
            BY <1>1, <3>1 DEF FreshInv
        <3>2. CASE d = new
            BY <2>1, <3>2
        <3> QED
            BY <1>3, <3>1, <3>2
    <2>3. Cardinality(AtWork') <= IoThreads
        BY <1>5, AtWorkIsFinite, FeedAssumption DEF FreshInv
    <2> QED
        BY <1>1, <1>4, <1>5, <2>2, <2>3 DEF FreshInv
<1>7. CursorInv'
    BY DEF EndStore, CursorInv
<1>8. SkippedWasOvertaken'
    <2> SUFFICES ASSUME NEW k \in Client
                 PROVE  /\ received[k] \subseteq Due(k)'
                        /\ \A d \in Due(k)' \ received[k] :
                            \E e \in received[k] : e.oid > d.oid /\ e.from # d.from
        BY DEF SkippedWasOvertaken, EndStore
    <2>1. Due(k) \subseteq Due(k)' /\ Due(k)' \subseteq Due(k) \cup {new}
        BY <1>3 DEF Due, EndStore
    <2>2. ASSUME new \in Due(k)'
          PROVE  \E e \in received[k] : e.oid > new.oid /\ e.from # new.from
        <3>1. cursor[k] \in 0..lastOid /\ writing[c] <= cursor[k]
            BY <2>2 DEF Due, EndStore, FreshInv, TypeOK
        <3>2. PICK e \in received[k] : e.oid = cursor[k]
            BY <1>2, <3>1 DEF CursorInv
        <3>3. e \in collection
            BY <3>2 DEF SkippedWasOvertaken, Due
        <3>4. e.oid # writing[c] /\ (e.from = c => e.oid < writing[c])
            BY <1>1, <3>3 DEF FreshInv
        <3>5. e.oid > writing[c] /\ e.from # c
            BY <1>2, <3>1, <3>2, <3>4
        <3> QED
            BY <3>2, <3>5
    <2> QED
        BY <2>1, <2>2 DEF SkippedWasOvertaken
<1>9. FewAreOvertaken'
    <2> SUFFICES ASSUME NEW d \in collection'
                 PROVE  Cardinality({b \in AtWork' : writing'[b] < d.oid}) < IoThreads
        BY DEF FewAreOvertaken
    <2> DEFINE late == {b \in AtWork' : writing'[b] < d.oid}
    <2>1. late \in SUBSET AtWork'
        OBVIOUS
    <2>2. IsFiniteSet(AtWork') /\ Cardinality(AtWork') \in Nat
        BY <1>1, AtWorkIsFinite, FS_RemoveElement, FS_CardinalityType
    <2>3. Cardinality(late) \in Nat /\ Cardinality(late) <= Cardinality(AtWork')
        BY <2>1, <2>2, FS_Subset, FS_CardinalityType
    <2> QED
        BY <1>5, <2>2, <2>3, AtWorkIsFinite, FeedAssumption DEF FreshInv
<1> QED
    BY <1>6, <1>7, <1>8, <1>9

\* A page leaves no gap of its own below the new cursor.
LEMMA PollKeeps ==
    ASSUME FeedInv, NEW k \in Client, Poll(k)
    PROVE  FeedInv'
<1> USE DEF FeedInv
<1> DEFINE page == Page(k)
           next == NextCursor(k, page)
<1> HIDE DEF page, next
<1>1. /\ cursor' = [cursor EXCEPT ![k] = next]
      /\ received' = [received EXCEPT ![k] = @ \cup page]
      /\ UNCHANGED <<lastOid, writing, collection>>
    BY DEF Poll, page, next, Page
<1>2. /\ page \subseteq Newer(k) /\ Newer(k) \subseteq collection
    BY DEF page, Page, NewerMessages, Oldest, Newer
<1>3. /\ lastOid \in Nat /\ cursor[k] \in 0..lastOid
      /\ \A d \in collection : d.oid \in 1..lastOid
    BY FeedAssumption DEF FreshInv, TypeOK
<1>4. page # {} => /\ \E p \in page : p.oid = next
                   /\ \A p \in page : p.oid <= next
    BY CursorOfPage DEF page, next
<1>5. page = {} => next = cursor[k]
    BY DEF next, NextCursor
<1>6. next \in 0..lastOid /\ cursor[k] <= next
    BY <1>2, <1>3, <1>4, <1>5 DEF Newer
<1>7. TypeOK'
    BY <1>1, <1>2, <1>6 DEF FreshInv, TypeOK
<1>8. FreshInv'
    BY <1>1, <1>7 DEF FreshInv, AtWork
<1>9. FewAreOvertaken'
    BY <1>1 DEF FewAreOvertaken, AtWork
<1>10. /\ cursor'[k] = next /\ received'[k] = received[k] \cup page
       /\ \A j \in Client \ {k} : cursor'[j] = cursor[j] /\ received'[j] = received[j]
    BY <1>1 DEF FreshInv, TypeOK
<1>11. CursorInv'
    BY <1>4, <1>5, <1>10 DEF CursorInv
<1>12. SkippedWasOvertaken'
    <2> SUFFICES ASSUME NEW j \in Client
                 PROVE  /\ received'[j] \subseteq Due(j)'
                        /\ \A d \in Due(j)' \ received'[j] :
                            \E e \in received'[j] : e.oid > d.oid /\ e.from # d.from
        BY DEF SkippedWasOvertaken
    <2>1. CASE j # k
        BY <1>1, <1>10, <2>1 DEF SkippedWasOvertaken, Due
    <2>2. CASE j = k
        <3>1. Due(k)' = {d \in collection : d.sender \in Watch[k] /\ d.oid <= next}
            BY <1>1, <1>10 DEF Due
        <3>2. received[k] \subseteq Due(k)'
            BY <1>3, <1>6, <3>1 DEF SkippedWasOvertaken, Due
        <3>3. page \subseteq Due(k)'
            BY <1>2, <1>4, <3>1 DEF Newer
        <3>4. ASSUME NEW d \in Due(k)', d \notin received[k], d \notin page
              PROVE  d \in Due(k)
            <4>1. d \in collection /\ d.sender \in Watch[k] /\ d.oid <= next
                BY <3>1
            <4>2. ASSUME d.oid > cursor[k] PROVE FALSE
                <5>1. d \in Newer(k)
                    BY <4>1, <4>2 DEF Newer
                <5>2. page # {}
                    BY <1>3, <1>5, <4>1, <4>2
                <5>3. PICK p \in page : p.oid = next
                    BY <1>4, <5>2
                <5>4. d \in page
                    BY <4>1, <5>1, <5>3, PageIsClosed DEF page
                <5> QED
                    BY <3>4, <5>4
            <4> QED
                BY <1>3, <4>1, <4>2 DEF Due
        <3> QED
            BY <1>10, <2>2, <3>2, <3>3, <3>4 DEF SkippedWasOvertaken
    <2> QED
        BY <2>1, <2>2
<1> QED
    BY <1>8, <1>9, <1>11, <1>12

-----------------------------------------------------------------------------
\* FeedInv is inductive.
THEOREM FeedInvariant == Spec => []FeedInv
<1>1. Init => FeedInv
    <2> SUFFICES ASSUME Init PROVE FeedInv
        OBVIOUS
    <2>1. AtWork = {}
        BY DEF Init, AtWork
    <2>2. TypeOK
        BY FeedAssumption DEF Init, TypeOK
    <2>3. FreshInv
        BY <2>1, <2>2, FS_EmptySet, FeedAssumption DEF Init, FreshInv
    <2>4. CursorInv /\ SkippedWasOvertaken /\ FewAreOvertaken
        BY DEF Init, CursorInv, SkippedWasOvertaken, Due, FewAreOvertaken
    <2> QED
        BY <2>3, <2>4 DEF FeedInv
<1>2. FeedInv /\ [Next]_vars => FeedInv'
    <2> SUFFICES ASSUME FeedInv, [Next]_vars PROVE FeedInv'
        OBVIOUS
    <2>1. CASE UNCHANGED vars
        BY <2>1 DEF vars, FeedInv, FreshInv, TypeOK, AtWork, CursorInv, SkippedWasOvertaken,
            Due, FewAreOvertaken
    <2> QED
        BY <2>1, BeginStoreKeeps, EndStoreKeeps, PollKeeps DEF Next
<1> QED
    BY <1>1, <1>2, PTL DEF Spec

\* Whatever a client skips, another connection's message overtook it.
THEOREM Skipped == Spec => []SkippedWasOvertaken
<1>1. FeedInv => SkippedWasOvertaken
    BY DEF FeedInv
<1> QED
    BY <1>1, FeedInvariant, PTL

\* A visible message is ahead of fewer messages still under way than there are
\* threads.
THEOREM Overtaken == Spec => []FewAreOvertaken
<1>1. FeedInv => FewAreOvertaken
    BY DEF FeedInv
<1> QED
    BY <1>1, FeedInvariant, PTL

=============================================================================
