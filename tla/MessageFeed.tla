---------------------------- MODULE MessageFeed ----------------------------
(***************************************************************************)
(* The messages on their way from the connections to the clients: the IO   *)
(* threads store them, each in two steps, and clients poll for what came   *)
(* after the last message they know.  A document gets its oid first and    *)
(* becomes visible later, so the order of the oids is not the order in     *)
(* which the clients can see them.                                         *)
(*                                                                         *)
(* The read of a page is one step: MongoDB answers a query that fits one   *)
(* batch from one snapshot.                                                *)
(***************************************************************************)
EXTENDS MessageRepository

CONSTANTS Connection,       \* connections that send DATA
          Sender,           \* names of devices
          NameOf,           \* name of the device at each connection
          Client,           \* clients of /messages/newer
          Watch,            \* names each of them asks for
          Count,            \* page size they ask for
          IoThreads,        \* threads that store messages
          MaxMessages       \* bound: messages stored

ASSUME NamesAssumption ==
    /\ NameOf \in [Connection -> Sender]
    /\ Watch \in [Client -> SUBSET Sender]
    /\ IsFiniteSet(Connection)

ASSUME FeedAssumption ==
    /\ {Count, IoThreads} \subseteq Nat \ {0}
    /\ MaxMessages \in Nat

VARIABLES lastOid,          \* libbson's counter
          writing,          \* oid of the message a connection stores, or 0
          collection,       \* documents inserted
          cursor,           \* id each client passes, 0 for none
          received          \* documents each client was given

vars == <<lastOid, writing, collection, cursor, received>>

TypeOK ==
    /\ lastOid \in 0..MaxMessages
    /\ writing \in [Connection -> 0..lastOid]
    /\ collection \in SUBSET [oid : 1..lastOid, sender : Sender, from : Connection]
    /\ cursor \in [Client -> 0..lastOid]
    /\ received \in [Client -> SUBSET collection]

Init ==
    /\ lastOid = 0
    /\ writing = [c \in Connection |-> 0]
    /\ collection = {}
    /\ cursor = [k \in Client |-> 0]
    /\ received = [k \in Client |-> {}]

-----------------------------------------------------------------------------
AtWork == {c \in Connection : writing[c] # 0}

\* Fault: every connection has a thread of its own.
FaultyThreadFree == TRUE

ThreadFree == Cardinality(AtWork) < IoThreads

\* addMessage up to bson_oid_init.
BeginStore(c) ==
    /\ writing[c] = 0
    /\ ThreadFree
    /\ lastOid < MaxMessages
    /\ lastOid' = lastOid + 1
    /\ writing' = [writing EXCEPT ![c] = lastOid + 1]
    /\ UNCHANGED <<collection, cursor, received>>

\* mongoc_collection_insert_one takes effect, or fails: MessageNotSaved.
EndStore(c) ==
    /\ writing[c] # 0
    /\ \/ collection' = collection \cup
            {[oid |-> writing[c], sender |-> NameOf[c], from |-> c]}
       \/ UNCHANGED collection
    /\ writing' = [writing EXCEPT ![c] = 0]
    /\ UNCHANGED <<lastOid, cursor, received>>

\* The client keeps the id of the last header of the page.
NextCursor(k, page) ==
    IF page = {} THEN cursor[k]
    ELSE CHOOSE n \in {d.oid : d \in page} : \A d \in page : d.oid <= n

\* A client asks for what is newer than the last message it has.
Poll(k) ==
    LET page == NewerMessages(collection, cursor[k], Watch[k], Count)
    IN  /\ cursor' = [cursor EXCEPT ![k] = NextCursor(k, page)]
        /\ received' = [received EXCEPT ![k] = @ \cup page]
        /\ UNCHANGED <<lastOid, writing, collection>>

Next ==
    \/ \E c \in Connection : BeginStore(c) \/ EndStore(c)
    \/ \E k \in Client : Poll(k)

Spec == Init /\ [][Next]_vars

\* A client keeps polling; a write is answered.
Fairness ==
    /\ \A c \in Connection : WF_vars(EndStore(c))
    /\ \A k \in Client : WF_vars(Poll(k))

FairSpec == Spec /\ Fairness

-----------------------------------------------------------------------------
(* Properties.                                                             *)

Watched(k) == {c \in Connection : NameOf[c] \in Watch[k]}

Due(k) == {d \in collection : d.sender \in Watch[k] /\ d.oid <= cursor[k]}

\* Any client is given only messages it asked for, up to its cursor; what it
\* skipped, a message of another connection overtook.
SkippedWasOvertaken ==
    \A k \in Client :
        /\ received[k] \subseteq Due(k)
        /\ \A d \in Due(k) \ received[k] :
            \E e \in received[k] : e.oid > d.oid /\ e.from # d.from

\* At any time at most IoThreads - 1 messages that are not yet visible can be
\* overtaken by one that is: a single thread would skip nothing.
FewAreOvertaken ==
    \A d \in collection :
        Cardinality({c \in AtWork : writing[c] < d.oid}) < IoThreads

\* Whatever the page size, a client gets past every message it asked for, and
\* a client of one connection gets the message.
FeedReaches ==
    \A k \in Client : \A c \in Connection : \A n \in 1..MaxMessages :
        LET d == [oid |-> n, sender |-> NameOf[c], from |-> c]
        IN  c \in Watched(k) /\ d \in collection
                ~> /\ cursor[k] >= n
                   /\ Watched(k) = {c} => d \in received[k]

=============================================================================
