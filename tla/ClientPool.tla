----------------------------- MODULE ClientPool -----------------------------
(***************************************************************************)
(* The pool of MongoDB clients, and MongoOperation on it: exec() takes a   *)
(* client, runs the operation and gives the client back, unless the        *)
(* operation throws.  The destructor then frees the query and the cursor,  *)
(* but nobody gives the client back.                                       *)
(***************************************************************************)
EXTENDS Naturals, FiniteSets

CONSTANTS Thread,           \* threads of the program
          PoolSize          \* clients the pool creates at most

ASSUME PoolAssumption == PoolSize \in Nat \ {0}

VARIABLES free,             \* clients the pool can hand out
          holding,          \* threads that run an operation
          lost              \* clients of operations that threw

poolVars == <<free, holding, lost>>

PoolType ==
    /\ {free, lost} \subseteq 0..PoolSize
    /\ holding \in SUBSET Thread

PoolInit ==
    /\ free = PoolSize
    /\ holding = {}
    /\ lost = 0

\* mongoc_client_pool_pop: waits while there is no client.
Pop(t) ==
    /\ t \notin holding
    /\ free > 0
    /\ free' = free - 1
    /\ holding' = holding \cup {t}
    /\ UNCHANGED lost

\* The operation returns: mongoc_client_pool_push.
Push(t) ==
    /\ t \in holding
    /\ free' = free + 1
    /\ holding' = holding \ {t}
    /\ UNCHANGED lost

\* The operation throws.
Throw(t) ==
    /\ t \in holding
    /\ holding' = holding \ {t}
    /\ lost' = lost + 1
    /\ UNCHANGED free

=============================================================================
