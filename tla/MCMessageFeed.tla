--------------------------- MODULE MCMessageFeed ---------------------------
(***************************************************************************)
(* MessageFeed on small instances: two connections of one name, a third of *)
(* another; one client follows the first name, one the second, one both.   *)
(***************************************************************************)
EXTENDS MessageFeed, TLC

CONSTANTS c1, c2, c3, n1, n2, k1, k2, k3

Names == c1 :> n1 @@ c2 :> n1 @@ c3 :> n2

Watches == k1 :> {n1} @@ k2 :> {n2} @@ k3 :> {n1, n2}

=============================================================================
