------------------------------ MODULE MCBuilds ------------------------------
(***************************************************************************)
(* Builds on small instances: three files, two of which hold one name.     *)
(***************************************************************************)
EXTENDS Builds

CONSTANTS f1, f2, f3, n1, n2, main, h1, h2

Names == f1 :> n1 @@ f2 :> n2 @@ f3 :> n1

=============================================================================
