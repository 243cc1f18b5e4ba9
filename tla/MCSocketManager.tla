-------------------------- MODULE MCSocketManager --------------------------
(***************************************************************************)
(* SocketManager on small instances.                                       *)
(***************************************************************************)
EXTENDS SocketManager, TLC

CONSTANTS s1, s2, r1, d, e

\* Two devices of one run, of the same name (time pipelining).
SameRun == s1 :> r1 @@ s2 :> r1
SameName == s1 :> d @@ s2 :> d

\* Two devices of different names.
TwoNames == s1 :> d @@ s2 :> e

=============================================================================
