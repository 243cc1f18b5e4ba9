------------------------------ MODULE MCProxy ------------------------------
(***************************************************************************)
(* Proxy on small instances.                                               *)
(***************************************************************************)
EXTENDS Proxy, TLC

CONSTANTS s1, s2, r1, d

OneRun == s1 :> r1 @@ s2 :> r1

SameName == s1 :> d @@ s2 :> d

\* Nobody selects devices: selection only adds commands to the outboxes.
QuietNext ==
    \/ \E s \in Socket : ConnectionStep(s)
    \/ RunStep
    \/ \E q \in StopRequest : StopTerminates(q)
    \/ ProxyCrash

QuietFairSpec == ProxyInit /\ [][QuietNext]_proxyState /\ ProxyFairness

=============================================================================
