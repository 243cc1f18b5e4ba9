------------------------------ MODULE Channel ------------------------------
(***************************************************************************)
(* What a DISocket promises to its owner: whole messages, each once and in *)
(* the order in which they were sent, then at most one error, and that     *)
(* only when the other side has ended.                                     *)
(***************************************************************************)
EXTENDS Naturals, Sequences

CONSTANTS Socket, Message

VARIABLES sent, delivered, ended, failed

channelVars == <<sent, delivered, ended, failed>>

Init ==
    /\ sent = [s \in Socket |-> <<>>]
    /\ delivered = [s \in Socket |-> <<>>]
    /\ ended = [s \in Socket |-> FALSE]
    /\ failed = [s \in Socket |-> FALSE]

Send(s) ==
    /\ ~ended[s]
    /\ \E m \in Message : sent' = [sent EXCEPT ![s] = Append(@, m)]
    /\ UNCHANGED <<delivered, ended, failed>>

Deliver(s) ==
    /\ ~failed[s]
    /\ Len(delivered[s]) < Len(sent[s])
    /\ delivered' = [delivered EXCEPT ![s] = Append(@, sent[s][Len(@) + 1])]
    /\ UNCHANGED <<sent, ended, failed>>

End(s) ==
    /\ ended' = [ended EXCEPT ![s] = TRUE]
    /\ UNCHANGED <<sent, delivered, failed>>

Fail(s) ==
    /\ ended[s] /\ ~failed[s]
    /\ failed' = [failed EXCEPT ![s] = TRUE]
    /\ UNCHANGED <<sent, delivered, ended>>

Next == \E s \in Socket : Send(s) \/ Deliver(s) \/ End(s) \/ Fail(s)

Spec == Init /\ [][Next]_channelVars

=============================================================================
