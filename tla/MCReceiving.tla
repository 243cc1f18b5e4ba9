---------------------------- MODULE MCReceiving ----------------------------
(***************************************************************************)
(* Receiving on small instances: a device that registers, sends a message  *)
(* without a body and leaves, and another one of its run that registers.   *)
(***************************************************************************)
EXTENDS Receiving, TLC

CONSTANTS s1, s2, on, silent, data, off

Types == on :> "DEVICE_ON" @@ silent :> "DEVICE_ON" @@ data :> "DATA" @@ off :> "DEVICE_OFF"

Sizes == on :> 2 @@ silent :> 0 @@ data :> 0 @@ off :> 0

Scripts == s1 :> <<on, data, off>> @@ s2 :> <<silent>>

Bare(m) == [binding |-> m, sourceChannel |-> "c", timeslice |-> 0]

Full(m) == [binding |-> m, sourceChannel |-> "c", timeslice |-> 1, origin |-> "o",
            description |-> "d", subSpec |-> 7]

Out(m, extra) ==
    [binding |-> m, channel |-> "e", timeslice |-> 0, maxTimeslices |-> 2] @@ extra

Named == [origin |-> "o", description |-> "d"]

\* With and without each optional member.
Registered ==
    [runId |-> "r", name |-> "n",
     specs |-> [rank |-> 0, nSlots |-> 1, inputTimesliceId |-> 2, maxInputTimeslices |-> 3,
                inputs |-> <<Bare("a"), Full("b")>>,
                outputs |-> <<Out("x", Named), Out("y", Named @@ [subSpec |-> 3])>>,
                forwards |-> <<Out("z", <<>>), Out("w", Named), Out("v", [subSpec |-> 0])>>]]

\* No channels, and a name that is taken: devices may share theirs.
RegisteredToo ==
    [runId |-> "r", name |-> "n",
     specs |-> [rank |-> 1, nSlots |-> 1, inputTimesliceId |-> 2, maxInputTimeslices |-> 3,
                inputs |-> <<>>, outputs |-> <<>>, forwards |-> <<>>]]

Payloads == on :> Registered @@ silent :> RegisteredToo

=============================================================================
