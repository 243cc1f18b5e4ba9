---------------------------- MODULE BuildsProofs ----------------------------
(***************************************************************************)
(* Safety of Builds for any files, threads, clients and bounds.            *)
(***************************************************************************)
EXTENDS Builds, SequenceTheorems, FiniteSetTheorems, TLAPS

Position == {"idle", "detect", "getByName", "save", "listen",
             "getAnalyses", "get", "saveRun", "listRuns"}

-----------------------------------------------------------------------------
(* The names of the builds.                                                *)

\* A build is saved only between a lookup that did not find it and the next
\* step of main, and nobody else writes to the collection.
NamesInv ==
    /\ analyses \in Seq(Name)
    /\ IsInjective(analyses)
    /\ pc \in [Thread -> Position]
    /\ pc[Main] \in {"getByName", "save"} => file \in File
    /\ pc[Main] = "save" => ~Stored(NameIn[file])

\* A name that is not stored may be appended.
LEMMA AppendNew ==
    ASSUME NEW s \in Seq(Name), IsInjective(s), NEW n \in Name, n \notin ToSet(s)
    PROVE  Append(s, n) \in Seq(Name) /\ IsInjective(Append(s, n))
<1> DEFINE t == Append(s, n)
<1>1. /\ t \in Seq(Name) /\ Len(t) = Len(s) + 1
      /\ \A i \in 1..Len(s) : t[i] = s[i]
      /\ t[Len(s) + 1] = n
    BY AppendProperties
<1>2. /\ Len(s) \in Nat
      /\ DOMAIN s = 1..Len(s) /\ DOMAIN t = 1..Len(s) + 1
    BY <1>1, LenProperties
<1>3. ASSUME NEW a \in DOMAIN t, NEW b \in DOMAIN t, t[a] = t[b] PROVE a = b
    BY <1>1, <1>2, <1>3 DEF IsInjective, ToSet
<1> QED
    BY <1>1, <1>3 DEF IsInjective

\* Steps of the HTTP threads and of clients of the pool change neither the
\* builds nor the place of main.
LEMMA ServingLeavesMain ==
    ASSUME NamesInv, NEW h \in http, Request(h) \/ Serve(h)
    PROVE  analyses' = analyses /\ file' = file /\ pc' \in [Thread -> Position] /\ pc'[Main] = pc[Main]
<1> USE DEF Goto, Answer, Pair, unbuilt, detectorVars, NamesInv, Position
<1>1. h \in Thread /\ h # Main /\ Main \in Thread
    BY BuildsAssumption DEF http
<1>2. CASE Request(h)
    BY <1>1, <1>2 DEF Request, GetBuilds, ListWorkflows, StartRun, ListRuns, Arrive
<1>3. CASE GetAnalyses(h)
    BY <1>1, <1>3 DEF GetAnalyses
<1>4. CASE SaveRun(h)
    BY <1>1, <1>4 DEF SaveRun
<1>5. CASE ReadRuns(h)
    BY <1>1, <1>5 DEF ReadRuns
<1>6. CASE BuildNotFound(h)
    BY <1>1, <1>6 DEF BuildNotFound
<1>7. CASE GetBuild(h)
    BY <1>1, <1>7 DEF GetBuild
<1>8. CASE PairRun(h)
    BY <1>1, <1>8 DEF PairRun
<1> QED
    BY <1>2, <1>3, <1>4, <1>5, <1>6, <1>7, <1>8 DEF Serve

\* NamesInv is inductive.
THEOREM NamesInvariant == Spec => []NamesInv
<1> USE BuildsAssumption
<1>1. Init => NamesInv
    BY EmptySeq DEF Init, NamesInv, AtStart, IsInjective, Position
<1>2. NamesInv /\ [Next]_vars => NamesInv'
    <2> SUFFICES ASSUME NamesInv, [Next]_vars PROVE NamesInv'
        OBVIOUS
    <2>1. ASSUME NEW t \in Thread, TakeClient(t) PROVE NamesInv'
        BY <2>1 DEF TakeClient, NamesInv, Stored, detectorVars
    <2>2. ASSUME NEW f \in File, Detect(f) PROVE NamesInv'
        BY <2>2 DEF Detect, NamesInv, Goto, Position
    <2>3. CASE GetByName
        BY <2>3 DEF GetByName, Present, In, NamesInv, Goto, Stored, Position
    <2>4. CASE SaveBuild
        <3>1. NameIn[file] \in Name /\ NameIn[file] \notin ToSet(analyses)
            BY <2>4 DEF SaveBuild, In, NamesInv, Stored
        <3> QED
            BY <2>4, <3>1, AppendNew DEF SaveBuild, NamesInv, Goto, Position
    <2>5. CASE Listen
        BY <2>5 DEF Listen, NamesInv, Goto, Position
    <2>6. CASE MainThrows
        <3>1. pc' = AtStart
            BY <2>6 DEF MainThrows, Restart
        <3>2. pc' \in [Thread -> Position] /\ pc'[Main] = "detect"
            BY <3>1 DEF AtStart, Position
        <3>3. CASE UNCHANGED analyses
            BY <3>2, <3>3 DEF NamesInv
        <3>4. CASE pc[Main] = "save" /\ analyses' = Append(analyses, NameIn[file])
            <4>1. NameIn[file] \in Name /\ NameIn[file] \notin ToSet(analyses)
                BY <3>4 DEF NamesInv, Stored
            <4> QED
                BY <3>2, <3>4, <4>1, AppendNew DEF NamesInv
        <3> QED
            BY <2>6, <3>3, <3>4 DEF MainThrows, In
    <2>7. CASE Killed
        <3>1. pc' \in [Thread -> Position] /\ pc'[Main] = "detect"
            BY <2>7 DEF Killed, Restart, AtStart, Position
        <3> QED
            BY <2>7, <3>1 DEF Killed, NamesInv
    <2>8. ASSUME NEW h \in http, Request(h) \/ Serve(h) PROVE NamesInv'
        BY <2>8, ServingLeavesMain DEF NamesInv, Stored
    <2>9. CASE UNCHANGED vars
        BY <2>9 DEF vars, detectorVars, NamesInv, Stored
    <2> QED
        BY <2>1, <2>2, <2>3, <2>4, <2>5, <2>6, <2>7, <2>8, <2>9 DEF Next, MainStep
<1> QED
    BY <1>1, <1>2, PTL DEF Spec

\* No two builds share a name, whatever ends and restarts there were.
THEOREM NamesAreUnique == Spec => []NamedOnce
<1>1. NamesInv => NamedOnce
    BY DEF NamesInv, NamedOnce
<1> QED
    BY <1>1, NamesInvariant, PTL

-----------------------------------------------------------------------------
(* The clients of the pool.                                                *)

\* Every client is free, in use or lost, and the lost ones were reported.
ClientsInv ==
    /\ holding \subseteq Thread /\ IsFiniteSet(holding)
    /\ free \in Nat /\ lost \in Nat
    /\ free + Cardinality(holding) + lost = PoolSize
    /\ errors \in [{404, 500} -> Nat]
    /\ errors[404] <= lost
    /\ lost <= errors[404] + errors[500]

\* The clients alone, without the responses.
Kept ==
    /\ holding \subseteq Thread /\ IsFiniteSet(holding)
    /\ free \in Nat /\ lost \in Nat
    /\ free + Cardinality(holding) + lost = PoolSize

\* A thread that takes a client.
LEMMA PopKeeps ==
    ASSUME Kept, NEW t \in Thread, Pop(t)
    PROVE  Kept' /\ lost' = lost
<1>1. Cardinality(holding) \in Nat
    BY FS_CardinalityType DEF Kept
<1>2. IsFiniteSet(holding') /\ Cardinality(holding') = Cardinality(holding) + 1
    BY FS_AddElement DEF Kept, Pop
<1> QED
    BY <1>1, <1>2 DEF Kept, Pop

\* A client less in use.
LEMMA GivingUp ==
    ASSUME Kept, NEW t \in holding
    PROVE  /\ IsFiniteSet(holding \ {t})
           /\ Cardinality(holding) \in Nat
           /\ Cardinality(holding \ {t}) = Cardinality(holding) - 1
BY FS_CardinalityType, FS_RemoveElement DEF Kept

\* A client that is given back.
LEMMA PushKeeps ==
    ASSUME Kept, NEW t \in Thread, Push(t)
    PROVE  Kept' /\ lost' = lost
BY GivingUp DEF Kept, Push

\* A client that is lost.
LEMMA ThrowKeeps ==
    ASSUME Kept, NEW t \in Thread, Throw(t)
    PROVE  Kept' /\ lost' = lost + 1
BY GivingUp DEF Kept, Throw

\* ClientsInv is inductive.
THEOREM ClientsInvariant == Spec => []ClientsInv
<1> USE BuildsAssumption, PoolAssumption
<1>1. Init => ClientsInv
    BY FS_EmptySet DEF Init, PoolInit, ClientsInv, NoErrors
<1>2. ClientsInv /\ [Next]_vars => ClientsInv'
    <2> SUFFICES ASSUME ClientsInv, [Next]_vars PROVE ClientsInv'
        OBVIOUS
    <2>0. Kept
        BY DEF ClientsInv, Kept
    <2>a. ASSUME Kept', lost' = lost, UNCHANGED errors PROVE ClientsInv'
        BY <2>a DEF ClientsInv, Kept
    <2>b. ASSUME NEW h \in http, Push(h), UNCHANGED errors PROVE ClientsInv'
        BY <2>0, <2>b, <2>a, PushKeeps DEF http
    <2>c. ASSUME NEW h \in http, Push(h), Answer(h, 500) PROVE ClientsInv'
        BY <2>0, <2>c, PushKeeps DEF http, Answer, Kept, ClientsInv
    <2>d. ASSUME NEW h \in http, NEW status \in {404, 500}, Throw(h), Answer(h, status)
          PROVE ClientsInv'
        BY <2>0, <2>d, ThrowKeeps DEF http, Answer, Kept, ClientsInv
    <2>e. ASSUME Restart PROVE ClientsInv'
        BY <2>e, FS_EmptySet DEF Restart, ClientsInv, NoErrors
    <2>1. ASSUME NEW t \in Thread, TakeClient(t) PROVE ClientsInv'
        BY <2>0, <2>1, <2>a, PopKeeps DEF TakeClient
    <2>2. CASE MainStep
        <3>1. ASSUME NEW f \in File, Detect(f) PROVE ClientsInv'
            BY <2>0, <2>a, <3>1 DEF Detect, poolVars, unserved, Kept
        <3>2. CASE GetByName
            BY <2>0, <2>a, <3>2, PushKeeps DEF GetByName, unserved
        <3>3. CASE SaveBuild
            BY <2>0, <2>a, <3>3, PushKeeps DEF SaveBuild, unserved
        <3>4. CASE Listen
            BY <2>0, <2>a, <3>4 DEF Listen, poolVars, unserved, Kept
        <3>5. CASE MainThrows
            BY <2>e, <3>5 DEF MainThrows
        <3> QED
            BY <2>2, <3>1, <3>2, <3>3, <3>4, <3>5 DEF MainStep
    <2>3. CASE Killed
        BY <2>3, <2>e DEF Killed
    <2>4. ASSUME NEW h \in http, Request(h) PROVE ClientsInv'
        BY <2>0, <2>a, <2>4
        DEF Request, GetBuilds, ListWorkflows, StartRun, ListRuns, Arrive, poolVars, Kept
    <2>5. ASSUME NEW h \in http, Serve(h) PROVE ClientsInv'
        <3>1. CASE GetAnalyses(h)
            BY <2>b, <3>1 DEF GetAnalyses, Answer
        <3>2. CASE SaveRun(h)
            BY <2>b, <2>d, <3>2 DEF SaveRun
        <3>3. CASE ReadRuns(h)
            BY <2>b, <3>3 DEF ReadRuns, Pair, Answer
        <3>4. CASE BuildNotFound(h)
            BY <2>d, <3>4 DEF BuildNotFound
        <3>5. CASE GetBuild(h)
            <4>1. CASE Answer(h, 200)
                BY <2>b, <3>5, <4>1 DEF GetBuild, Answer
            <4>2. CASE Answer(h, 500)
                BY <2>c, <3>5, <4>2 DEF GetBuild
            <4> QED
                BY <3>5, <4>1, <4>2 DEF GetBuild
        <3>6. CASE PairRun(h)
            BY <2>b, <3>6 DEF PairRun, Pair, Answer
        <3> QED
            BY <2>5, <3>1, <3>2, <3>3, <3>4, <3>5, <3>6 DEF Serve
    <2>6. CASE UNCHANGED vars
        BY <2>0, <2>a, <2>6 DEF vars, poolVars, Kept
    <2> QED
        BY <2>1, <2>2, <2>3, <2>4, <2>5, <2>6 DEF Next
<1> QED
    BY <1>1, <1>2, PTL DEF Spec

\* A client is lost only with an error in a response, and always with a 404.
THEOREM LossesAreReported == Spec => []LossIsReported
<1>1. ClientsInv => LossIsReported
    BY PoolAssumption, FS_CardinalityType DEF ClientsInv, LossIsReported
<1> QED
    BY <1>1, ClientsInvariant, PTL

-----------------------------------------------------------------------------
(* The lists of runs.                                                      *)

Kind == {"none", "builds", "workflows", "start", "runs"}

ListType ==
    /\ analyses \in Seq(Name)
    /\ runs \in Seq(Nat)
    /\ failures \in Nat /\ crashes \in Nat
    /\ errors \in [{404, 500} -> Nat]
    /\ pc \in [Thread -> Position]
    /\ request \in [http -> [kind : Kind, build : Nat]]
    /\ found \in [http -> Seq(Nat)]
    /\ body \in [http -> Seq(Nat)]
    /\ before \in [http -> Nat]

\* The runs below n are what the request was going to list: those in body have
\* been paired with their builds, and the others are what is found.
Pairing(h, n) ==
    LET k == Len(body[h])
    IN  /\ k < n /\ n <= Len(runs)
        /\ body[h] = [i \in 1..k |-> i]
        /\ found[h] = [i \in 1..n - k |-> k + i]
        /\ \A i \in 1..k : runs[i] \in DOMAIN analyses
        /\ failures = 0 => n >= before[h]

\* A request for the runs has not read them, or has read some and is pairing
\* them one after the other.
Progress(h) ==
    request[h].kind = "runs" =>
        \/ /\ pc[h] = "listRuns"
           /\ body[h] = <<>>
           /\ before[h] <= Len(runs)
        \/ /\ pc[h] = "get"
           /\ \E n \in Nat : Pairing(h, n)

ListInv == ListType /\ \A h \in http : Progress(h)

\* What a request has found so far stays true while others go on.
LEMMA ProgressStays ==
    ASSUME ListType, NEW h \in http, Progress(h),
           request'[h] = request[h], found'[h] = found[h], body'[h] = body[h],
           before'[h] = before[h], pc'[h] = pc[h],
           failures' = 0 => failures = 0,
           Len(runs') \in Nat, Len(runs) <= Len(runs'),
           \A i \in 1..Len(runs) : runs'[i] = runs[i],
           DOMAIN analyses \subseteq DOMAIN analyses'
    PROVE  Progress(h)'
<1>1. Len(runs) \in Nat /\ Len(body[h]) \in Nat /\ before[h] \in Nat
    BY DEF ListType
<1>2. ASSUME NEW n \in Nat, Pairing(h, n) PROVE Pairing(h, n)'
    <2> DEFINE k == Len(body[h])
    <2>1. /\ k < n /\ n <= Len(runs) /\ k \in Nat
          /\ \A i \in 1..k : runs[i] \in DOMAIN analyses
          /\ failures = 0 => n >= before[h]
        BY <1>1, <1>2 DEF Pairing
    <2>2. \A i \in 1..k : runs'[i] \in DOMAIN analyses'
        <3> TAKE i \in 1..k
        <3>1. i \in 1..Len(runs)
            BY <1>1, <2>1
        <3> QED
            BY <2>1, <3>1
    <2>3. n <= Len(runs') /\ (failures' = 0 => n >= before'[h])
        BY <1>1, <2>1
    <2> QED
        BY <1>2, <2>1, <2>2, <2>3 DEF Pairing
<1> QED
    BY <1>1, <1>2 DEF Progress

\* A longer sequence.
LEMMA Longer ==
    ASSUME NEW S, NEW s \in Seq(S), NEW x \in S
    PROVE  /\ Append(s, x) \in Seq(S)
           /\ Len(s) \in Nat /\ Len(Append(s, x)) = Len(s) + 1
           /\ \A i \in 1..Len(s) : Append(s, x)[i] = s[i]
           /\ DOMAIN s \subseteq DOMAIN Append(s, x)
BY AppendProperties

\* What ListingIsAllOrNothing says of one thread.
Whole(h) ==
    request[h].kind = "runs" /\ pc'[h] = "idle" /\ <<errors, crashes>>' = <<errors, crashes>> =>
        /\ body'[h] = [i \in DOMAIN body'[h] |-> i]
        /\ \A i \in DOMAIN body'[h] : runs[i] \in DOMAIN analyses
        /\ failures' = 0 => Len(body'[h]) >= before[h]

\* A step of one thread leaves the requests of the others alone, and what is
\* stored only grows.
Apart(h) ==
    /\ \A g \in http \ {h} :
        /\ request'[g] = request[g] /\ found'[g] = found[g] /\ body'[g] = body[g]
        /\ before'[g] = before[g] /\ pc'[g] = pc[g]
    /\ failures' = 0 => failures = 0
    /\ Len(runs) <= Len(runs')
    /\ \A i \in 1..Len(runs) : runs'[i] = runs[i]
    /\ DOMAIN analyses \subseteq DOMAIN analyses'

\* Counting a failure shows.
LEMMA FailCounts ==
    ASSUME ListType, Fail
    PROVE  failures' \in Nat /\ failures' # 0
BY DEF ListType, Fail

\* An answer ends the request.
LEMMA AnswerEnds ==
    ASSUME ListType, NEW h \in http, NEW status \in {200, 404, 500}, Answer(h, status)
    PROVE  /\ request' \in [http -> [kind : Kind, build : Nat]] /\ request'[h].kind = "none"
           /\ found' \in [http -> Seq(Nat)] /\ before' \in [http -> Nat]
           /\ pc' \in [Thread -> Position] /\ pc'[h] = "idle"
           /\ errors' \in [{404, 500} -> Nat]
           /\ \A g \in http \ {h} :
                /\ request'[g] = request[g] /\ found'[g] = found[g]
                /\ before'[g] = before[g] /\ pc'[g] = pc[g]
<1>1. NoRequest \in [kind : Kind, build : Nat] /\ NoRequest.kind = "none" /\ <<>> \in Seq(Nat)
    BY EmptySeq DEF NoRequest, Kind
<1>2. h \in Thread /\ http \subseteq Thread
    BY DEF http
<1> QED
    BY <1>1, <1>2 DEF Answer, Goto, ListType, Position

\* A request arrives: a list has everything before it still.
LEMMA RequestLists ==
    ASSUME ListInv, NEW h \in http, Request(h)
    PROVE  ListType' /\ Progress(h)' /\ Apart(h) /\ Whole(h)
<1> USE DEF ListInv, ListType
<1>1. PICK kind \in Kind \ {"none"}, build \in Nat, operation \in Position \ {"idle"} :
        /\ Arrive(h, kind, build, operation)
        /\ kind = "runs" => operation = "listRuns"
    BY BuildsAssumption
    DEF Request, GetBuilds, ListWorkflows, StartRun, ListRuns, Kind, Position
<1>2. h \in Thread /\ http \subseteq Thread /\ <<>> \in Seq(Nat)
    BY EmptySeq DEF http
<1>3. Len(runs) \in Nat
    OBVIOUS
<1>4. UNCHANGED <<analyses, runs, found, errors, failures, crashes>>
    BY <1>1 DEF Arrive, unbuilt
<1>5. /\ request' = [request EXCEPT ![h] = [kind |-> kind, build |-> build]]
      /\ before' = [before EXCEPT ![h] = IF kind = "runs" THEN Len(runs) ELSE 0]
      /\ body' = [body EXCEPT ![h] = <<>>]
      /\ pc' = [pc EXCEPT ![h] = operation]
    BY <1>1 DEF Arrive, Goto
<1>6. /\ ListType'
      /\ request'[h].kind = kind /\ pc'[h] = operation /\ body'[h] = <<>>
      /\ kind = "runs" => before'[h] = Len(runs)
    BY <1>2, <1>3, <1>4, <1>5
<1>7. Progress(h)'
    BY <1>1, <1>3, <1>4, <1>6 DEF Progress
<1>8. Apart(h)
    BY <1>2, <1>3, <1>4, <1>5 DEF Apart
<1> QED
    BY <1>6, <1>7, <1>8 DEF Whole

\* An answer with nothing else happening to the requests.
LEMMA AnswerKeeps ==
    ASSUME ListType, NEW h \in http, NEW status \in {200, 404, 500}, Answer(h, status),
           body' \in [http -> Seq(Nat)],
           \A g \in http \ {h} : body'[g] = body[g],
           UNCHANGED <<analyses, crashes>>, failures' = failures \/ Fail,
           runs' \in Seq(Nat), Len(runs) <= Len(runs'),
           \A i \in 1..Len(runs) : runs'[i] = runs[i]
    PROVE  ListType' /\ Progress(h)' /\ Apart(h)
<1>1. /\ request' \in [http -> [kind : Kind, build : Nat]] /\ request'[h].kind = "none"
      /\ found' \in [http -> Seq(Nat)] /\ before' \in [http -> Nat]
      /\ pc' \in [Thread -> Position]
      /\ errors' \in [{404, 500} -> Nat]
      /\ \A g \in http \ {h} :
            /\ request'[g] = request[g] /\ found'[g] = found[g]
            /\ before'[g] = before[g] /\ pc'[g] = pc[g]
    BY AnswerEnds
<1>2. failures' \in Nat /\ (failures' = 0 => failures = 0)
    BY FailCounts DEF ListType
<1>3. ListType'
    <2>1. analyses' \in Seq(Name) /\ crashes' \in Nat
        BY DEF ListType
    <2> QED
        BY <1>1, <1>2, <2>1 DEF ListType
<1>4. Progress(h)'
    BY <1>1 DEF Progress
<1>5. DOMAIN analyses \subseteq DOMAIN analyses'
    OBVIOUS
<1>6. Apart(h)
    BY <1>1, <1>2, <1>5 DEF Apart
<1> QED
    BY <1>3, <1>4, <1>6

\* Serving another request than one for the runs.
LEMMA OtherKeeps ==
    ASSUME ListInv, NEW h \in http,
           GetAnalyses(h) \/ SaveRun(h) \/ BuildNotFound(h) \/ GetBuild(h)
    PROVE  ListType' /\ Progress(h)' /\ Apart(h) /\ Whole(h)
<1>0. /\ h \in Thread /\ http \subseteq Thread
      /\ ListType /\ Progress(h)
      /\ Len(runs) \in Nat
      /\ body \in [http -> Seq(Nat)] /\ runs \in Seq(Nat)
    BY DEF http, ListInv, ListType
<1>1. /\ analyses' = analyses /\ body' = body /\ crashes' = crashes
      /\ failures' = failures \/ Fail
    BY DEF GetAnalyses, SaveRun, BuildNotFound, GetBuild, unbuilt
<1>2. ASSUME NEW status \in {200, 404, 500}, Answer(h, status), runs' = runs
      PROVE  ListType' /\ Progress(h)' /\ Apart(h)
    <2>1. /\ runs' \in Seq(Nat) /\ Len(runs) <= Len(runs')
          /\ \A i \in 1..Len(runs) : runs'[i] = runs[i]
          /\ body' \in [http -> Seq(Nat)]
          /\ \A g \in http \ {h} : body'[g] = body[g]
        BY <1>0, <1>1, <1>2
    <2> QED
        BY <1>0, <1>1, <1>2, <2>1, AnswerKeeps
<1>3. CASE GetAnalyses(h) \/ GetBuild(h)
    <2>1. /\ Answer(h, 200) \/ Answer(h, 500)
          /\ runs' = runs
          /\ pc[h] = "getAnalyses" \/ request[h].kind # "runs"
        BY <1>3 DEF GetAnalyses, GetBuild, In
    <2>2. request[h].kind # "runs"
        BY <1>0, <2>1 DEF Progress
    <2>3. Whole(h)
        BY <2>2 DEF Whole
    <2> QED
        BY <1>2, <2>1, <2>3
<1>4. CASE BuildNotFound(h)
    <2>1. Answer(h, 404) /\ runs' = runs
        BY <1>4 DEF BuildNotFound
    <2>2. errors'[404] # errors[404]
        BY <1>0, <2>1 DEF Answer, ListType
    <2>3. Whole(h)
        BY <2>2 DEF Whole
    <2> QED
        BY <1>2, <2>1, <2>3
<1>5. CASE SaveRun(h)
    <2>0. request[h].kind # "runs"
        BY <1>0, <1>5 DEF SaveRun, In, Progress
    <2>1. /\ Len(runs) <= Len(runs') /\ runs' \in Seq(Nat)
          /\ \A i \in 1..Len(runs) : runs'[i] = runs[i]
        <3>1. request[h].build \in Nat
            BY <1>0 DEF ListType
        <3>2. CASE runs' = runs
            BY <1>0, <3>2
        <3>3. CASE runs' = Append(runs, request[h].build)
            BY <1>0, <3>1, <3>3, Longer
        <3> QED
            BY <1>5, <3>2, <3>3 DEF SaveRun
    <2>2. CASE Answer(h, 500)
        <3>1. /\ body' \in [http -> Seq(Nat)]
              /\ \A g \in http \ {h} : body'[g] = body[g]
            BY <1>0, <1>1
        <3>2. ListType' /\ Progress(h)' /\ Apart(h)
            BY <1>0, <1>1, <2>1, <2>2, <3>1, AnswerKeeps
        <3> QED
            BY <2>0, <3>2 DEF Whole
    <2>3. CASE Goto(h, "get") /\ UNCHANGED <<request, found, before, errors>>
        <3>0. failures' \in Nat /\ (failures' = 0 => failures = 0)
            BY <1>0, <1>1, FailCounts DEF ListType
        <3>1. ListType'
            BY <1>0, <1>1, <2>1, <2>3, <3>0 DEF ListType, Goto, Position
        <3>2. Progress(h)'
            BY <2>0, <2>3 DEF Progress
        <3>3. Apart(h)
            BY <1>0, <1>1, <2>1, <2>3, <3>0 DEF Apart, Goto, ListType
        <3> QED
            BY <2>0, <3>1, <3>2, <3>3 DEF Whole
    <2> QED
        BY <1>5, <2>2, <2>3 DEF SaveRun
<1> QED
    BY <1>3, <1>4, <1>5

\* The rest of a list is not empty: the next run is looked up.
LEMMA GoOn ==
    ASSUME ListType, NEW h \in http, NEW rest \in Seq(Nat),
           found' = [found EXCEPT ![h] = rest], Goto(h, "get"),
           UNCHANGED <<request, before, errors, analyses, runs, crashes>>,
           failures' = failures \/ Fail,
           body' \in [http -> Seq(Nat)],
           \A g \in http \ {h} : body'[g] = body[g]
    PROVE  /\ ListType' /\ Apart(h)
           /\ found'[h] = rest /\ pc'[h] = "get" /\ request'[h] = request[h]
<1>1. h \in Thread /\ http \subseteq Thread
    BY DEF http
<1>2. failures' \in Nat /\ (failures' = 0 => failures = 0)
    BY FailCounts DEF ListType
<1>3. ListType'
    <2>1. /\ analyses' \in Seq(Name) /\ runs' \in Seq(Nat) /\ crashes' \in Nat
          /\ errors' \in [{404, 500} -> Nat]
          /\ request' \in [http -> [kind : Kind, build : Nat]] /\ before' \in [http -> Nat]
        BY DEF ListType
    <2>2. pc' \in [Thread -> Position] /\ found' \in [http -> Seq(Nat)]
        BY <1>1 DEF ListType, Goto, Position
    <2> QED
        BY <1>2, <2>1, <2>2 DEF ListType
<1>4. Len(runs) \in Nat /\ runs' = runs /\ analyses' = analyses
    BY DEF ListType
<1>5. Apart(h)
    BY <1>1, <1>2, <1>4 DEF Apart, Goto, ListType
<1> QED
    BY <1>1, <1>3, <1>5 DEF Goto, ListType

\* The runs are read: all of them, or fewer when the cursor fails.
LEMMA ReadingKeeps ==
    ASSUME ListInv, NEW h \in http, ReadRuns(h)
    PROVE  ListType' /\ Progress(h)' /\ Apart(h) /\ Whole(h)
<1>0. /\ ListType /\ Progress(h) /\ h \in Thread
      /\ Len(runs) \in Nat /\ runs \in Seq(Nat) /\ before[h] \in Nat
      /\ body \in [http -> Seq(Nat)]
    BY DEF ListInv, ListType, http
<1>1. /\ pc[h] = "listRuns"
      /\ UNCHANGED <<analyses, crashes, runs, body>>
    BY DEF ReadRuns, In, unbuilt
<1>2. PICK n \in 0..Len(runs) :
        /\ (n = Len(runs) /\ UNCHANGED failures) \/ Fail
        /\ Pair(h, [i \in 1..n |-> i])
    BY DEF ReadRuns
<1>3. failures' \in Nat /\ (failures' = 0 => failures = 0 /\ n = Len(runs))
    BY <1>0, <1>2, FailCounts DEF ListType
<1>4. request[h].kind = "runs" => body[h] = <<>> /\ before[h] <= Len(runs)
    BY <1>0, <1>1 DEF Progress
<1>5. /\ [i \in 1..n |-> i] \in Seq(Nat)
      /\ [i \in 1..n |-> i] = <<>> <=> n = 0
    <2>1. [i \in 1..n |-> i] \in Seq(Nat) /\ Len([i \in 1..n |-> i]) = n
        BY <1>0, IsASeq
    <2> QED
        BY <2>1, EmptySeq
<1>6. CASE n = 0
    <2>1. Answer(h, 200)
        BY <1>2, <1>5, <1>6 DEF Pair
    <2>2. ListType' /\ Progress(h)' /\ Apart(h)
        BY <1>0, <1>1, <1>2, <2>1, AnswerKeeps
    <2>3. Whole(h)
        BY <1>0, <1>1, <1>3, <1>4, <1>6 DEF Whole
    <2> QED
        BY <2>2, <2>3
<1>7. CASE n # 0
    <2>1. /\ found' = [found EXCEPT ![h] = [i \in 1..n |-> i]]
          /\ Goto(h, "get")
          /\ UNCHANGED <<request, before, errors>>
        BY <1>2, <1>5, <1>7 DEF Pair
    <2>2. /\ ListType' /\ Apart(h)
          /\ found'[h] = [i \in 1..n |-> i] /\ pc'[h] = "get" /\ request'[h] = request[h]
        BY <1>0, <1>1, <1>2, <1>5, <2>1, GoOn
    <2>3. ASSUME request[h].kind = "runs" PROVE Pairing(h, n)'
        <3>1. body'[h] = <<>> /\ Len(body'[h]) = 0 /\ before'[h] <= Len(runs)
            BY <1>1, <1>4, <2>1, <2>3
        <3>2. /\ body'[h] = [i \in 1..0 |-> i]
              /\ found'[h] = [i \in 1..n - 0 |-> 0 + i]
            BY <1>0, <2>2, <3>1
        <3> QED
            BY <1>0, <1>1, <1>3, <1>7, <3>1, <3>2 DEF Pairing
    <2>4. Progress(h)'
        BY <2>2, <2>3 DEF Progress
    <2>5. Whole(h)
        BY <2>2 DEF Whole
    <2> QED
        BY <2>2, <2>4, <2>5
<1> QED
    BY <1>6, <1>7

\* The next run has a build: it joins those in body.
LEMMA PairingKeeps ==
    ASSUME ListInv, NEW h \in http, PairRun(h)
    PROVE  ListType' /\ Progress(h)' /\ Apart(h) /\ Whole(h)
<1>0. /\ ListType /\ Progress(h) /\ h \in Thread
      /\ Len(runs) \in Nat /\ runs \in Seq(Nat) /\ before[h] \in Nat
      /\ body \in [http -> Seq(Nat)] /\ found[h] \in Seq(Nat)
    BY DEF ListInv, ListType, http
<1>1. /\ pc[h] = "get" /\ request[h].kind = "runs"
      /\ runs[Head(found[h])] \in DOMAIN analyses
      /\ body' = [body EXCEPT ![h] = Append(@, Head(found[h]))]
      /\ Pair(h, Tail(found[h]))
      /\ UNCHANGED <<analyses, crashes, runs, failures>>
    BY DEF PairRun, In, unbuilt, Wanted
<1>2. PICK n \in Nat : Pairing(h, n)
    BY <1>0, <1>1 DEF Progress
<1> DEFINE k == Len(body[h])
<1>3. /\ k \in Nat /\ k < n /\ n <= Len(runs)
      /\ body[h] = [i \in 1..k |-> i]
      /\ found[h] = [i \in 1..n - k |-> k + i]
      /\ \A i \in 1..k : runs[i] \in DOMAIN analyses
      /\ failures = 0 => n >= before[h]
    BY <1>0, <1>2 DEF Pairing
<1> HIDE DEF k
<1>4. /\ found[h] # <<>> /\ Head(found[h]) = k + 1
      /\ Tail(found[h]) = [i \in 1..n - (k + 1) |-> (k + 1) + i]
      /\ Tail(found[h]) \in Seq(Nat)
      /\ Tail(found[h]) = <<>> <=> n = k + 1
    <2>0. k \in Nat /\ n \in Nat /\ k < n
        BY <1>3
    <2>1. Len(found[h]) = n - k /\ n - k \in Nat \ {0}
        BY <1>3
    <2>2. found[h] # <<>>
        BY <2>1, EmptySeq
    <2>a. /\ Tail(found[h]) \in Seq(Nat)
          /\ Len(Tail(found[h])) = Len(found[h]) - 1
          /\ \A i \in 1..Len(Tail(found[h])) : Tail(found[h])[i] = found[h][i + 1]
        BY <1>0, <2>2, HeadTailProperties
    <2>b. Head(found[h]) = found[h][1]
        BY <1>0, <2>2
    <2>c. /\ Len(Tail(found[h])) = n - (k + 1)
          /\ \A i \in 1..n - (k + 1) : Tail(found[h])[i] = found[h][i + 1]
        <3>1. Len(found[h]) - 1 = n - (k + 1)
            BY <2>0, <2>1
        <3> QED
            BY <2>a, <3>1
    <2>3. found[h][1] = k + 1 /\ \A i \in 1..n - (k + 1) : found[h][i + 1] = (k + 1) + i
        BY <1>3
    <2>4. Tail(found[h]) = [i \in 1..n - (k + 1) |-> (k + 1) + i]
        BY <2>a, <2>c, <2>3
    <2>5. Tail(found[h]) = <<>> <=> n = k + 1
        <3>1. Tail(found[h]) = <<>> <=> Len(Tail(found[h])) = 0
            BY <2>a, EmptySeq
        <3>2. n - (k + 1) = 0 <=> n = k + 1
            BY <2>0
        <3> QED
            BY <2>c, <3>1, <3>2
    <2> QED
        BY <2>0, <2>1, <2>2, <2>a, <2>b, <2>3, <2>4, <2>5
<1>5. /\ body'[h] = [i \in 1..k + 1 |-> i]
      /\ Len(body'[h]) = k + 1
      /\ body' \in [http -> Seq(Nat)]
      /\ \A g \in http \ {h} : body'[g] = body[g]
    <2>1. body'[h] = Append(body[h], k + 1)
        BY <1>0, <1>1, <1>4
    <2>2. /\ body'[h] \in Seq(Nat) /\ Len(body'[h]) = k + 1
          /\ \A i \in 1..k : body'[h][i] = i
          /\ body'[h][k + 1] = k + 1
        BY <1>0, <1>3, <2>1, AppendProperties DEF k
    <2>3. body'[h] = [i \in 1..k + 1 |-> i]
        BY <1>3, <2>2
    <2> QED
        BY <1>0, <1>1, <2>2, <2>3
<1>6. \A i \in 1..k + 1 : runs[i] \in DOMAIN analyses
    BY <1>1, <1>3, <1>4
<1>7. CASE n = k + 1
    <2>1. Answer(h, 200)
        BY <1>1, <1>4, <1>7 DEF Pair
    <2>2. ListType' /\ Progress(h)' /\ Apart(h)
        BY <1>0, <1>1, <1>5, <2>1, AnswerKeeps
    <2>3. DOMAIN body'[h] = 1..k + 1
        BY <1>5
    <2>4. Whole(h)
        BY <1>1, <1>3, <1>5, <1>6, <1>7, <2>3 DEF Whole
    <2> QED
        BY <2>2, <2>4
<1>8. CASE n # k + 1
    <2>1. /\ found' = [found EXCEPT ![h] = Tail(found[h])]
          /\ Goto(h, "get")
          /\ UNCHANGED <<request, before, errors>>
        BY <1>1, <1>4, <1>8 DEF Pair
    <2>2. /\ ListType' /\ Apart(h)
          /\ found'[h] = Tail(found[h]) /\ pc'[h] = "get" /\ request'[h] = request[h]
        BY <1>0, <1>1, <1>4, <1>5, <2>1, GoOn
    <2>3. Pairing(h, n)'
        <3>1. /\ k + 1 < n /\ n <= Len(runs')
              /\ failures' = 0 => n >= before'[h]
            BY <1>1, <1>3, <1>8, <2>1
        <3>2. /\ Len(body'[h]) = k + 1 /\ body'[h] = [i \in 1..k + 1 |-> i]
              /\ found'[h] = [i \in 1..n - (k + 1) |-> (k + 1) + i]
              /\ \A i \in 1..k + 1 : runs'[i] \in DOMAIN analyses'
            BY <1>1, <1>4, <1>5, <1>6, <2>2
        <3> QED
            BY <3>1, <3>2 DEF Pairing
    <2>4. Progress(h)'
        BY <2>2, <2>3 DEF Progress
    <2>5. Whole(h)
        BY <2>2 DEF Whole
    <2> QED
        BY <2>2, <2>4, <2>5
<1> QED
    BY <1>7, <1>8

\* A step of main, or of the pool of clients, concerns no request.
LEMMA MainListKeeps ==
    ASSUME ListInv, NamesInv,
           (\E t \in Thread : TakeClient(t)) \/ (\E f \in File : Detect(f))
               \/ GetByName \/ SaveBuild \/ Listen \/ UNCHANGED vars
    PROVE  ListInv' /\ \A h \in http : Whole(h)
<1>1. /\ UNCHANGED <<runs, request, found, body, before, errors, crashes, failures>>
      /\ pc' \in [Thread -> Position] /\ \A h \in http : pc'[h] = pc[h]
    <2>1. UNCHANGED <<runs, request, found, body, before, errors, crashes, failures>>
        BY DEF TakeClient, Detect, GetByName, SaveBuild, Listen, vars, detectorVars, listVars,
               boundVars, unserved
    <2>2. pc' = pc \/ \E position \in Position : Goto(Main, position)
        BY DEF TakeClient, Detect, GetByName, SaveBuild, Listen, vars, Position
    <2>3. pc \in [Thread -> Position] /\ Main \in Thread
        BY BuildsAssumption DEF ListInv, ListType
    <2> QED
        BY <2>1, <2>2, <2>3 DEF Goto, http
<1>2. analyses' \in Seq(Name) /\ DOMAIN analyses \subseteq DOMAIN analyses'
    <2>1. CASE SaveBuild
        <3>1. NameIn[file] \in Name
            BY <2>1, BuildsAssumption DEF NamesInv, SaveBuild, In
        <3> QED
            BY <2>1, <3>1, Longer DEF SaveBuild, ListInv, ListType
    <2>2. CASE ~SaveBuild
        <3>1. analyses' = analyses
            BY <2>2 DEF TakeClient, Detect, GetByName, Listen, vars
        <3> QED
            BY <3>1 DEF ListInv, ListType
    <2> QED
        BY <2>1, <2>2
<1>3. ListType'
    BY <1>1, <1>2 DEF ListInv, ListType
<1>4. ASSUME NEW h \in http PROVE Progress(h)' /\ Whole(h)
    <2>1. ListType /\ Progress(h) /\ Len(runs) \in Nat
        BY DEF ListInv, ListType
    <2>2. Progress(h)'
        BY <1>1, <1>2, <2>1, ProgressStays
    <2>3. Whole(h)
        BY <1>1, <2>1 DEF Whole, Progress
    <2> QED
        BY <2>2, <2>3
<1> QED
    BY <1>3, <1>4 DEF ListInv

\* After a restart no request is left.
LEMMA RestartKeeps ==
    ASSUME ListInv, NamesInv, MainThrows \/ Killed
    PROVE  ListInv' /\ \A h \in http : Whole(h)
<1> USE DEF ListInv, ListType
<1>1. Restart
    BY DEF MainThrows, Killed
<1>2. analyses' \in Seq(Name)
    <2>1. CASE UNCHANGED analyses
        BY <2>1
    <2>2. CASE In(Main, "save") /\ analyses' = Append(analyses, NameIn[file])
        <3>1. NameIn[file] \in Name
            BY <2>2, BuildsAssumption DEF NamesInv, In
        <3> QED
            BY <2>2, <3>1, Longer
    <2> QED
        BY <2>1, <2>2 DEF MainThrows, Killed
<1>3. failures' \in Nat
    BY FailCounts DEF MainThrows, Killed
<1>4. /\ NoRequest \in [kind : Kind, build : Nat] /\ NoRequest.kind = "none"
      /\ <<>> \in Seq(Nat) /\ AtStart \in [Thread -> Position]
    BY EmptySeq DEF NoRequest, Kind, AtStart, Position
<1>5. /\ ListType' /\ crashes' # crashes
      /\ \A h \in http : request'[h].kind = "none"
    BY <1>1, <1>2, <1>3, <1>4 DEF Restart, Each, NoErrors
<1> QED
    BY <1>5 DEF Progress, Whole

\* ListInv is inductive, and every step does what ListingIsAllOrNothing asks.
LEMMA ListStep ==
    ASSUME ListInv, NamesInv, [Next]_vars
    PROVE  ListInv' /\ \A h \in http : Whole(h)
<1>1. ASSUME NEW h \in http, Request(h) \/ Serve(h) PROVE ListInv' /\ \A g \in http : Whole(g)
    <2>1. ListType' /\ Progress(h)' /\ Apart(h) /\ Whole(h)
        BY <1>1, RequestLists, OtherKeeps, ReadingKeeps, PairingKeeps DEF Serve
    <2>2. ASSUME NEW g \in http \ {h} PROVE Progress(g)' /\ Whole(g)
        <3>1. ListType /\ Progress(g)
            BY <2>2 DEF ListInv
        <3>a. Len(runs') \in Nat
            BY <2>1 DEF ListType
        <3>2. Progress(g)'
            BY <2>1, <2>2, <3>1, <3>a, ProgressStays DEF Apart
        <3>3. Whole(g)
            BY <2>1, <2>2, <3>1 DEF Apart, Whole, Progress
        <3> QED
            BY <3>2, <3>3
    <2> QED
        BY <2>1, <2>2 DEF ListInv
<1> QED
    BY <1>1, MainListKeeps, RestartKeeps DEF Next, MainStep

\* ListInv holds in every state.
THEOREM ListInvariant == Spec => []ListInv
<1>1. Init => ListInv
    <2> SUFFICES ASSUME Init PROVE ListInv
        OBVIOUS
    <2>1. /\ NoRequest \in [kind : Kind, build : Nat] /\ NoRequest.kind = "none"
          /\ <<>> \in Seq(Nat) /\ <<>> \in Seq(Name) /\ AtStart \in [Thread -> Position]
        BY EmptySeq DEF NoRequest, Kind, AtStart, Position
    <2> QED
        BY <2>1 DEF Init, ListInv, ListType, Progress, Each, NoErrors
<1>2. ListInv /\ NamesInv /\ [Next]_vars => ListInv'
    BY ListStep
<1> QED
    BY <1>1, <1>2, NamesInvariant, PTL DEF Spec

\* A list of runs that is served has each run once, with its build, in order,
\* and every run from before the request unless a cursor failed.
THEOREM ListsAreWhole == Spec => ListingIsAllOrNothing
<1>1. ListInv /\ NamesInv /\ [Next]_vars => [\A h \in http : Whole(h)]_vars
    BY ListStep
<1> QED
    BY <1>1, ListInvariant, NamesInvariant, PTL DEF Spec, ListingIsAllOrNothing, Whole

=============================================================================
