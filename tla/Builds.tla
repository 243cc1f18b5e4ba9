------------------------------- MODULE Builds -------------------------------
(***************************************************************************)
(* Builds and the requests that look them up: BuildDetector fills the      *)
(* collection "analyses" before the proxy listens, BuildService and        *)
(* RunsService read it on HTTP threads, all with clients of one pool.  An  *)
(* exception ends main, and docker starts the proxy again, or becomes the  *)
(* status of a response.                                                   *)
(***************************************************************************)
EXTENDS ClientPool, Sequences, SequencesExt

CONSTANTS File, Name,       \* files *.build, and the names they may hold
          NameIn,           \* the name each file holds
          Main,             \* the thread of main; the others serve requests
          BuildId,          \* ids that requests name; a build has its place
          MaxRuns,          \* bound: runs saved
          MaxFailures,      \* bound: operations and directories that fail
          MaxCrashes        \* bound: ends of the proxy

ASSUME BuildsAssumption ==
    /\ NameIn \in [File -> Name]
    /\ Main \in Thread
    /\ BuildId \subseteq Nat
    /\ {MaxRuns, MaxFailures, MaxCrashes} \subseteq Nat

VARIABLES analyses,         \* names of the builds; a build's id is its place
          runs,             \* build ids of the runs, in the order of insertion
          unvisited,        \* files the directory iterator has not reached
          file,             \* the file being detected
          pc,               \* the operation each thread is at
          request,          \* what each HTTP thread serves
          found,            \* runs that listRuns read and did not look up yet
          body,             \* runs with their builds, for the response
          before,           \* runs saved when the request came
          errors,           \* responses by status since the proxy started
          failures, crashes

http == Thread \ {Main}

detectorVars == <<unvisited, file>>
listVars == <<found, body, before>>
boundVars == <<failures, crashes>>
vars == <<poolVars, analyses, runs, detectorVars, pc, request, listVars, errors, boundVars>>

TypeOK ==
    /\ PoolType
    /\ analyses \in Seq(Name)
    /\ runs \in Seq(BuildId)
    /\ unvisited \in SUBSET File
    /\ file \in File \cup {"none"}
    /\ pc \in [Thread -> {"idle", "detect", "getByName", "save", "listen",
                          "getAnalyses", "get", "saveRun", "listRuns"}]
    /\ request \in [http -> [kind : {"none", "builds", "workflows", "start", "runs"}, build : BuildId]]
    /\ found \in [http -> Seq(1..MaxRuns)]
    /\ body \in [http -> Seq(1..MaxRuns)]
    /\ before \in [http -> 0..MaxRuns]
    /\ errors \in [{404, 500} -> Nat]
    /\ {failures, crashes} \subseteq Nat

\* Where the threads are when main comes to detectBuilds.
AtStart == [t \in Thread |-> IF t = Main THEN "detect" ELSE "idle"]

NoRequest == [kind |-> "none", build |-> 0]

Each(value) == [h \in http |-> value]

NoErrors == [status \in {404, 500} |-> 0]

Init ==
    /\ PoolInit
    /\ analyses = <<>> /\ runs = <<>>
    /\ unvisited = File /\ file = "none"
    /\ pc = AtStart
    /\ request = Each(NoRequest)
    /\ found = Each(<<>>) /\ body = Each(<<>>) /\ before = Each(0)
    /\ errors = NoErrors
    /\ failures = 0 /\ crashes = 0

-----------------------------------------------------------------------------
Goto(t, state) == pc' = [pc EXCEPT ![t] = state]

\* The thread is in the operation, with a client.
In(t, operation) == pc[t] = operation /\ t \in holding

Fail ==
    /\ failures < MaxFailures
    /\ failures' = failures + 1

\* exec() of the operation the thread has come to.
TakeClient(t) ==
    /\ pc[t] \notin {"idle", "detect", "listen"}
    /\ Pop(t)
    /\ UNCHANGED <<analyses, runs, detectorVars, pc, request, listVars, errors, boundVars>>

(* BuildDetector, on the thread of main. *)

unserved == <<runs, request, listVars, errors, crashes>>

\* Fault: detection ends at the first build that is present.
FaultyPresent == unvisited' = {}

\* "Already present": the iterator goes on with what it has left.
Present == UNCHANGED unvisited

\* The files of the directory come in an order of their own.
Detect(f) ==
    /\ pc[Main] = "detect"
    /\ f \in unvisited
    /\ unvisited' = unvisited \ {f}
    /\ file' = f
    /\ Goto(Main, "getByName")
    /\ UNCHANGED <<poolVars, analyses, failures, unserved>>

\* Fault: a build is looked up by its path, which differs in every file.
FaultyStored(name) == FALSE

Stored(name) == name \in ToSet(analyses)

GetByName ==
    /\ In(Main, "getByName")
    /\ Push(Main)
    /\ IF Stored(NameIn[file])
       THEN Present /\ Goto(Main, "detect")
       ELSE UNCHANGED unvisited /\ Goto(Main, "save")
    /\ UNCHANGED <<analyses, file, failures, unserved>>

SaveBuild ==
    /\ In(Main, "save")
    /\ Push(Main)
    /\ analyses' = Append(analyses, NameIn[file])
    /\ Goto(Main, "detect")
    /\ UNCHANGED <<detectorVars, failures, unserved>>

\* handle.listen, once detectBuilds has returned.
Listen ==
    /\ pc[Main] = "detect"
    /\ unvisited = {}
    /\ Goto(Main, "listen")
    /\ UNCHANGED <<poolVars, analyses, detectorVars, failures, unserved>>

\* The proxy ends and is started again: the collections stay.
Restart ==
    /\ crashes < MaxCrashes
    /\ crashes' = crashes + 1
    /\ free' = PoolSize /\ holding' = {} /\ lost' = 0
    /\ unvisited' = File /\ file' = "none"
    /\ pc' = AtStart
    /\ request' = Each(NoRequest)
    /\ found' = Each(<<>>) /\ body' = Each(<<>>) /\ before' = Each(0)
    /\ errors' = NoErrors
    /\ UNCHANGED runs

Killed == Restart /\ UNCHANGED <<analyses, failures>>

\* BuildNotFound of getByName and BuildNotSaved of save leave main.  An insert
\* that failed for the proxy may have reached MongoDB.
MainThrows ==
    /\ \/ In(Main, "getByName") /\ UNCHANGED analyses
       \/ In(Main, "save") /\ UNCHANGED analyses
       \/ In(Main, "save") /\ analyses' = Append(analyses, NameIn[file])
    /\ Fail
    /\ Restart

-----------------------------------------------------------------------------
(* Requests, each on a thread of the HTTP server.                          *)

unbuilt == <<analyses, detectorVars, crashes>>

Arrive(h, kind, build, operation) ==
    /\ pc[Main] = "listen"
    /\ pc[h] = "idle"
    /\ request' = [request EXCEPT ![h] = [kind |-> kind, build |-> build]]
    /\ before' = [before EXCEPT ![h] = IF kind = "runs" THEN Len(runs) ELSE 0]
    /\ body' = [body EXCEPT ![h] = <<>>]
    /\ Goto(h, operation)
    /\ UNCHANGED <<poolVars, unbuilt, runs, found, errors, failures>>

GetBuilds(h) == Arrive(h, "builds", 0, "getAnalyses")

ListWorkflows(h) == \E b \in BuildId : Arrive(h, "workflows", b, "get")

StartRun(h) ==
    /\ Len(runs) + Cardinality({t \in http : pc[t] = "saveRun"}) < MaxRuns
    /\ \E b \in BuildId : Arrive(h, "start", b, "saveRun")

ListRuns(h) == Arrive(h, "runs", 0, "listRuns")

\* withErrorHandling and GlobalExceptionHandler: the thread is done.
Answer(h, status) ==
    /\ errors' = IF status = 200 THEN errors ELSE [errors EXCEPT ![status] = @ + 1]
    /\ request' = [request EXCEPT ![h] = NoRequest]
    /\ found' = [found EXCEPT ![h] = <<>>]
    /\ before' = [before EXCEPT ![h] = 0]
    /\ Goto(h, "idle")

\* Fault: a cursor that fails returns early, and keeps the client.
FaultyGetAnalyses(h) ==
    /\ In(h, "getAnalyses")
    /\ \/ Push(h) /\ UNCHANGED failures
       \/ Fail /\ holding' = holding \ {h} /\ UNCHANGED <<free, lost>>
    /\ Answer(h, 200)
    /\ UNCHANGED <<unbuilt, runs, body>>

\* A page of builds.  A cursor that fails ends the loop like one that is done:
\* the page is shorter, the response the same.
GetAnalyses(h) ==
    /\ In(h, "getAnalyses")
    /\ Push(h)
    /\ Fail \/ UNCHANGED failures
    /\ Answer(h, 200)
    /\ UNCHANGED <<unbuilt, runs, body>>

\* runRepository.save at the start of a run.
SaveRun(h) ==
    /\ In(h, "saveRun")
    /\ \/ /\ Push(h)
          /\ runs' = Append(runs, request[h].build)
          /\ Goto(h, "get")
          /\ UNCHANGED <<request, found, before, errors, failures>>
       \/ /\ Throw(h)
          /\ Fail
          /\ runs' \in {runs, Append(runs, request[h].build)}
          /\ Answer(h, 500)
    /\ UNCHANGED <<unbuilt, body>>

\* The build that the request looks up: of the run it starts, or of the next
\* run it lists.
Wanted(h) == IF request[h].kind = "runs" THEN runs[Head(found[h])] ELSE request[h].build

\* RunsService::listRuns is done with the runs before the remaining ones.
Pair(h, remaining) ==
    IF remaining = <<>>
    THEN Answer(h, 200)
    ELSE /\ found' = [found EXCEPT ![h] = remaining]
         /\ Goto(h, "get")
         /\ UNCHANGED <<request, before, errors>>

\* runRepository.listRuns: a failed cursor cuts the list short.
ReadRuns(h) ==
    /\ In(h, "listRuns")
    /\ Push(h)
    /\ \E n \in 0..Len(runs) :
        /\ \/ n = Len(runs) /\ UNCHANGED failures
           \/ Fail
        /\ Pair(h, [i \in 1..n |-> i])
    /\ UNCHANGED <<unbuilt, runs, body>>

\* The next run with its build.
PairRun(h) ==
    /\ In(h, "get")
    /\ request[h].kind = "runs"
    /\ Wanted(h) \in DOMAIN analyses
    /\ Push(h)
    /\ body' = [body EXCEPT ![h] = Append(@, Head(found[h]))]
    /\ Pair(h, Tail(found[h]))
    /\ UNCHANGED <<unbuilt, runs, failures>>

\* A single build.  What follows, the directory of its workflows or the shell
\* of the run, may fail without the database.
GetBuild(h) ==
    /\ In(h, "get")
    /\ request[h].kind # "runs"
    /\ Wanted(h) \in DOMAIN analyses
    /\ Push(h)
    /\ \/ Answer(h, 200) /\ UNCHANGED failures
       \/ Fail /\ Answer(h, 500)
    /\ UNCHANGED <<unbuilt, runs, body>>

\* Fault: listRuns catches the exception and leaves the run out.
FaultyBuildNotFound(h) ==
    /\ In(h, "get")
    /\ request[h].kind = "runs"
    /\ Wanted(h) \notin DOMAIN analyses
    /\ Throw(h)
    /\ Pair(h, Tail(found[h]))
    /\ UNCHANGED <<unbuilt, runs, body, failures>>

\* BuildNotFound: there is no such build, or no answer.
BuildNotFound(h) ==
    /\ In(h, "get")
    /\ \/ Wanted(h) \notin DOMAIN analyses /\ UNCHANGED failures
       \/ Wanted(h) \in DOMAIN analyses /\ Fail
    /\ Throw(h)
    /\ Answer(h, 404)
    /\ UNCHANGED <<unbuilt, runs, body>>

-----------------------------------------------------------------------------
MainStep ==
    \/ \E f \in File : Detect(f)
    \/ GetByName \/ SaveBuild \/ Listen \/ MainThrows

Request(h) == GetBuilds(h) \/ ListWorkflows(h) \/ StartRun(h) \/ ListRuns(h)

Serve(h) ==
    GetAnalyses(h) \/ SaveRun(h) \/ ReadRuns(h) \/ BuildNotFound(h) \/ GetBuild(h) \/ PairRun(h)

Next ==
    \/ \E t \in Thread : TakeClient(t)
    \/ MainStep
    \/ Killed
    \/ \E h \in http : Request(h) \/ Serve(h)

Spec == Init /\ [][Next]_vars

\* MongoDB answers or fails; a client that is given back reaches in time each
\* thread that waits for one.
Fairness ==
    /\ \A t \in Thread : SF_vars(TakeClient(t))
    /\ WF_vars(MainStep)
    /\ \A h \in http : WF_vars(Serve(h))

FairSpec == Spec /\ Fairness

-----------------------------------------------------------------------------
(* Properties.                                                             *)

\* No two builds share a name, although detection begins anew with every start
\* of the proxy and an insert may be lost to it half-way.
NamedOnce == IsInjective(analyses)

\* Every response 404 costs the pool a client for good, a response 500 at most
\* one, and no other response any: the losses are those that were reported.  This
\* is of main and the requests modelled here; the threads that serve devices lose
\* a client by every write that is refused, and report it to nobody.
LossIsReported ==
    LET gone == PoolSize - free - Cardinality(holding)
    IN  gone = lost /\ errors[404] <= lost /\ lost <= errors[404] + errors[500]

\* A list of runs that is served has each run once, with a build, in the order
\* of the starts, and unless a cursor failed it has every run of before the
\* request: as soon as one run has an unknown build, no list is served at all.
ListingIsAllOrNothing ==
    [][\A h \in http :
        request[h].kind = "runs" /\ pc'[h] = "idle" /\ <<errors, crashes>>' = <<errors, crashes>> =>
            /\ body'[h] = [i \in DOMAIN body'[h] |-> i]
            /\ \A i \in DOMAIN body'[h] : runs[i] \in DOMAIN analyses
            /\ failures' = 0 => Len(body'[h]) >= before[h]]_vars

\* However often the proxy ends meanwhile, it comes to listen with every build
\* stored.
DetectionEnds ==
    <>[](pc[Main] = "listen" /\ \A f \in File : NameIn[f] \in ToSet(analyses))

\* Every request is answered until the last client is lost; then none is.
RequestsEnd ==
    \A h \in http : pc[h] # "idle" ~> pc[h] = "idle" \/ lost = PoolSize

=============================================================================
