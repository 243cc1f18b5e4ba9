--------------------------- MODULE RunRepository ---------------------------
(***************************************************************************)
(* The "runs" collection of MongoDB, as MongoRunRepository reads and       *)
(* writes it.  A run is its identifier; of the document only the status    *)
(* changes, so only the status is kept.                                    *)
(***************************************************************************)
CONSTANT Run                \* identifiers of runs

VARIABLE runStatus          \* status of each run's document

Status == {"STARTING", "RUNNING", "FAILED", "FINISHED"}

Terminal == {"FAILED", "FINISHED"}

\* "none": the collection has no document of this run.
RunStatusType == runStatus \in [Run -> Status \cup {"none"}]

\* Fault: the documents start in a status the others do not know.
FaultySaveRun(r) == runStatus' = [runStatus EXCEPT ![r] = "CREATED"]

\* MongoRunRepository::save.
SaveRun(r) == runStatus' = [runStatus EXCEPT ![r] = "STARTING"]

\* Fault: the update is filtered by the status it expects to replace.
FaultyUpdateStatus(r, status) ==
    runStatus' = [runStatus EXCEPT ![r] = IF @ = "RUNNING" THEN status ELSE @]

\* MongoRunRepository::updateStatus.  An update that matches no document
\* succeeds and changes nothing; whatever the old status, it is overwritten.
UpdateStatus(r, status) ==
    runStatus' = [runStatus EXCEPT ![r] = IF @ = "none" THEN @ ELSE status]

=============================================================================
