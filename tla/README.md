# Verification of DataInspector's proxy

The proxy stands between O2 workflows and a web client. It starts and stops runs
(workflows executed by bash), accepts a TCP connection from every device of
every run, tells devices to send their data or not, stores what they send in
MongoDB, and serves runs, devices, messages and statistics over HTTP.

This directory holds TLA+ models of that program, TLC configurations that check
them on small instances, and proofs that TLAPS checks for all instances.

## 1. Inventory

| Part | State | Operations | Threads | Modules |
|---|---|---|---|---|
| SocketManagerService, DISocket (`domain/SocketManagerService.cpp`, `domain/include/domain/DISocket.hpp`) | the outstanding accept, one DISocket per connection and the handler it waits for | accept, register, receive, remove | two IO threads on one io_context (`Proxy.cxx:74`) | `SocketManager`, `Receiving` |
| MongoDevicesRepository | `runDevices` under `runDevicesMutex`, the collection `devices` | addDevice, removeDevice, getDevices, intercept, stopInterception, terminate | callers' | `DevicesRepository` |
| RunManager, RunsService | `processes` under `processesMutex`, the processes | start, stop, on_exit handler, listRuns | HTTP threads, one thread for the handlers | `RunManager` |
| MongoRunRepository | the collection `runs` | save, updateStatus, listRuns | callers' | `RunRepository` |
| MongoMessageRepository | the collection `messages`, libbson's id counter | addMessage, getMessage, newerMessages, search | IO threads write, HTTP threads read | `MessageRepository`, `MessageFeed` |
| MessageService, DataEndpoint | none | statistics of a search | HTTP threads | `MessageService` |
| DISocket, registration (`DISocket.hpp`, `DIMessages.h`, `Mappers.h`, `JsonSerialization.h`) | the message being read | frame a stream, parse a registration, write the list of devices | IO threads, HTTP threads | `DISocket`, `Channel`, `DeviceSpecs`, `Receiving` |
| main, docker-compose, executeWorkflow | the composition and its restarts | | | `Proxy` |
| BuildDetector, BuildService, MongoBuildRepository | the collection `analyses` | detect at startup, list, look up | main, HTTP threads | `Builds` |
| ThreadPool | job queue under a mutex, `running` | addJob, loop, stop | its own | `ThreadPool`, `Receiving` |
| MongoOperation | the pool of clients | pop, run, clean up, push | callers' | `ClientPool`, `Builds` |
| ArrowSerialization | none | rows of an Arrow payload | HTTP threads | `ArrowRows` |
| The rest of JsonSerialization, RootSerialization, Base64 | none | conversions of payloads | HTTP threads | none |
| HTTPUtil, GlobalExceptionHandler | none | results and exceptions to responses | HTTP threads | `Builds` (statuses) |

How they interact. A device connects to port 8081 and sends DEVICE_ON with its
run and name. SocketManagerService writes RUNNING to the run's document, puts
the device in the list, inserts it into `devices`, and from then on stores every
message before it reads the next one, until DEVICE_OFF or an error removes the
device from the list. HTTP requests mark devices in the list and send
INSPECT_ON, INSPECT_OFF or TERMINATE on their sockets under the same mutex that
guards the list. A start saves a document with STARTING, spawns bash and files
the child in `processes`; the end of the process runs a handler that removes the
child and writes FINISHED or FAILED. A stop writes FINISHED and sends TERMINATE
to the devices listed at that time. The two services share the documents of the
runs and the list of devices and nothing else: no lock spans both, and all
ordering problems between them come from that.

What is hard:

* the status of a run has four writers (start, registration, exit handler, stop)
  and every write is unconditional;
* the list, the commands on the wire and the devices' own state are three views
  of one selection;
* two threads serve all connections, block on MongoDB, and may find any
  connection broken at any time; names are not unique within a run;
* `addDevice`, registration and `stop` are several effects one of which may fail;
* the exit of a process races with the code that files it;
* ids of messages are drawn before the messages can be read, and clients poll
  by id;
* an operation that throws keeps its MongoDB client, and a pool without clients
  makes every thread wait;
* a stream is cut anywhere and may end anywhere, in a header too;
* a restart forgets everything but the documents, and detects all builds again.

`PROJECT.json` lists these as hazards, each at its line, with the properties
that would catch it going wrong.

## 2. Modules

```
RunRepository <- DevicesRepository <- SocketManager <- Proxy -> RunManager -> RunRepository
                                          ^                         ^
                              SocketManagerProofs          RunManagerProofs
MessageRepository <- MessageFeed
                  <- MessageService
ArrowRows
ClientPool <- Builds
ThreadPool, DISocket, DeviceSpecs <- Receiving
Channel <- DISocket (refinement)
DeviceList <- SocketManager (refinement)
```

Likewise `ArrowRowsProofs`, `BuildsProofs`, `MessageFeedProofs`, `MessageServiceProofs`
and `ReceivingProofs` extend the module they are named after, and `ProxyProofs`
extends `Proxy` together with `SocketManagerProofs`, whose step lemmas it uses.

**RunRepository.** `runStatus` is the status field of each document ("none": no
document). `UpdateStatus` is an update that matches nothing when there is no
document and overwrites any status when there is.

**DevicesRepository.** `runDevices` and `runKeys` are the unordered_map: its
vectors, as sets of entries, and the keys it holds. The keys matter: `terminate`,
`intercept` and `stopInterception` look the run up with `operator[]` and create
the key (`Touch`), `getDevices` takes a key for "the run is live", and
`removeDevice` erases the key of an empty vector. `outbox` is what was sent to a
device and is not read yet. An operation under `runDevicesMutex` is one action.
`addDevice` is two (`AddDevice`, `InsertDevice`): the list under the mutex, the
collection after it. `getDevice` and `stopInterception` by names are left out
because nothing outside the repository's own service calls them.

**SocketManager.** `conn[s]` is the handler the proxy is in, or waits for, on a
connection:

```
none -> backlog -> register -> updateStatus -> addDevice -> insertDevice -> receive
                      |             |  refused write                  ^   |     ^ |
                      |             +---------------------------------+---+     | |
             abandoned, ended                                          addMessage |
                                                         ended <- removeDevice <--+
```

A state in `Busy` occupies a thread from the arrival of a message to the end of
its handler; a handler that waits for MongoDB between two effects is one action
per effect. `FreeThread` keeps at most `IoThreads` of them. `AcceptError` is the
return before `acceptNext()`; `RegistrationError` is the receive without an error
handler; `RegisterRun` and `SaveDevice` have a refused write as a second
disjunct, and go on to `receive` as the code does after its catch clauses.
`ReceiveError` may come with messages still unread: what is buffered is lost. The
devices are the environment: they connect, register, send numbered DATA while
they inspect, obey commands in the order sent, quit, or break off at any time. A
client that never says DEVICE_ON is the `fresh` disjunct of `DeviceData`.

**DeviceList** is what an HTTP thread and a device may rely on, without connections,
handlers, keys, vectors or threads: devices are on the list, gone, or neither yet; a
request selects by name, or terminates, exactly those that are on the list of its
run at that moment, and sends each one command; `answer` is what `getDevices`
returns for each run. It says openly what `operator[]` does to the answer: a request
on a run without devices makes the run `blank`, its record hidden until a device comes
or goes. `ImplementsList` maps it: `listed` and `selected` are read off the vectors, `gone`
off `conn`, `blank` is the set of keys with an empty vector, `commands` the outbox.
`addDevice` is `Enter` and `Record`, with requests between the two; `removeDevice`
is `Leave`, and so is the end of a connection that never registered.

**RunManager.** `startPc`, `stopPc` and `exiting` are the program counters of the
HTTP threads that start and stop and of the handler thread. `process` and `code`
are what the operating system knows. `processes` is the set of keys of the map,
`lockedBy` the holder of `processesMutex`. `RemoveTooEarly` is `remove()` on a
child that is not filed yet: the null child is joined, the program ends.
`RecordExitFails` is an exception that leaves the handler's thread:
`std::terminate`. Both, and `Killed`, are `Crash`: memory and processes are gone
(they share a container), documents stay. `StopUpdate` may fail and leave the
mutex locked, as `stop()` has neither guard nor catch. `DeviceRegisters` is all
that RunManager sees of the devices.

**Proxy** is SocketManager and RunManager over the same `runStatus`, `runDevices`
and `outbox`. A device can connect only while its run's process lives, but what
it sent may be read any time later. `StopTerminates` is the step they share.

**MessageRepository** has the conversions of numbers and the two queries as
operators. An `uint64_t` or `uint32_t` stored with BSON_APPEND_INT32 keeps its low
32 bits, read as signed; `W32` and `W64` scale the widths down. One field stands
for all that are treated alike. `payloadParts` and `taskHash` name fields that
are never written, so a request with one of them finds nothing. A count is
the limit of a query: `find` takes 0 as none, so a search for 0 messages finds all
(`Newest`), while the pipeline of `newerMessages` refuses it and gives none
(`Oldest`). A count of 2^63 or more is a negative limit and left out.

**MessageFeed** stores messages in two steps, the id (`BeginStore`) and the
insertion (`EndStore`), on `IoThreads` threads, and lets clients poll
`newerMessages` with the last id they have. Ids are assumed to grow, which
libbson's do within one process; a page is read in one step, which MongoDB does
for a result of one batch.

**MessageService** is the arithmetic of `/stats` over stored messages, in the
order the two loops visit them.

**ArrowRows** is the conversion of a message's Arrow payload to rows: a recursive
visit of primitive, list and struct arrays, per slice of at most `BatchSize` (64
in the code) rows, no slice crossing two record batches. The schema is a forest of
fields: `Kind` and `Parent` say what each is and in what it is nested, and the visit
is a recursive function on the fields, which gives for each of them the members that
it adds to rows. An entry of an array is a value with a bit that says whether it is
valid (`Entry`), as in Arrow: a null struct has members, and a null list may have
items. `Arrays` and `Slice` are what Arrow does: one array holds the items of all
lists, null ones included (`Items`), and a slice keeps all of them. `FirstItem` is
`values_i`, which a null list does not advance. `Undefined` is what the code reads
through the end iterator when an item of a list is null. Offsets of lists begin at
0, as Arrow writes them to a stream. Types without a `Visit`, a stream without
batches and a stream that breaks off are left out.

**ClientPool** counts the clients of the pool: `free` to hand out, `holding` the
threads with one, `lost` those of operations that threw (`MongoOperation.h` has no
guard for the client). It is a module of its own because every repository takes
its clients there; `Builds` is the part whose failures are part of normal use,
since looking up a build that does not exist throws.

**Builds** is the startup (`Detect`, `GetByName`, `SaveBuild`, `Listen`) and the
requests that look builds up, each operation on MongoDB being two actions: a
client is taken (`TakeClient`), and the operation ends. `analyses` holds the
names of the builds in the order of insertion, `runs` the build of each run. A
build's id is its place, so an id beyond the end is one that does not exist. A
failure in `main` ends the proxy and docker restarts it (`MainThrows`, `Killed`);
on an HTTP thread it becomes a status (`Answer`). A cursor that fails is not
noticed (`ReadRuns`, `GetAnalyses`): the loop over it ends as if it were done.
`listRuns` looks the runs' builds up one by one, and `BuildNotFound` for any of
them is the answer to the whole request.

**ThreadPool** separates what `addJob` does under the mutex from the notification
after it (`owed`), and lets a sleeping worker wake for no reason. A worker is
`ready` when it is about to take the mutex, at the beginning of `loop` or after a
wake-up, which is when the wait's predicate is evaluated.

**DISocket** is `asyncReceive` on a stream of cells. A header has `HeaderSize`
cells, a body as many as the header tells; the device writes and `async_read`
takes one cell at a time, so a read may end between any two. `got` is the buffer,
`delivered` what the callback was given. `Stream[s][n]` are the cells of the first
`n` messages of the script of `s`. `ReadError` is the end of the stream in
an unfinished read. `ImplementsChannel` maps it to **Channel**, the promise to
its owner: whole messages, in order, each once, then at most one error.

**DeviceSpecs** follows the description of a device: from the JSON of its
registration (`InputFromJson`, ..., with members that may be missing), to the
list (`ToDomain`), to its document (`ToDocument`, which has the numbers as text
and no channels), back (`FromDocument`), and to the response (`ToJson`). `Input`,
`Output` and `Forward` name the members the parser reads, with and without a look
whether they are there.

**Receiving** composes the three: the pool's threads run the io_context, which
needs one of them for every handler (`ThreadFree`), reads from the sockets, and
calls the handlers that register and unlist devices. `step` is how far the first
handler of a connection has come: `Register` writes the run's status, `AddDevice`
puts the device in the list and its run in `keys`, `InsertDevice` adds it to
`documents`, and the receive that follows is reached after a refused write too
(`Refuse`, the catch clauses): a refused status leaves the device out of list and
documents, a refused insert out of the documents. `Leave` is `removeDevice`, in which
the key goes with the run's last entry, and `Request` is what `terminate`,
`intercept` and `stopInterception` do to the keys of any run at any time.
`SocketManager` has the same handlers with their effects on runs, messages and
commands, and takes messages as atomic; here it is shown that it may, and that the
list says what devices said.

Definitions whose name begins with `Faulty` are variants of the operator that
follows them, with the fault the comment names. They take no part in a
specification; substituted for the original, each is found by the property that
`PROJECT.json` lists it with, which shows that the property depends on that code.

## 3. What is checked

| Run | Instance | States | What it shows |
|---|---|---|---|
| `connections` | 2 devices, one run, one name, 2 threads, 1 refused write, accept may fail | 2 970 000 | the list is true to the connections (`ListedIsServed`, `ServedIsListed`), a listed run has started, the history comes back |
| `selection` | 2 names, 1 thread, 2 messages each, 1 refused write | 1 700 000 | `SelectionAgreement`, `StoredInOrder`, `NothingLost`; list, keys, collection and commands are one abstract list (`ImplementsList`) |
| `accept_error` | as above | | **violated**: after a failed accept nothing is accepted |
| `runs` | 2 runs, 2 stops, 1 failure, 1 restart, fairness | 402 000 | children, mutex and statuses are consistent; exits are recorded, requests answered |
| `proxy` | 1 run, 2 devices, 1 stop, 1 failure, 1 restart | 1 380 000 | `ImplementsRunManager`, `ListedHasProcess` |
| `proxy_stop` | 1 run, 2 devices, 1 stop, 1 thread, accept may fail, fairness, no selections | 75 000 | a stop ends the run; devices that are gone leave the list, registrations end |
| `builds` | 3 files of 2 names, 2 HTTP threads, 2 clients, 2 runs, 1 failure, 1 restart, fairness | 234 000 | no build twice or forgotten, every loss of a client was answered with an error, a listing of runs is whole or refused, requests end until the clients are gone |
| `receiving` | 2 devices of one run, 2 workers, headers of 2 cells, bodies of 2 and 0, refused writes, requests, fairness | 779 000 | no wake-up is lost, the stream is a channel of messages, the list shows what devices said |
| `feed` | 3 connections, 2 names, 2 threads, 3 clients, 3 messages, pages of two, fairness | 2 600 | what a client skips was overtaken, few are, everyone gets past everything |
| `stats` | 16 messages, up to 3 stored, 74 requests, counts 0 to 2 or none | 4 400 | searches and statistics, within and beyond 31 bits |
| `rows` | tables of 4 rows in 3 batches, slices of 2 rows, nulls, lists of lists, structs, null lists with items | 15 000 | rows are exact in the first slice of a batch, up to a null list with items, and have the right shape in all |
| `rows_sliced` | the same, no null list with items | | **violated**: lists are wrong in later slices |

Why the bounds are enough. Interference between connections is pairwise: they
meet in the list of one run, in the threads and in the run's document, so two
connections, with one thread and with two, show it; two devices of one name are
the hard case for the list, two names the interesting one for selection by name.
Two messages per device suffice to reorder, repeat or drop one. For the feed a
third connection lets one name have two connections while another is overtaken.
In RunManager two runs compete for the handler thread and the mutex, and two
stops for one run or for two. `MaxFailures` and `MaxCrashes` bound faults, not
their place: each may strike at any operation. `InboxBound` and `OutboxBound`
bound what is under way; requests and devices wait for room, which in the code
is the socket's buffer. In `proxy_stop` selections are left out, as they only
add commands to the outboxes, and restarts, after which all connections are
ended at once.

Four rows make two slices of a batch, or three batches of
any sizes; two levels of lists and one of structs reach every case of the
visitor's recursion, and there are null numbers, structs, lists and items. Null
lists that have items are a column, an item of a list and a member of a struct.

In Builds, two files of one name and one of another show a build that is present
and files left after it; two HTTP threads and main compete for two clients, and
two lookups of a missing build empty the pool. One failure and one restart may
come anywhere, in the middle of an insert too. In Receiving two workers are what
the program has; a header of two cells can be cut and left unfinished, a body be
read in pieces or be missing, and a third message shows a read that began in the
wrong place. Both devices are of one run, so one registers while the other is on its
way, connected or gone, and the run's key is made and erased by either; each of the
four writes may be refused, and a request may come in any state. For the model a
connection begins when it is accepted: what it sends before waits in the kernel and
arrives after. One registration has an input, an output and a forward for each case
of the optional members, the other has no channels. A first message that is no
registration is left to the runs of SocketManager.

Deadlock is checked in SocketManager, MessageFeed and Receiving, where requests and
polls never cease. RunManager and Proxy may stop: all runs over, all stops answered, or
all waiting for a mutex that was lost, which `RequestsAreAnswered` is about.
MessageService and ArrowRows stop at
their bounds, Builds when all clients are lost.

**Fairness.** Handlers in progress go on (weak fairness): the code has no waits
in them but for MongoDB, which answers or fails. A ready handler is run though
others are ready too (strong fairness on `Dispatch`): asio serves completed
operations in the order of a queue, while `FreeThread` may be false now and then.
The devices' part is that commands are read and that a device told to terminate
quits, which is what O2's device does; a device need not do anything else. A
thread waiting for the mutex gets it when it stays free: there are finitely many
competitors. In `Proxy` a workflow's process ends when its devices have, and
devices end with their container. Nothing is assumed of requests, registrations
or exits of processes. In Builds MongoDB answers or fails, and a client that is
given back reaches in time each thread that waits (strong fairness on
`TakeClient`: the pool wakes its waiters through a condition variable, and there
are finitely many). In Receiving main goes on starting jobs, a
worker that is awake takes the mutex, some handler at work goes on, and some read
that is ready gets a thread again and again; nothing is assumed of accepts, of what
devices send, of requests, or of spurious wake-ups. What devices send is finite, so
no reader or handler need be named.

**Findings.** `accept_error` checks `AcceptGoesOn`, what the comment at
`SocketManagerService.cpp:246` takes for granted: that a failed accept concerns
"this device". The handler returns before `acceptNext()`, so one failure, of
which a lack of descriptors is the likely one, ends the service for all devices.

`rows_sliced` checks `RowsAreSet`, the comment on RowBatchBuilder
(`ArrowSerialization.cpp:49`) taken for a whole table. `values_i` counts the
items of a list column from 0 in every slice, though a slice holds the items of
the whole column, so from row 65 of a batch on the lists are those of the first
rows. `FirstSliceIsExact` says which rows are right nevertheless.

**What properties had to concede**, each a behaviour of the code a reader should
know. `ServedIsListed` holds only while no write was refused: after a refused
one the proxy reads a device on that nobody can see or select.
`TerminalIsLeftByRegistration`: a registration read late takes a finished run
back to RUNNING, for ever. `StatusIsExplained`: FINISHED may mean that somebody
asked for a stop, and a stopped run may end as FAILED. `StartingIsAccounted`: a
run whose build is missing shows STARTING for ever. `ExitIsRecorded` and
`RequestsAreAnswered` have to except a lost mutex. `StopEndsRun` needs every
device to be listed, or gone, when the stop is served. `SkippedWasOvertaken`: a client
that follows connections handled by different threads may skip a message for good;
one that follows a single connection does not. `RequestsEnd`: only until the last
client is lost, and every 404 for a build loses one (`LossIsReported`), so a pool
is emptied by as many such requests as it has clients; from then on nothing that
needs MongoDB is ever answered. `ListingIsAllOrNothing`: a single run with an
unknown build makes every listing of runs fail, and a cursor that fails cuts it
short with status 200. `LossIsReported` is of main and HTTP threads only: an IO
thread loses a client by every refused write and tells nobody
(`SocketManagerService.cpp:93` and 267-273). `ListingShowsRegistration`: while one
device of a run is connected the list shows connected devices with their channels,
when none is, those that registered with both writes, without; a request for a run
without devices hides the history until the next device comes and goes; a device
whose status was refused is connected and never shown, one whose insert was refused
is shown until it leaves. `ImplementsRunManager` allows a registration to write
RUNNING late, as RunManager does. `ArrivedIsDelivered`: not after a first message
that is no registration. `SearchIsExact` needs all numbers below
2^31, and has count 0 mean no limit. `FirstSliceIsExact` ends at the first null list
that has items: the code does not pass over these (`ArrowSerialization.cpp:144`), so
from there on its lists, and those nested in them, show wrong items.
`ExtremesAreFound` can promise of the smallest duration only that it is the duration
of some message.

## 4. What is proved

Assumptions are the named ASSUMEs on constants only: devices belong to runs and
have names, so have the files of builds, sockets, connections and workers are
finitely many where they are counted, bounds are natural numbers, numbers fit the
fields they come from and counts are below 2^63, an Arrow schema is a tree whose
lists have one field and whose values, those of null entries too, have the shape of
the schema. A registration has the members the parser reads without
looking (it has no defined behaviour otherwise) and none that it does not know
(O2's devices send none). There is none on how many runs, devices, requests,
threads, clients or failures there are.

**RunManagerProofs.** `IInv` (theorem `Invariant`) adds to the properties where a
start, its process and the handler can be together: a process exists only from
the spawn on, an exit code only once it ended, a child is in the map from the
insertion to its removal, a document exists for every start that went on, and a
status that is final was caused. The properties are not inductive alone:
`StatusIsExplained` needs to know that a process at the handler has an exit code
and that a request past its update keeps the run it was for;
`ProcessesAreTracked` needs that a process that started is only ever removed by
the handler. From `IInv` follow `ChildrenTracked`, `MutexHeld`,
`StatusExplained`, `StartingAccounted`, `ExitHandlerAlone` and, as an action
property, `TerminalLeft`.

**SocketManagerProofs.** `TypeCorrect`; `Served` (`ListedIsServed`, inductive
once types are known: its list of states in which a connection may have an entry
says that one at `addDevice` has none yet), from which `Leaves` (`LeavesByItself`, which no
run checks by itself, as `ImplementsList` covers it) and `History` follow per step; `Started` (`ListedRunHasStarted`), with `StartedBefore`: the run of a connection at
`addDevice` is past STARTING; `Agreement` (`SelectionAgreement`), strengthened by `QuietBefore`: a connection that is not
listed yet has an empty outbox and a device that does not inspect, so that the
entry made by `AddDevice` agrees from the start, and every later command changes
flag and outbox together; `StoredOrder` (`StoredInOrder`), strengthened by the order of what is stored, in
the handler, in the inbox and still to be sent; and `ReadIsListed`
(`ServedIsListed`), strengthened by `Recorded`: a connection is listed from
`addDevice` on, until its own `removeDevice`, and recorded from the insertion on.
`NoMessageLost` (`NothingLost`) needs to hold from the first message on: `Intact` says
it of every state before the proxy stops to read, with what the handler holds told
by where it is. That the numbers under way are those after the stored ones, up to
the last one sent, then follows for a read from the order of the inbox: the number
at its head is the least under way (`UnderWayRead`).

`ServiceIsList` (`ImplementsList`) is a refinement, one lemma per action of
`DeviceList`. Its invariant `ListInv` is the types, `ListedIsServed` and
`InsertedIsListed`: between the two parts of its `addDevice` a device is on the list,
so that `Record` records nobody else. `ListedIsServed` is what turns entries per
run into a set of devices (`Placed`): a device can only be in the vector of its own
run, once, so its flag is that of the one entry, and the removal of that entry
takes the device off the list (`LeaveStep`). All requests but `terminate` turn out to
be one, a selection by a set of names (`RequestNames`): all of them, those given, or
none. That `getDevices` answers what the list shows (`ListShows`) follows from the
invariant alone, before a step and after it.

**ProxyProofs.** `ListedProcess` (`ListedHasProcess`) follows an entry of the list
back to its process. `ProxyInv` is that chain: an entry was made by a connection
at `addDevice`, which wrote RUNNING before (`Begun`); a connection at work belongs
to a process that this incarnation started (`Spawned`), since devices connect only
while it lives and a crash ends all connections; a process has a start behind it,
and the start a document. It is also what `RunsImplemented`
(`ImplementsRunManager`) needs: the step in which a connection writes RUNNING is
RunManager's `DeviceRegisters`, whose guard is that the process was spawned;
every other step of a connection, and every selection, stutters; the steps of
runs are RunManager's own, and the shared stop is its `StopTerminate`.

`SocketManager` itself has no restarts, so its theorems say nothing of what one
leaves behind. `DevicesThroughRestarts` and `HistoryThroughRestarts` state them
again for `ProxySpec`: `ListedIsServed`, `ServedIsListed`, `SelectionAgreement`,
`StoredInOrder`, `NothingLost` and `HistoryReturns`. The argument is
compositional. To the devices, a step of the proxy is a step of SocketManager, or
leaves all of their variables alone, or is a crash (`DeviceSteps`, which needs
`StopInv`: the stop that tells the devices is for a run). The first are the step
lemmas of `SocketManagerProofs`, cited as they stand; the second can disturb the
type of `runStatus` only (`RunsApart`, with the type from `ProxyInv`); the third
ends every connection and empties list and outboxes, while the documents stay
(`CrashEnds`). `DevicesInv`, the conjunction of SocketManager's inductive
invariants, is therefore inductive in the whole. What a crash loses is not
hidden: `NothingLost` is about connections that are still read, and messages
under way when the proxy ends are gone. `ListedRunHasStarted` needs no
theorem of its own here, since `ListedHasProcess` implies it.

**BuildsProofs.** `NamesAreUnique` (`NamedOnce`) with `NamesInv`: main is at `save`
only if the name it has was not stored when it looked, and nobody but main writes
builds, so a crash in between leaves nothing that a second detection could double.
`LossesAreReported` (`LossIsReported`) with `ClientsInv`: free clients, those in
use and lost ones add up to the pool, and the losses are counted by the errors.
`ListsAreWhole` (`ListingIsAllOrNothing`) with `ListInv`: the runs a request has
paired are 1 to k with builds that are stored, those it has still to pair the rest
of 1 to n, and n is at least the number of runs there were when it began unless a
cursor failed. Runs and builds are only ever added, so this outlasts whatever others
do between two lookups.

**ReceivingProofs.** `SocketIsChannel` (`ImplementsChannel`) is the refinement step by
step. `SocketInv` (`StreamInvariant`) says of each connection, by `Line`, that the
messages delivered are the first of the script, and that what is being read, what
is on the wire and what is outgoing are consecutive pieces of the stream; so the
buffer begins at the beginning of a message, its header tells the length of that
message, and a full buffer is that message (`Completed`). Writing the first cell of
a message is the channel's `Send`, completing one is `Deliver`, which was sent
because its last cell was (`DeliveryWasAnnounced`), the end of the stream is `End`, a
read that fails is `Fail`, and every other step stutters. Where messages begin in
the stream is proved by induction over the script, in the form "a set of numbers
with 0 and with the successor of each has them all" (`Induction`), which the least
element of the complement proves: the library's theorems take an operator.

`NoWakeupIsLost` (`NoLostWakeup`): while a worker sleeps, the
queue is no longer than the notifications due and the workers that are ready.
This is inductive once the number of ready workers is known to change by one with
each worker; a worker falls asleep only when it finds the queue empty, and a
notification either wakes one that sleeps or there is none.
`ListingIsRegistration` (`ListingShowsRegistration`) has two halves. By
`RegistrationInv`, on top of `SocketInv`, a connection is registered with the first
message it delivered, which is the first its device sent, or not at all (`Entry`);
it is listed by exactly the steps its handlers took and the writes that were not
refused, and so is its document there (`Trace`); and a run with a listed device has a
key (`KeysHold`), so that the history is only shown, and an empty list only hides it,
when nobody is connected. And by
`LiveShows` and `PastShows` the conversions keep what `Shows` compares, for any
arrays of inputs, outputs and forwards.

**MessageFeedProofs.** `FeedInv` adds to both properties that an id under way is
like no other, and above all that its own connection stored (`FreshInv`), and that
a cursor is the id of a message the client was given (`CursorInv`), which is the
one that overtook whatever the cursor passes. A page leaves no gap of its own:
with a message it has all older ones that the client may see (`PageIsClosed`).
`Overtaken` counts the connections at work on less than an id, which a new id
cannot enlarge.

**MessageServiceProofs.** `SearchFindsWhatIsMeant` (`SearchIsExact`), for any widths
with 32 bits a part of 64: a number below 2^31 keeps its value in a signed field
(`NumbersKept`), so a document matches when its message is meant and gives the
message back (`DocumentKept`), and the documents with larger oids are as many as
messages meant that came later (`NewerCounted`), by which the limit is cut.
`HistogramIsWhole` (`HistogramAddsUp`) and `ExtremesAreMet` (`ExtremesAreFound`) are
about loops, for which no induction theorem of the library can be instantiated:
`Rounds` gets induction over the rounds of a loop from the well-foundedness of the
numbers, by a set of rounds instead of a predicate, `Recursion` builds the values of
a loop with it, and the `...Rounds` lemmas say of each recursive function of the
model what its rounds are. The sums of a histogram are compared by the indices that
they add up (`Part`): the times are distinct, so a bucket adds the messages of its
time that none before it added, and the last one has added all (`UptoGrows`);
remainders may be taken early (`RemainderOfSum`). The loops visit the messages found
and no others (`VisitedContents`), which gives the extremes.

**ArrowRowsProofs.** `FirstSlicesAreExact` (`FirstSliceIsExact`) and `ShapeIsKept`
(`RowsKeepShape`) hold of every table (`TableRowsGood`), so their invariant is the
table's type; the work is in the recursion. A field is deeper than its parent
(`NestingAssumption`), which gives induction from the columns down (`Downwards`) and
from the innermost fields up (`Upwards`), and by which the recursive functions are
built level by level (`ArraysRecursion` and its like), as `CHOOSE` alone does not say
that there is one. Downwards, each array holds entries of its field (`ArraysType`),
and a member of a row, or of a struct in it, is there when its entry is not null
(`SliceShows`), in any slice, since structs are sliced with their members
(`SliceStructs`). Upwards, what is added to a row is what the entry means
(`FirstSliceMeans`), in the first slice only and up to the first null list with
items: an entry up to which all are `Tight` has before it only null lists that
hold nothing, there and for lists in lists anywhere below it, so the loop over the
lists has read as many items as lie before the next one (`PassesAll`, `ItemPlace`,
`FirstSliceItems`). `FlattenOffsets` says where each sequence lies when
sequences are put in a row; it serves the items of lists, the slices of a batch and
the batches of a table alike.

**Model-checked only**: everything about fairness (`ExitIsRecorded`,
`RequestsAreAnswered`, `FeedReaches`, `DetectionEnds`, `RequestsEnd`,
`ArrivedIsDelivered` and all of `proxy_stop`), since liveness is out of the prover's
reach. Every safety property of a passing run is proved, for all values of the
constants.

## 5. What is not modelled

Parsing of requests and of DATA payloads; logging; routes, headers and the
layout of responses other than the list of devices; the wiring in `main`. The
contents of a page of builds and the arithmetic of its bounds. `listDatasets`,
which reads a directory. `ThreadPool::stop`, the synchronous `send` and `receive`
of DISocket, and `RunRepository::get`, which nothing calls. The two steps of
`getDevices`, which reads the history after it leaves the mutex: a listing is one
step here. Devices and MongoDB are environment. Two
operations on one socket from two threads, which asio does not define, are taken
as queued, as they are on Linux. Descriptors are not counted: accept may fail at
any time instead. A name and a message are atomic values.

## 6. Further work

The two steps of `getDevices` would show a listing that misses a device which
registers between them. Refinement of `DeviceList` is stated for one incarnation of
the proxy; a restart begins a new list over the old record.
