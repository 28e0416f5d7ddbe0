# EMS: a verification project

EMS is an event reservation system in C. The repository holds it twice:

* `projeto1`: a program that reads files of commands. One process per file, several
  threads per process, one event list per process.
* `projeto2`: a server, and clients that send it the commands of one file each. They talk
  through named pipes; the server has one host thread and eight session threads.

This directory holds TLA+ models of both, the TLC runs that check them on small instances,
and proofs, checked by `tlapm`, of what holds for every size.

## The system

### projeto2: server and clients

| Component | Source | State | Operations |
|---|---|---|---|
| Event list and operations | `server/operations.c`, `server/eventlist.c` | the list of events; per event its size, the number of reservations and a number per seat; a read-write lock for the list, a mutex per event | `ems_create`, `ems_reserve`, `ems_show`, `ems_list_events`, `ems_show_all` |
| Host thread | `server/hostFn.c` | the server's pipe, the flag of SIGUSR1 | reads a connection request, enqueues two paths, signals; calls `ems_show_all` when the flag is set |
| Connection queue | `server/pathQueue.c` | a linked list of pipe paths, a mutex, one condition variable | `enqueue_path`, `dequeue_path` |
| Session threads | `server/sessionFn.c` | two pipe paths, two descriptors, `active`, the last `OP_CODE` | take two paths, open both pipes, send the session identifier, serve requests until `quit` |
| Client | `client/api.c`, `client/main.c` | two pipes, two descriptors | `ems_setup`, one request and its answer at a time, `ems_quit` |
| Parser, text I/O | `client/parser.c`, `common/io.c` | a position in a file | read a command; print |
| Start-up | `server/main.c` | - | starts the threads; the signal handler |

A client makes two FIFOs and writes their paths to the server's pipe. The host splits the
request and enqueues the paths one by one. A session thread takes two paths, opens the
pipes and serves the client. All session threads and the host work on one event list.

### projeto1: processes and threads

| Component | Source | State | Operations |
|---|---|---|---|
| Event list and operations | `operations.c`, `eventlist.c` | the list and its read-write lock, an event with a read-write lock of its own, an output file with a mutex | `ems_create`, `ems_reserve` with its roll back, `ems_show`, `ems_list_events` |
| Threads of one file | `threadFn.c`, `processFile.c` | per thread a line counter, a descriptor and `barried`; the lists of BARRIERs and WAITs; `thread_results` | each thread reads every line and runs its own; BARRIER ends all threads, `process_file` joins them and starts them again |
| Process pool | `main.c` | `process_counter` | one child per `.jobs` file of a directory, at most `MAX_PROC`; waits and reports |
| Command parser | `parser.c` | a position in a file | `get_next`, `parse_...` |

The parent forks a child for each file. The child parses the file, then runs threads that
read it again, and all threads of a child share one event list and one output file.

### What is hard

* Session threads use an event after they have dropped the list lock; a reservation checks
  its seats in one loop and takes them in another (projeto2), or takes them while it checks
  and gives them back (projeto1).
* The two paths of a client enter and leave the queue in separate critical sections, with
  one signal per client for threads that may have to wait twice.
* Both sides open two FIFOs, and each open waits for the other side.
* A client may be killed at any time; the server does not tell end of file from a request.
* `ems_show_all` has six error returns that keep the list lock, and one that unlocks a
  mutex twice. `ems_create` of projeto1 has one return that keeps the list lock.
* A BARRIER is no barrier of the thread library: threads end at it and are started again.
* Children end in any order, may be killed, may never be forked, and inherit a buffer.
* A parse error skips to the end of the line, unless that has been read: then the next line.

What makes each component correct: the event list sells a seat once, has each identifier
once, and answers with states that really were; locks are given back; every request is
answered. The queue loses nothing, pairs the two paths of one client, serves in order, and
leaves nobody asleep beside work. A session answers each request with its own answer, and
one client's end leaves the others alone. Every line of a jobs file runs once, after the
barriers above it. The pool keeps its limit, ends, and reports every child. `PROJECT.json`
lists the hazards at their lines, and for each the properties that watch it.

## Modules

| Module | What it is |
|---|---|
| `EventData` | events, seats, requests and answers as values, and the pure computations on them |
| `EventStore` | abstract: create, reserve, show and list each happen in one step |
| `ServerOps` | the server's `operations.c` step by step, with the list lock and the event mutexes; implements `EventStore` |
| `PathQueue` | the host and the queue: `hostFn.c`, `pathQueue.c`, and the part of `sessionFn.c` that takes paths |
| `NamedPipes` | external: FIFOs as fifo(7) and pipe(7) describe them |
| `Sessions` | extends `PathQueue`: `sessionFn.c` and `api.c` on `NamedPipes` |
| `SessionService` | abstract: clients are served in the order they asked, one thread each |
| `LocalOps` | projeto1's `operations.c` step by step; implements `EventStore` too |
| `JobThreads` | extends `LocalOps`: the threads of one jobs file, `threadFn.c` and `processFile.c` |
| `JobOrder` | abstract: each operation of a file once, in the order BARRIER and the number of threads allow |
| `JobPool` | extends `JobThreads`: the parent and its children, `main.c`, one of which runs `JobThreads` |
| `Parser` | both parsers as functions from a text and a position to a command and a position |
| `JobTexts` | joins `JobPool` and `Parser`: the lines of a jobs file are what the parser makes of a text |
| `MCServerOps`, `MCSessions`, `MCJobs` | small instances; that of `JobTexts` is `MCJobs` |
| `EventDataProofs` | theorems about events, seats and the search |
| `ServerOpsProofs` | theorems of `ServerOps`: the list lock, identifiers and deadlock freedom whatever fails, seats and mutexes while stdout works |
| `ServerOpsStoreProofs` | theorems of `ServerOps` while stdout works: copies, reports and the refinement of `EventStore` |
| `SessionsProofs` | theorems of `Sessions`: paths, pairing, wakeups, answers, and the refinement of `SessionService` |
| `LocalOpsProofs`, `JobThreadsProofs`, `JobPoolProofs` | theorems of projeto1, from its operations up to its processes |
| `ParserProofs` | theorems of `Parser` and `JobTexts`: what both programs make of any text |

### EventStore

Two programs implement it, with two differences that are constants of the module.
`TwiceRefused`: projeto1 takes seats while it checks them, so a RESERVE that names a seat
twice finds it taken and fails; projeto2 checks first and accepts. `SearchRaces`: in
projeto1 a create may succeed although the event exists, since it searches before it gets
the write lock. `res[t]` is `NoAnswer` until the request has taken effect.

### ServerOps and operations.c

A step of `ServerOps` goes from one access of shared state to the next: taking a lock, the
search (`get_event_with_delay`), dropping the lock, the checks, the new reservation number,
EACH seat that is written, the copy of SHOW. `pc[t]` says where thread `t` is. Code that
runs under a lock which excludes all other access is one step where nobody could tell; the
assignment of seats is not merged, because the property at stake is that nobody sees it
half done. A pointer to an event is the position of its list node, which never changes
since nodes are only appended.

`writer` and `readers` are the read-write lock. Readers do not wait for waiting writers,
which is the default of glibc. `mutex[n]` belongs to node `n`. `DropMutex` does not look at
the owner, as `pthread_mutex_unlock` on a default mutex does not; that is how the double
unlock shows.

`ListCount` and `ListIds` are the two walks of `ems_list_events`. `AllPrint` prints one
event: the identifier of the node the walk is at, and the seats of the event that
`get_event_with_delay` has found for it. When `StdoutMayFail`, `AllPrintFails` and
`AllNewlineFails` are the error returns of `ems_show_all`; the "Event not found" return is a
branch of `AllLookup`. The error returns for missing memory in `ems_create` are
`CreateNoMemory`: all of them leave the list as it was. The error returns of lock and unlock
calls are not modelled: the locks are initialised and no thread takes one twice.

### Sessions, sessionFn.c and api.c

`TakePaths` is the code between lock and unlock in `session_fn`: the thread takes what is
there, up to two paths, and goes to sleep if that was not enough. The critical sections of
the queue are one step each; the host's two calls of `enqueue_path` and its signal are
three. `Setup` is `mkfifo` twice and the request, `SetupWithoutPipes` the path on which the
second `mkfifo` fails and the code goes on. An open of a FIFO is two steps: to arrive, and
to return once the other side has arrived. `Repeat...` are the steps at end of file, where
`read()` returns 0 and the old `OP_CODE` is executed again; before the first request that
is an uninitialised variable, so any operation may be chosen. A write to a pipe without
readers ends the process (SIGPIPE): `WriteBroken` for the server, `ClientBroken` for the
client; `exit()` in a session thread after a failed open is `OpenFails`.

Requests are numbered, and an answer carries the number of its request: what is asked is the
matter of `ServerOps`. That splits the system in two models. The link between them is that a
worker's `answer` place is one operation of `ServerOps`, which `CallsReturnUnlessLeft` shows
to end.

### LocalOps and projeto1's operations.c

Again one step per access of shared state. `ems_create` has six: read lock, search, read
unlock, write lock, append, unlock; the branch of `CreateLookup` to `return` with the read
lock held is line 96. `ReserveSeat` is one round of the loop that checks and takes a seat,
`ReserveRollback` the branch that gives the seats back. `out` is the output file as the
sequence of items that were printed: `ShowSeat` and `ListId` append one seat, one
identifier. The answer of SHOW and LIST is read off the end of the output when the operation
lets go of its lock, so that a block of output that another thread has written into is no
answer of `EventStore`. That is how "the blocks do not mix" becomes part of the refinement.

### JobThreads, threadFn.c and processFile.c

`line[t]` is `line_counter`; `NextLine` is the head of the loop (BARRIER test, reset of
`barried`, the next command); `RunLine`, `SkipLine` and `EndOfFile` are what the command
may be. `life[t] = "stopped"` is the return value 1 and `"ended"` the value 0. `main` and
`k` are the loops of `process_file`: create all, then join all and start those with result
1 again, until no result is 1. `ran[l]` counts how often the operation of a line is begun
and is read by properties only. A WAIT takes time and nothing else.

### JobPool and main.c

Processes share no memory, so one child, `observed` (any of them), runs `JobThreads`, and
of the others only the life is modelled. Any child may be killed by a signal at any time,
and a child that is not observed may hang, as the observed one can. `buffer` is what
`printf` has not written yet: `fork` copies it (`inherited`) and `exit()` writes the copy.

### Parser

A text is a string, and a character of it is what `read(fd, &ch, 1)` returns; after the
last one it is `Nul`, the `'\0'` left in `ch`, which no text has inside. Nor has a text a
run of digits that `buf` of `read_uint` and `parse_uint` is too short for (`IsText`,
`NumberBuffer`): neither function has a bound, and both write behind the array. Every
function returns the position behind what it has consumed, because that is where the two
parsers are delicate: `Cleanup` stops behind the next newline, which is the wrong one if
the newline was read already. The digits that `parse_uint` leaves without `'\0'` at the end
of the file make `AnyNumber`, any natural number.

`Number` is one call of `parse_uint` and the test of the character behind it; it leaves a
mistake that was made before as it is, so that a parse function is a chain of them, and
`Parsed` its last `if`. `Coordinate` is one round of the loop of `parse_reserve`, `Stop` an
error in it, `NoSeats` what there is before the first. `Sorted` is `qsort` of the
coordinates in projeto1. `OneMore` is one round of the loops around `get_next` in
`initialize_lists`, `thread_fn` and the client's `main`. Loops are functions over the number
of rounds: as many as the arrays hold for `ReadCoordinates`, as many as there are
characters for `ReadAll`. `JobTexts` says what links the parser to the rest: `Files` are
records of a text and of the lines that `Commands` makes of it.

## Runs

| Run | Instance | Shows |
|---|---|---|
| `ops_safe` | 3 sessions, 4 requests, 1 report; memory may run out | `TypeOK`, `UniqueIds`, `SnapshotIsHistory`, `ReservationsAccounted`, `LocksReleased`, `ShowAllComplete`, `SeatsPermanent`, the invariant `StoreInv` that the proofs use; `ServerOps` implements `EventStore` (`AbstractSpec`) |
| `ops_faults` | 2 sessions, 3 requests, 1 report, fair; memory and stdout may fail | the inductive invariant `IInv`; threads do not wait for each other in a circle (`StuckOnlyIfLeft`); every request but a create is answered (`ReadersReturn`), and a create unless a failed report left the list locked (`CallsReturnUnlessLeft`) |
| `sess_one` | 1 thread, 3 clients that may be killed or fail to make pipes | `AnswersMatch`, `DiesOnlyOfClient`, `NoLostWakeup`; a worker begins only what its client asked for, while that client lives (`OperationsAreAsked`); `Sessions` implements `SessionService` (`ServiceSpec`) |
| `sess_spaced` | 2 threads, 3 clients one at a time, fair | the invariant `AllInv` that the proofs use, with `ClientsPipes` and `NoLostWakeup`; `AllServed` |
| `sess_busy` | 2 threads, 3 clients together, pipes may be missing | `PathsConserved` |
| `jobs` | projeto1 as a whole: 2 threads, a directory of 2 jobs files and another file, `MAX_PROC` 1, 45 texts; memory may run out; fair | the invariants `OpsInv`, `ThreadsInv` that the proofs use; no circle of waiting threads (`StuckOnlyIfLeaked`), `LocksHeld`, `NumbersAccounted`, `EveryLineRan`, `PoolBound`, `EndsReported`, `ReadAsWritten`, `ParsersAgree`; refinement of `EventStore` (`StoreSpec`) and `JobOrder` (`OrderSpec`); the parent ends (`PoolEnds`) |

Six runs end with a counterexample, each a disagreement between the code and its own words:

| Run | Counterexample |
|---|---|
| `ops_leak` | a write to stdout fails in `ems_show_all`; the list lock stays taken and a create never returns |
| `ops_double_unlock` | the write of the empty line fails; the second unlock lets two reservations into one event, and a seat changes its owner |
| `sess_pair` | two clients at the same time, two session threads: each thread takes a path of each client |
| `sess_crash` | a client is killed after a request was answered; the worker, at end of file, begins the same request again (`RequestsOnce`) |
| `jobs_race` | two threads of projeto1 create one event at the same time, and both succeed |
| `jobs_hang` | projeto1: a create of an event that exists keeps the read lock, and the next create never returns |

`ops_safe` assumes that writes to stdout succeed; `ops_faults` shows what remains without
that. `sess_spaced`, and the proof for one session thread, show how far `ClientsPipes` does
hold: with one session thread (the instance of `sess_one`), or while clients come so far
apart that every idle thread is asleep (`Spaced`) and `pthread_cond_wait` returns only when
signalled (`Spurious = FALSE`; a spurious wakeup would let two threads share the paths of
one client). That the server pairs pipes correctly in general does not follow: `sess_pair`
shows it does not, and the proofs below say what exactly goes wrong when it does not. In the
same way `StoreSpec` of projeto1 leaves out what `jobs_race` shows (`SearchRaces`), and
`PoolEnds` what `jobs_hang` shows (`Leaked`), and both hold of all the rest. `SearchRaces`
is wider than the race: it lets any create of an existing event succeed, also one that
begins after the other has ended. And `OperationsAreAsked` leaves out what `sess_crash`
shows: it speaks of workers whose client lives. What a killed client leads to after the
repeated operation is in the model as well: the answer to nobody raises SIGPIPE
(`WriteBroken`), which ends the server, and `DiesOnlyOfClient` says that nothing else does
but a client that comes without its pipes.

`ReadAsWritten` says nothing of two kinds of RESERVE that both parsers refuse although
they are well formed. One has exactly `max` coordinates: the test `num_coords == max`
behind the loop does not tell it from one with more, while `parser.h` calls `max` the
"Maximum number of coordinates to read." `CommandReads` says what holds instead, fewer
than `max`. The other is the last line of a file without final newline: `parse_reserve`
tests for `'\0'`, but only if `read` has returned 1.

### Bounds

* `MaxCalls`: requests served in all; `MaxShowAlls`: reports. Three sessions and four
  requests allow a create before three concurrent operations on the event: two
  reservations that overlap and a reader of either kind, or two creates and two
  reservations. Any pair of operations meets in every order.
* `MCRequests` of the server: two creates of different identifiers and (by sending one
  twice) two of one identifier; a reservation of two seats, one of a seat of the first, one
  outside of its event; show and list. The two events are 1x2 and 2x1, so that rows and
  columns cannot be confused. The smallest reservation that can be seen half done has two
  seats.
* `MaxRequests`: requests of a client: two show that an answer is not taken for the next.
* Three clients: more than session threads, so that one waits in the queue. Two session
  threads are the fewest that can mix up paths.
* `jobs`: two threads are the fewest that can miss each other at a barrier, and lines go
  round them three times. The texts are every kind of line, right and wrong, followed by
  another line, the same at the end of a file without newline, and five files whose
  lines run at the same time: overlapping reservations beside SHOW and LIST, a
  reservation that fails half way and one that names a seat twice beside others, creates
  that race, and barriers at the start and in sequence.
  `MAX_PROC` 1 with two files makes the parent wait before it forks again.
* `MaxUint` 999 stands for `UINT_MAX` and `MaxReservation` 3 for `MAX_RESERVATION_SIZE`
  (256): a text has one number above the first, and lists below and above the second.
  `NumberBuffer` is 16 as in the code, and one text has a number of 15 digits, the most
  that fit.

Symmetry is used in runs without liveness properties: sessions, clients and threads are
alike. It is not used in `jobs`: threads are numbers there.

### Fairness

`FairSpec` of `ServerOps` asks weak fairness for each session thread once it has a request
(`Serve(t)`) and for the host once it reports (`Report`); that of `Sessions` for the host,
each session thread and each client after its setup. In `JobPool` it is the parent, the
children that are not observed, and the threads of the observed one; one condition for
all threads is enough, because every thread takes finitely many steps, so that none can
keep another out for ever. That is what the scheduler of the kernel gives to runnable
threads. Nothing is assumed of who calls or is killed: `Call`, `ShowAll`, `Setup`, `Crash`
and `ChildKilled` have no fairness. For locks weak fairness is enough only because the
number of requests is bounded: an endless stream of readers can keep a writer out of a
lock that prefers readers, in the code as well, so these properties say that no lock is
KEPT, and not that no writer starves.

Deadlock is checked in `ops_safe` and `sess_spaced`. Elsewhere the system may stop: the
server ends, a worker waits in `open()` for a killed client, a create waits for a lock that
was kept, or the parent of projeto1 has ended. What TLC's check cannot tell there, a thread
that waits for a killed client from threads that wait for each other, the two `StuckOnly`
invariants say: a thread `Waits` when the guard of its step is false, and if all threads
that are inside an operation wait, it is for the one lock that the code is known to keep.

## Proofs

Induction is over steps: each proof has an invariant, a lemma per action (or kind of
action) that it survives, a lemma that puts them together, and a temporal conclusion.

### The server's operations

`tlapm` proves, for every set of threads and requests and every bound, and whether or not
memory or stdout fail:

* `Invariance`: `Spec => []IInv`;
* `TypeCorrect`: `Spec => []TypeOK`;
* `IdsAreUnique`: `Spec => []UniqueIds`, no two events have one identifier;
* `StuckOnlyByReport`: `Spec => []StuckOnlyIfLeft`, when every thread that is inside an
  operation waits, all wait in `ems_create` for the list lock that a failed report has kept.

As long as stdout does not fail (`~ StdoutMayFail`; `ops_leak` and `ops_double_unlock` show
that this is needed):

* `SaleInvariance`: `Spec => []SaleInv`;
* `SeatsNeverResold`: `Spec => SeatsPermanent`, a seat that is taken keeps its reservation;
* `AllLocksReleased`: `Spec => []LocksReleased`, who is outside the operations holds no
  lock;
* `StoreInvariance`: `Spec => []StoreInv`;
* `NoReservationLost`: `Spec => []ReservationsAccounted`;
* `CopiesAreHistory`: `Spec => []SnapshotIsHistory`, no copy catches half a reservation;
* `ReportsComplete`: `Spec => []ShowAllComplete`, a report prints each event of the list
  once and in its order;
* `OpsImplementStore`: `Spec => AbstractSpec`, the operations implement `EventStore`.

Assumed are the named ASSUMEs of `ServerOps`: the host is no session thread, nobody is not
a thread, requests are well formed.

`UniqueIds` alone is not inductive: a create appends what it searched for several steps
before. `SearchInv` carries the result of the search to the append (no node with that
identifier), and survives steps of others because only a thread at `WritePlaces` appends
and `WriterInv` allows one such thread. `WriterInv` in turn needs `ReaderInv` (a reader at
its places counts in `readers`), so that a writer and readers exclude each other. `TypeOK`
needs `PointerInv` (a thread that works on an event has one). The double unlock and the
kept read lock do not disturb `IInv`: it says that the host has at least one read lock at
its places and says nothing of mutexes.

`StuckOnlyIfLeft` needs one half of what is true of mutexes while stdout works:
`HoldersInv`, that whoever has a mutex is inside that event. It survives the double unlock,
which takes a mutex away from a thread and gives it to nobody. Then the argument goes up
the order of the locks. A thread that waits for a mutex waits for one inside that event,
and no step there waits; so nobody waits for a mutex. A thread that waits for the
writer of the list waits for a create past its lock, which never waits. What is left are
creates that wait for readers, and these readers can only be locks of the host's that no
place of a thread accounts for.

`SeatsPermanent` rests on a second invariant, `SaleInv`, inductive relative to `IInv`.
`MutexInv` says exactly who holds which mutex (a thread at `MutexPlaces`, that of the event
it points at), so that two threads at `TakingPlaces` are at different events
(`AloneAtEvent`). `SeatsOf` carries the result of the check in the first loop of
`ems_reserve` to the second loop: a seat still to be assigned is free, or has the number of
this very reservation, because a request may name a seat twice. `HostReaderInv` says that
the host has exactly one read lock while it reports and none otherwise; it is what a
failing write to stdout breaks.

The refinement rests on a third invariant, `StoreInv`, which contains `SaleInv`. `Store`,
what the mapping shows as the abstract store, has all seats of a reservation taken from the
step on that gives it its number. It changes in `CreateAppend` and in `ReserveNumber` only;
`ReserveAssign` changes the list and is a stutter of the store, because `AssignedOf` says
that the reservation under way is the last one of its event and how many of its seats are
written. `CallOf` says that a thread is in the operation it was asked for, that it has an
answer exactly from the step on that decides it, and that the event it found is still the
first one with its identifier. `StoreNumbered` says of the store what
`ReservationsAccounted` says of the list when nobody has the mutex. Whoever holds the
mutex of an event and is not assigning finds `Store[n] = list[n]`: `MutexInv` leaves no
room for a thread that is. That is why `ReserveCheck` and `ShowCopy` decide as the abstract
store would. `CopyOf` and `ReportInv` carry a copy from there on: it is what the event was
after some of its `Settled` reservations, and later ones do not change that. LIST walks the
list twice, to count and to copy; it stays the same in between since a reader keeps out
`CreateAppend`.

`EventDataProofs` has the facts on data that the invariants rest on, and two of interest by
themselves: the index of a seat lies inside the data array (`SeatIndexInRange`), and
different seats have different indices (`SeatIndexInjective`). `GetEventFinds` says what
the search returns.

### Sessions: clients, queue and session threads

For any number of clients, session threads and requests, whoever is killed or comes
without pipes, and with or without spurious wakeups:

* `TypeCorrect`: `Spec => []TypeOK`;
* `PathsKept`: `Spec => []PathsConserved`, no path is lost or handed out twice;
* `PipesPaired`: `Spec /\ [][TakesAlone]_vars => []ClientsPipes`: pipes are paired as long
  as no thread takes paths while another one has only the first of two;
* `SessionsImplementService`: `Spec /\ [][TakesAlone]_vars => ServiceSpec`, clients are
  then served in the order they asked, one thread each;
* `PairedAnswers`, `PairedDeaths`, `PairedOperations`: `Spec /\ []ClientsPipes` implies
  `[]AnswersMatch`, `[]DiesOnlyOfClient` and `OperationsAreAsked`.

The code does not keep `TakesAlone`: the mutex is released between the two paths, and
`sess_pair` is a run of it that takes the other way. So these hypotheses are not
assumptions on the program but the exact cause of what `sess_pair` finds; in every
behaviour without that one interleaving the rest is as it should be. In two cases the
hypotheses are proved: with one session thread (`OneWorkerOnly`), or with clients that come
and go one by one, are not killed and meet no spurious wakeup (`ClientsSpaced`). Both
exist: `sess_one` and `sess_spaced` are instances. Then

* `AllInvariant`: `[]AllInv`, all the invariants named below together;
* `TakesKept`: `[][TakesAlone]_vars`; `PipesKept`: `[]ClientsPipes`;
* `WakeupKept`: `[]NoLostWakeup`; `AnswersKept`: `[]AnswersMatch`;
* `DeathsKept`: `[]DiesOnlyOfClient`; `OperationsKept`: `OperationsAreAsked`;
* `ServiceKept`: `ServiceSpec`.

Assumed is `SessionsAssumption`: clients are no workers, and nobody is neither.

`PathsInv` is inductive by itself. `PlacesInv` says of each path that it is in the server's
pipe, with the host, in the queue or with a worker, and in one of these only; a client that
waits for its request pipe has it in one. `EndsInv` says that who has which end of a pipe
open follows from where everybody is. `OpensInv` is the memory of a FIFO: who has met
whom in `open()`, and that a path that has been met has left the queue for good.
`PathsConserved` counts what `PlacesInv` says.

`SessionInv` is inductive relative to `PathsInv` and `ClientsPipes`. `SessionOf(w, c)` is
the protocol of one session: for each place of the worker the places where its client may
be, and what is in the two pipes (an identifier, a request, an answer, `quit`, or
nothing). With it an answer in the pipe is always the one to the last request.
`ServedInv` says that a client that has met a worker still has one, so that it is not
killed by SIGPIPE and reads no end of file while the server runs. A client that was killed
is exempt, and so `DiesOnlyOfClient` is part of the invariant: only such a client can have
left a pipe without reader.

`QueueInv` is about the order of the queue. `PairInv` says that a request path is followed
by the response path of its client, in the queue, with the host, or at the head when a
worker has the request path; and the reverse. It survives a worker's taking when no other
worker has half a pair, which is `TakesAlone`. For `ClientsSpaced` this needs `SpacedInv`:
while the host is busy no worker is awake, so that a worker woken by the signal finds
both paths. `Parity` says that the length of the queue is even but for the halves
outside of it. The refinement rests on it: `Backlog` maps the queue to every second path,
and `Aligned` shows with `PairInv` and `Parity` that these are the response paths.
`HostRequest` and `HostResponse` are stutters of `SessionService` (a client goes from the
server's pipe to the host and to the queue in the same place of the backlog), `Connect` is
`Ask`, the taking of a second path is `Begin`, and `quit` is `End`.

TLC checked the three invariants on the instances of `sess_one` and `sess_spaced` before
they were proved; `sess_spaced` keeps `AllInv`, their conjunction.

### projeto1

For any threads, requests, lists of seats and whether or not memory runs out, of
`OpsSpec` (threads that run any operations at any time):

* `OpsInvariance`: `[]OpsInv`, with `OpsTypeCorrect` and `LocksAreHeld`;
* `NumbersAreAccounted`: `[]NumbersAccounted`, a roll back leaves no number and no seat;
* `StuckOnlyByLeak`: `[]StuckOnlyIfLeaked`, when every thread that is inside an operation
  waits, all wait to append to a list whose read lock an earlier create has kept;
* `OpsImplementStore`: `OpsSpec => StoreSpec`.

For any number of threads and any jobs files, of `ThreadsSpec`:

* `ThreadsInvariance`: `[]ThreadsInv`;
* `EveryLineRuns`: `[]EveryLineRan`;
* `OrderKept`: `ThreadsSpec => OrderSpec`.

For any directory and any `MAX_PROC` above 0, of `Spec`, the whole of projeto1:

* `PoolIsBounded`: `[]PoolBound`; `EndsAreReported`: `[]EndsReported`;
* `JobsStopByLeak`: `[]StuckOnlyIfLeaked`;
* `JobsImplementStore`, `JobsKeepOps`, `JobsRunInOrder`: the whole system still implements
  `EventStore` and `JobOrder` and keeps `OpsInv`.

`OpsInv` is proved in two rounds. The first, over types, locks and places (`Core`), says
who holds what: `ListReaders` are counted by `readers` from below only, since a create of
an existing event leaves a lock behind, and that is enough to exclude the writer. The
second uses the exclusion: `Taking` says of a reservation under way that the seats before
the `i`-th are different, and are exactly those that carry its number, so that
`ReserveRollback` gives back precisely what was taken; `StoreNumbered` says of the store
that hides it that its numbers are `1 .. reservations`; `PrintingInv` says that what a
thread has printed is still at the end of the output. The refinement follows: `Store`
changes in `CreateAppend` and in `ReserveDone` only, `ReserveSeat` and `ReserveRollback`
are stutters, and the answers of SHOW and LIST are true when they are given.

`ThreadsInv` has three parts. `LinesInv`: a thread has begun exactly its own operations up
to its line. `MainInv`: what `process_file` knows of the threads in each loop. `StepInv`:
no thread passes a barrier that another has not reached; in the join loop all have passed
the same barriers, and in the restart loop those to come are at the one that the others
have passed. `JoinThread` is the step where that is earned: behind the last join every
thread is stopped or ended, and being stopped at different lines would contradict
`StepInv`. `OrderSpec` then needs that `FewRunning` threads have an operation, and that one
that begins behind a barrier finds all others at or behind it.

`PoolInv` strengthens `PoolBound` by where the parent is, and by who is in `buffer`, in
`inherited` and in `reports`. `PoolRunsThreads` and `ThreadsRunOps` show that every
behaviour of the pool is one of `ThreadsSpec` and that of `OpsSpec`, which carries the
theorems of a module up to those that extend it.

### The parsers

For any text whose runs of digits fit into `buf` of `read_uint` and `parse_uint`, which
means 15 digits at most (`IsText`), any position in it, any `UINT_MAX` and any
`MAX_RESERVATION_SIZE`, and whatever number the unwritten bytes make:

* `CleanupEndsLine`: `cleanup` ends behind the next newline, or at the end of the text;
* `SeatsSorted`: `qsort` leaves the seats of the text, in ascending order;
* `CommandReads`: a command consumes a character at least and ends behind the text at most;
  its numbers fit, and a RESERVE has a seat at least and fewer than the arrays hold;
* `TextIsRead`: the loop around `get_next` reads the text to its end, and each command is
  one that the program may run;
* `TextReadAlike`: `Refused \/ ReadAlike`, both programs read the same command and go on at
  the same place, but for a refused BARRIER or WAIT and for the last command of a text
  without final newline;
* `LinesAreRequests`: what the parser makes of a text is a jobs file as `FilesAssumption` of
  `JobThreads` asks for, so that the theorems of projeto1 hold of every such text;
* `ParsersReadAlike`: `Spec => []ParsersAgree`, the same for whichever file a process is
  given.

Assumed are `ParserAssumption` (the constants are natural numbers, and `buf` has a size),
`WordsAssumption` (a command word is not empty and has no newline; the words are constants,
and TLC checks it) and, for `ParsersReadAlike`, `TextsAssumption` of `JobTexts`. Nothing is
assumed of strings but that they have a length and characters.

The proof follows the code from the inside. Of a number: where its digits end, that its
value is a natural number, and that it is read with its successor character (`UintRead`). Of
a chain of numbers (`NumbersRead`), of the loop over the coordinates (`SeatsRead`), of each
parse function, of `get_next` and the switch: where they end and what they return. Loops
need induction over the number of rounds. The induction theorems of the library cannot be
used here; `Induction` is proved for a given set instead, from the least element outside of
it. What a recursive function is has to be shown too: each loop has a lemma that functions
as asked for exist up to every number of rounds, and that they agree.

For two programs the same chain is gone down with both at once: `Alike` says that they are
at the same place with the same numbers, unless the text has ended in the middle of a
number. Only then do `read_uint` and `parse_uint` differ, and from there on both are at the
end of the text. A `Refused` BARRIER or WAIT is exempt because the client looks at less of
it: it does not know the one, and skips what follows the delay of the other; `Cleanup` may
start in front of the newline in one program and behind it in the other.

### Only model-checked

`ReadAsWritten`, which compares the commands of some forty lines with those that a reader
of them expects, of projeto1 and, if the text ends with a newline, of the client, and so
speaks of these lines only; and all liveness (`ReadersReturn`,
`CallsReturnUnlessLeft`, `AllServed`, `PoolEnds`), because liveness under fairness is out
of the prover's reach. What can be proved of it is its safety half, the two theorems on
threads that wait.

## Not modelled

* The loop of the host around the SIGUSR1 flag: `ShowAll` calls the report at any moment
  at which the host is not reporting. That the host looks at the flag only between two
  reads of the server's pipe, and that the signal may go to the main thread, is left out.
* The length of messages and pipes: a message is written and read whole. A reservation of
  255 seats (4097 bytes) and SHOW of an event of more than 64 KiB may not be, in the code.
  `ems_list_events` of the client writes its request in two writes; a client killed
  between them counts as one that was killed before or after.
* `ems_terminate`, `free_list`, `free_path_queue`: the server's `main` joins threads that
  never end before it calls them; in projeto1 they run when all threads have ended.
* `process_file` giving up: files that cannot be opened or written, `malloc` and
  `pthread_create` failing. A `malloc` that fails for the event itself crashes projeto1's
  `ems_create`; that is a child that is killed.
* Runs of 16 digits or more: `read_uint` and `parse_uint` write them past `buf[16]`, also if
  they are zeros. That is undefined behaviour, and `IsText` excludes such texts.
* A `read` that fails. `parse_uint` returns 1 (`io.c:14`), and `read_uint` takes it for the
  end of the number; with regular files that does not happen short of a broken disk. In
  `session_fn` and `host_fn`, what happens when a signal interrupts `read` or `open` is left
  out; SIGUSR1 is sent to the process, and the main thread, which does not block it, takes
  it as a rule.
* The order of identifiers and seats in the output of `ems_show_all`: identifiers go
  through the buffer of stdio, seats through `write`, so that on anything but a terminal
  they come apart. `AllPrint` is the order of the calls.
* Time: `nanosleep` only separates steps, and WAIT sleeps.
* WAIT with a thread that does not exist writes outside of an array before any thread
  runs; `MAX_PROC` and `MAX_THREADS` of 0; a directory entry without a dot.
* Sizes that overflow `size_t` or the stack.

## Plan

1. The host's loop with SIGUSR1: flag, interrupted read, restart; what a signal may lead to
   and what may be lost.
2. Pipes of bounded capacity and messages read in part, for the two cases above.
