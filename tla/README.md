# A TLA+ verification of google-cloud-cpp-spanner

This directory holds TLA+ models of the C++ client library for Cloud Spanner,
TLC configurations that check them on small instances, and TLAPS proofs that
establish the most important results for every value of the constants.
`PROJECT.json` maps every definition to the lines of source it models and lists
runs, mutants, findings, hazards and theorems. Paths below are relative to
`src/google/cloud/spanner/`.

## 1. The system and its parts

The library turns calls on a `Client` into RPCs. What is hard about it is what
happens between threads, between RPCs, and when RPCs fail.

| Part | State | Operations | What makes it correct |
|---|---|---|---|
| `internal/session_pool.{h,cc}`: size | `sessions_`, `total_sessions_`, `create_calls_in_progress_`, `num_waiting_for_session_`, `session_count` per channel, under `mu_`; `cond_` | `Initialize`, `Allocate`, `Release`, `Grow`, `HandleBatchCreateSessionsDone`, `MaintainPoolSize` | one owner per session, exact counters, limits respected during RPCs, nobody waits in vain, new sessions spread evenly |
| `internal/session_pool.cc`: keep-alive | `last_use_time_` per session, `last_use_time_lower_bound_`, the timer | `DoBackgroundWork`, `RefreshExpiringSessions`, `ScheduleBackgroundWork` | every idle session is refreshed in time; the shortcut that skips a scan misses none |
| `internal/session_pool.cc`: lifetime | the `shared_ptr` of the connection, the `weak_ptr`s of holders and of the timer's callback, `current_timer_` | `MakeSessionPool`, `ScheduleBackgroundWork`, the deleter of a holder, the two destructors | nobody uses a destroyed pool; the background work neither stops nor doubles; the connection can be closed |
| `internal/transaction_impl.h` with the functors of `internal/connection_impl.cc` | `state_`, `seqno_`, `session_`, `selector_`; `cond_` | `Visit`, and in it `PrepareSession` and the RPC of each `*Impl` method | concurrent first requests begin one transaction in one session; no visitor is forgotten |
| `internal/partial_result_set_{source,resume}.{h,cc}` | buffer, chunk and `finished_`; the child stream, its token, the retry policy | `Create`, `NextRow`, destructor; `Read`, `Finish`, `TryCancel` | rows in order, once, whole; errors are not taken for the end; calls return |
| `internal/connection_impl.{h,cc}` | one pool per database, the retry policies | one method per RPC | a session and its stream belong together; lost sessions are marked bad |
| `client.{h,cc}` | none | `Commit` with a mutator reruns it | what is reported is what happened; abandoned attempts are not committed and do not stay open |
| `internal/retry_loop.h`, `polling_loop.h`, policies | failure counter or deadline | `RetryLoop`, `PollingLoop` | bounded retries; only what may be repeated is |
| admin clients and connections | threads that poll operations (etag at the service) | one method per RPC; lists in pages; long-running operations; `SetIamPolicy` with an updater | no lost update; nothing executed twice; every future satisfied, with the outcome of its operation |
| `row.{h,cc}`, `results.{h,cc}` | position of an iterator, metadata and statistics of a source | iterate, convert, take a single row, ask for timestamps, counts, statistics | every row once, an error is delivered once and ends the range; what came with the rows is reported |
| `value.*`, `bytes.*`, `timestamp.*`, `date.*`, `internal/{merge_chunk,time_format,date}.cc` | immutable data | construct, convert, compare, print, parse, merge | conversions invert each other, also at the ends of the ranges |
| `keys.*`, `mutations.h`, `sql_statement.*`, partitions, `transaction.*`, names, request builders | immutable data | build and serialize requests | the request says what the application said |
| `internal/*_stub.cc` and the metadata and logging decorators | none | forward one RPC | every try is routed and gives back what the service answered |

How they interact: a `Client` method calls `ConnectionImpl`, which visits the
transaction; the functor takes a session from the pool into the transaction (or
for one call), sends the request through the stub of the session's channel, and
wraps the stream of a read or query in `PartialResultSetResume` and
`PartialResultSetSource`. Dropping the last `SessionHolder` releases the session.
The pool's timer runs on the completion queue's thread, as do the
continuations of asynchronous `BatchCreateSessions` calls. The admin clients
share only the retry and polling loops with the rest; each long-running
operation is polled by a detached thread that satisfies the caller's future.

The behaviours that tests hardly reach are listed under `hazards` in
`PROJECT.json`, each at its line: wakeups sent after the mutex has been
unlocked and only when somebody is counted as waiting; counters that are used
while `mu_` is free during RPCs; a call of several failing; a clock value that
is read before the mutex is taken; a functor that throws after it has obtained
a transaction id; streams that break inside a value; an answer that is lost after
the service has executed the request; a session that disappears between two
attempts of a mutator; a writer between the read and the write of a policy;
operations that never end; integers at the ends of their range.

## 2. The modules

| Module | Models | Used by |
|---|---|---|
| `SessionPool` | the size of the pool, waiting and wakeups | `MCSessionPool`, `SessionPoolProofs` |
| `AbstractSessionPool` | what the pool promises: bounded, one holder at a time | instantiated by `SessionPool` |
| `SessionRefresh` | the keep-alive, in time | its own run, `SessionRefreshProofs` |
| `PoolLifetime` | construction, timer, deleters and destruction of the pool | its own run, `PoolLifetimeProofs` |
| `TransactionImpl` | `Visit()` and the functors | its own run, `TransactionImplProofs` |
| `PartialResultSet` | row assembly and resumption | `MCPartialResultSet`, `PartialResultSetProofs` |
| `ResultLoop` | the iterators over rows and tuples and `GetSingularRow()`, reading from `PartialResultSet` | `MCResultLoop`, `PartialResultSetProofs` |
| `RetryLoop` | statuses, their classification, the decisions of a retry loop | `Client`, `AdminOperations`, `Stubs` |
| `Client` | `Commit()` with a mutator, `ConnectionImpl`, the service, the pool's other users | its own run, `ClientProofs` |
| `AdminOperations` | both admin clients and connections, the service's operations and policy | `MCAdminOperations`, `AdminOperationsProofs` |
| `Calendar` | leap years, `ZTime()` and `TimeZ()`, C++ division | `Dates`, `TimePoints` |
| `Dates` | the constructor of `Date`, statement by statement | `MCMessages`, `MessageProofs` |
| `TimePoints` | timestamps from and to counts, protobufs and time points; durations | `Times`, `Timestamps`, `Requests` |
| `Times` | inputs and reference definitions for the two modules of time | `MCCodecs`, `MessageProofs` |
| `Timestamps` | RFC 3339 text and the numbers in it | `Values` |
| `Bytes` | base64 | `Values` |
| `Values` | types, conversion, comparison, `MergeChunk()` | `RowStreams`, `Requests` |
| `RowStreams` | rows, the sources of results and what results report | `MCCodecs` |
| `Requests` | key sets, mutations, statements, partitions, transaction options | `MCCodecs` |
| `MCCodecs` | inputs and reference definitions for the five modules above | `MCMessages` |
| `ResourceNames` | names of instances, databases, backups and sessions | `InstanceBuilders`, `Stubs` |
| `InstanceBuilders` | the builders of instance requests | `MCMessages`, `MessageProofs` |
| `Stubs` | the three stubs and their decorators, around one call with its tries | `MCMessages`, `MessageProofs` |
| `MCMessages` | `MCCodecs`, `Dates`, `InstanceBuilders` and `Stubs`, one of them at work at a time | its own run |
| other `MC*` | sets and symmetry for TLC | the configurations |
| `*Proofs` | theorems and lemmas | |

Definitions whose comment starts with "Mutant" are plausible errors in the
definition that follows them. No specification uses them; replacing a definition
by its mutant must make the named property fail, which shows that the property
depends on the code.

### SessionPool

State: the members of the class under their own names, the holders (`holds`,
`dissociated`), the sessions' `channel` and `is_bad`, and for each thread where
it is in the code (`pc`), the wakeup it still has to send (`notify`) and the
calls of its plan that are not yet done (`create_counts`).

A critical section of `mu_` is one step, except `Grow()`, whose loop over the
channels takes a step per channel while `mu_` is held. So `Allocate()` is split
where the code gives up the mutex: `AllocateLoop` is one round of its loop,
entered by `Allocate`, by `Reacquire` after a wait, and by `GrowReturns` after
`Grow()`. A `notify_one()` or `notify_all()` that the code issues after
`unlock()` is a step of its own (`Notify`), so other threads can come in between. Spurious
wakeups are included. The order in which `std::sort` leaves channels with equal
counts and the order after `std::shuffle` are arbitrary.

`CreateSucceeds` and `CreateFails` are the two ends of a `BatchCreateSessions()`
call. The synchronous calls of one `Grow()` complete in the model in any order;
the code makes them one after the other, in the order of the channels, so
the model allows more behaviours than the code. The service may create fewer
sessions than asked for. `Init` is the constructed pool, and `Allocate` is
possible once `Initialize()` has returned.

`Faults` selects which kinds of failure happen: "bad" (a session is lost while
held), "create" (a call fails), "dissociate" (an allocation that leaves the pool).
`MaxHeld` bounds the sessions a thread holds.

### SessionRefresh

Time is a number. The background thread waits for `due`, reads the clock
(`TimerFires`), gets `mu_` and scans (`RefreshExpiringSessions`), then makes its
calls and arms the timer (`ScheduleBackgroundWork`). The other actions are
the ways in which other threads change the idle sessions and their last-use
times. The code gives no guarantee on how fast the background thread runs;
`Slack` is an assumption on the environment: the thread starts at most `Slack`
after the timer is due, and ends at most `Slack` after it read the clock. `Tick`
is disabled where this would be broken.

### PoolLifetime

The actors are the connection (`Owner`), user threads that drop holders, and timers.
`refs` are the actors that have a `shared_ptr` to the pool; the one that drops the
last runs `~SessionPool()` (`Drop`), be it the connection, a deleter between
`Release()` and its return, or a callback on the queue's thread.
A timer goes from `armed` to `expired` or `cancelled`, then its callback runs
(`CallbackRuns`): with a status that is not ok, or a pool that is gone, it does nothing;
else it keeps the pool and goes through `DoBackgroundWork()` step by step. Making a
timer and assigning its future to `current_timer_` are two steps
(`MakeRelativeTimer`, `AssignTimer`), between which the timer may expire.
`~ConnectionImpl()` destroys its members in reverse order: the pool is let go first
(`CloseConnection`), then the queue is shut down and its threads are joined
(`ShutdownQueue`, `JoinThreads`). The queue is external: one that was
shut down starts no calls and cancels new timers at once, and its threads end when
nothing is pending. Names of timers are used again when a timer is over.
`BatchCreateSessions` calls are not made in the background, because the plan of
`MaintainPoolSize()` is always empty (see the observations).

### TransactionImpl

State: the members of `TransactionImpl` and, per visitor, its place in
`Visit()` or in its functor, its sequence number, and the session and selector
in the request it has sent. A functor is a sequence of steps
(`PrepareSession`, `AllocateReturns`, `SendRequest`, then a response), because
nothing but `Visit()` protects the session and the selector while it runs.
`AllocateReturns` is the only step that waits for something outside of the transaction, the
session pool; `OwnStep` are the others. `BeginSucceeds` covers both ways to get an id: a request with a `begin`
selector, and the explicit `BeginTransaction()` of `CommitImpl()` and
`ExecutePartitionedDmlImpl()`. `Init` covers every constructor: a new transaction, one
that reruns another in the same session, one made from known ids, and one for a
single use. `begun` is a history variable.

### PartialResultSet

The result is a sequence of pieces, each belonging to a value; the service cuts
it into messages anywhere (`ReadMessage`), with or without resume tokens, and
ends the stream (`ReadEnds`) at its end or with a failure before any message.
A value is represented by the positions of the pieces it was joined from, so a
row shows whether it is whole, in order and made once: value `v` of the result
is made from the pieces `FirstPiece(v)` to `LastPiece(v)`. `Resume` is the end of
the backoff and the new stream, and the exit from the loop when the policy is
exhausted by then. Both retry policies are modelled: a limited number of
failures, and a limited time whose end (`Expire`) can come at any moment.
That the service sends, from a token on, what follows the token is how the
code uses the service, and is marked external in the map.

### ResultLoop

The application and the source it reads from, together: the steps of
`PartialResultSet`, where `NextRow()` is called by an iterator only, and those of
the application's thread. `row_` and `source_` are the members of `RowStreamIterator`
(whose end is "no source"), `tup_` that of `TupleStreamIterator`. `operator++` is
split where it waits: `Increment` is its first test, `Ask` the call of `NextRow()`,
`Answer` what it does with the row, which for a tuple includes `ParseTuple()`. `AnswerStatus` is the
source that `ConnectionImpl` makes when there is no result. The application either loops
(`See`, and `Leave`, when the body breaks out of the loop) or is `GetSingularRow()`,
which looks at one element, increments once and ends (`Finish`). `Misfits` are
the rows whose columns do not convert to the tuple.

### RetryLoop

A status is a code and the phrases its message contains; `IsSessionNotFound()`
looks for such a phrase, and `RetryLoopError()` keeps the phrases of the last
status, which is why a lost session is still recognised after the retry loop has
wrapped its error. The loop itself has no state: a module that runs one keeps the
number of failures in a variable and asks `CallsAgain` and `LoopResult`. How long a
backoff is has no effect on the state. Only the policies that count failures are
modelled here; `PartialResultSet` also has the one that is limited in time.

### Client

A caller goes through `Start`, its mutator, which makes up to `MaxRequests` requests
and ends with mutations, a bad status, a thrown status or another exception,
then `Commit()` or `Rollback()`, and `Judge`, the decision at the end of an attempt: return,
or rerun in a transaction that keeps the session unless it was reported as lost.
A try of an RPC is one step with three outcomes: executed and answered, refused, or
executed (or not) with the answer lost (`AnswerLost`, which the client sees as
`kUnavailable`). `PrepareCommit` covers the explicit `BeginTransaction()` that
`CommitImpl()` makes for a transaction without an id.

The service is a state per transaction id, and it may abort a transaction, lose a
session with its transactions, or forget a transaction that is over
(`ForgetTransaction`, which lets a few ids stand for many) at any time while a call
runs. The pool is the set of idle sessions and what its other users hold
(`OthersAllocate`, `OthersRelease`); an empty pool answers
`kResourceExhausted`, as with `kFail`. What happens inside the pool
is `SessionPool`; what concurrent visitors of one transaction do is
`TransactionImpl`. `known` and `reported` are history variables.

### AdminOperations

Each caller makes one call, chosen by `Assignments`. The methods are grouped by the form
they have in the two connections: one RPC in a retry loop, one RPC per page, the
start of a long-running operation, and the read-modify-write loop of
`SetIamPolicy()` with an updater. `NonIdempotent` are the methods that pass
`is_idempotent = false`. Every execution of a starting request creates an
operation of its own (`lro[c][k]`), so a request that was executed twice would
leave an operation nobody polls. An operation may end with any of the results
the code distinguishes, or never. `AwaitEnds` and `AwaitSleeps` are the loop of
the polling thread, `PollFindsDone` and `PollFindsNothing` the RPC in it, with
the policy consulted after a success too. The policy at the service counts how often each
caller's change is in it; a write with a stale etag is refused with `kAborted`.

### Calendar, Dates, TimePoints and Times

`Calendar` and `TimePoints` are the functions of `timestamp.cc` and `date.cc` as
operators. The units of time, the number of digits of a fraction and the width of the
integers are constants, and so is the width of `tm_year`; every intermediate result of type
`int64_t` is wrapped to its width, and the year of `ZTime()` to that of an `int` (`TmYear`), so
that overflow and narrowing are visible. `Dates` is the constructor of `Date` as a machine: the two
normalisations and the loop that carries days into the next month, a step per
round; nothing bounds its arguments but the integers. (`Date` does not check for overflow, so at the
ends of `int64_t` its result is undefined; the model is of the years for which it is not.)
`Times` has a step for each kind of conversion, which puts an input into `input`; its
invariants compare what the operators make of it with integer arithmetic.

### InstanceBuilders

The request under construction (`instance`, `field_mask`), the instance it was
made from (`given`), those that the service has (`stored`), and the calls so
far. One action per method, in any order, up to `MaxCalls`. `SetName`
is possible again and again, as are all others; `AddPath` keeps paths that are there.
What the service makes of a mask (`Updated`) is external.

### Stubs

One call with its tries. `Try` makes a context; `LogRequest`, `AddMetadata` and
`Send` are the decorators on the way down; `Send` has the answer of gRPC,
turned into the result by the default stub of the service; `LogResponse` is the way back
and `TryReturns` the decision of `RetryLoop()`. Which RPC a stub has, what it returns,
by which field it is routed and whether it is logged are the tables of the source.
A try that is not logged goes past the logging decorator, which is then not made.

### Timestamps, Bytes, Values, RowStreams, Requests

These are operators without state, one for each function of the source. Text is the
record of its fields, a number in it is its sign and its digits, a string value is a
record that says what it is the text of, a C++ type is a term (scalar, optional,
vector, tuple with named or unnamed elements), and a protobuf is a pair of type and
value. The width of an octet is a constant.
`RowStreams` has a source as the metadata and statistics that it has got so far.

`MCCodecs` has steps that put an input into the variable `input`, as those of `Times` do; its
invariants compare what the operators make of the input with a definition that is
independent of the code (the second that the fields of a text say, counted by the lengths of
years and months, a key set as a set of keys, a value before it was cut into pieces).

## 3. What TLC checks

| Run | Instance | States | Shows |
|---|---|---|---|
| `pool_safety` | 2 threads, 2 channels, 4 sessions, min 1, 2 per channel, `kFail`, `MaxHeld` 2, all faults | 250,868 | `Ownership`, `Accounting`, `MaxPoolSize`, `OneCreator`; every plan is exact and balanced (`PlanIsSound`); the pool implements `AbstractSessionPool` |
| `pool_wakeup` | 4 threads, 2 channels, 2 sessions, no faults | 28,768 | `NoLostWakeup` |
| `txn_visits` | 3 visitors, 2 sessions, 2 ids, 4 visits | 315,974 | `ExclusiveUntilBegun`, `OneTransaction`, `TurnIsPassedOn`, `NeverRebound`, `EveryVisitProceeds` (if `Allocate()` returns) |
| `refresh` | 2 sessions, interval 3, period 2, slack 1, time to 15 | 383,668 | `LowerBoundHolds`, `KeptAlive` |
| `lifetime` | 2 users, 2 sessions, 3 timers, 1 call | 353,332 | `UsedOnlyAlive`, `OneBackgroundThread`, `ConnectionCloses` |
| `client` | 1 caller, 2 sessions, 3 ids, 1 request per attempt, 1 rerun, 1 failure per RPC | 539,701 | `OutcomeIsHonest`, `NothingLeftOpen`, `SessionsKeptApart`, `CommitReturns` |
| `admin` | 2 callers; one of them calling any one method, or both updating the policy; 1 failure, 2 polls, 1 rerun, 2 pages | 6,071 | `AtMostOneExecution`, `ResultIsHonest`, `NoLostUpdate`, `CallsReturn` |
| `loop` | 3 rows of 2 columns in 10 pieces, the last not a tuple; 3 failures, both policies, tokens on all messages; read through an iterator, or by repeated calls of the source | 5,820 | `RowsInOrder`, `EndIsHonest`, `CountedCallsReturn`, `ReadingIsHonest` (of loops and of `GetSingularRow()`), `NotAskedAgain`, `LoopEnds` |
| `messages` | see below | 389,301 | nine properties of conversions, `Date`, builders and stubs |

`messages` has four parts, of which one is at work in a behaviour.

* Conversions, 194,638 states: `CivilTimeAgrees` (civil times, also before the epoch, at the
  ends of 4, 100 and 400 years and of the years that a `std::tm` has, are a calendar), `TimesSurvive`
  (time points of any unit go to a timestamp and back, or are refused: `TimePointSurvives`; protobufs,
  in range or not: `ProtoIsNearest`; a staleness: `DurationIsExact`), `TimestampTextAgrees` (RFC 3339
  text is accepted exactly if it has the format, becomes the second that its fields and its offset
  say, the offset as `timestamp_test.cc` has it, and is printed and parsed back;
  and the numbers in it up to the first and last of their type), `ConversionsInvert`
  (values of every type, nested too, and bytes; and `Value` equality is equality of types and protobufs, NaN apart),
  `ResultsAreComplete` (a value cut anywhere is merged to itself, and what rows and results
  report of the messages that a source has read), `RequestsAreFaithful` (a key set has the
  keys that were added; a partition that was serialized makes the request it was made from).
* `Date`: `DatesAgree` (`DateIsNormal` and `DateTextAgrees`), for 3 years, 9 months and 11 days.
* Builders: `BuilderIsFaithful` (`BuilderUpdatesInstance` and `BuilderCreatesInstance`), with
  2 instances, 2 display names, 2 node counts, 3 maps of labels and 3 calls.
* Stubs: `CallsPassThrough` (`EveryTryIsRouted`, `ResultPassesThrough` and `LogIsComplete`), for
  every RPC of the three services, 3 answers and 2 tolerated failures, with and without logging.

Why the bounds are enough. `pool_safety`: two threads with up to two
sessions each reach the limit of four, bad and dissociated sessions and failed calls make
the counts of the channels unequal before the next plan, with a remainder to round, and
four session names let bad and dissociated sessions be replaced while
still held. Threads that wait for room are in `pool_wakeup` and `pool_faults`, which
have `kBlock`. The plan for more channels is a theorem.
`pool_wakeup`: with four threads a notification can
go to one waiter while a newcomer takes the session and two others wait.
`txn_visits`: two ids make a second begin visible; with three visitors one can run,
one wait and one arrive. `refresh`: fifteen units are two
full cycles of interval, period and delays. `lifetime`: three timers are one whose
callback runs, the one it has made, and one that expired before its future was
assigned; two users with two sessions let one deleter hold the last pointer while another
finds none. `client`: one rerun after a request,
a begin, a commit or a rollback that failed, with one retry of each, has every order of
abort, lost session and lost answer; the third id is what a lost
`BeginTransaction()` leaves behind; other users of the pool take and return the
second session. One caller is enough for the run because the theorems about the same
invariants are for any number of callers. `admin`: calls of different methods share nothing, so they
are checked one at a time; the two updaters share the policy. One lost answer is
enough for a second execution, and two polls for one that is followed by another.
`loop`: three rows with values
cut in two and three and up to three interruptions cover a break before, inside and after
a value and again after the resumption; the third row is reached
after rows that convert, and fails for the tuples only. A caller of the source asks again after
the end and after errors, which an iterator never does, so the properties of the source are
checked with both. That `GetSingularRow()` returns the row of a result of one row is
not met here, but is part of the theorem, which is for results of any length.
`messages`: years before and after zero, a common and a leap century, months on both
sides of zero and a year, days at the ends of months, years and 400 years; three calls
of a builder are two about the same field with one in between; two failures are a first, a middle and a
last try. With 2 seconds in a minute, 4 in an hour, 12 in a day, fractions of 2 digits
and integers of 25 bits, the ends of the range are days and not aeons away and
every boundary of units is met within a few steps; the arithmetic has these
numbers as parameters. With `TmYearMax` 2047, the largest value of 12 bits, a `std::tm` has the
years -148 to 3947, and seconds and texts of the years on both sides of either end are tried. Octets of 4 and digits of 3 bits keep the ratio of
three octets to four digits.

Threads, channels and sessions are interchangeable in the pool, so its safety runs use
symmetry; runs of liveness do not. Not every run repeats the type invariant of its module:
those of `SessionPool`, `PoolLifetime`, `TransactionImpl`, `SessionRefresh` and
`AdminOperations` are theorems.

Deadlock is checked in the runs of the pool and `refresh`. It is not in the
others: the number of visits and of a builder's calls is bounded, a stream ends when its source is
destroyed, a connection that is closed is not opened again, and a call, a loop or a
constructor that has returned does nothing more.

Fairness. Weak fairness of the steps of threads that can go on inside the
library (the operating system schedules them, and `mu_` is released between
steps), of the end of RPCs (every call has a deadline or a failing connection in the
end), and of the timer. `TransactionImpl` does not assume that `SessionPool::Allocate()` returns:
with `kBlock`, the default, it may wait for ever, as `pool_faults` shows and as happens when every
thread holds a session and waits for another. That all calls of it return
(`AllocationsReturn`) is the premise of `EveryVisitProceeds`; without it TLC finds
visitors that wait for a functor that waits for the pool. `PoolLifetime` assumes it for each deleter, timer and call, and
for the connection once it is being opened or closed. `Client` assumes it separately for the RPCs, for the end
of the mutator (`MutatorEnds`: `Commit()` cannot return before its mutator does)
and for the code between (`LocalStep`); `AdminOperations` for the client's steps,
and asks nothing of the operations: futures are satisfied even if an operation never
ends, because the polling policy does. `ResultLoop`
assumes that the thread which is in a loop or in
`GetSingularRow()` does: the body of the loop ends, and then either increments the iterator or
leaves. No fairness is assumed for the
application elsewhere: nothing makes it call, release, drop or close anything. Spurious
wakeups are possible and never relied upon.

### Disagreements found

These runs end in a violation; each shows that the code does not do what a comment
or document says. The exact quotations are in `findings` in `PROJECT.json`.

* `pool_faults`: three places make the predicate of a waiting
  thread true without notifying `cond_`: the release of a bad session and a
  dissociating `Allocate()` make room (`session_pool.cc` 347, 276), a failed
  call ends the creation of sessions (470). The waiter stays blocked although it
  could go on. The property fails as well with `Faults` reduced to any one of the
  three.
* `stream_tokens`: the empty token of a message without one replaces the last
  token, and values are handed on at once: a resumed stream repeats rows.
* `text_offsets`: the UTC offset of a text is added to its time (`timestamp.cc` 224) where
  RFC 3339 subtracts it, so that the timestamp is off by twice the offset. The test
  `timestamp_test.cc` 163-173 expects this.

`pool_wakeup` shows that without faults no wakeup is lost, `loop` that
with tokens on every message the rows are right, and that with a policy that
counts failures every call returns.

### Observations

Behaviour met while modelling that is in the models as the code has it, and that a
maintainer may want to look at. The properties are stated so that they hold with it, and
their comments say where.

* `MaintainPoolSize()` asks `Grow()` for `total_sessions_ - min_sessions`, which is
  negative (`internal/session_pool.cc` 131): the plan is empty and a pool that has lost
  sessions stays below `min_sessions` until `Allocate()` finds it empty, although the comment
  on the method (125-126) says "Ensure the pool size conforms to what was specified".
* `Visit()` takes its sequence number before it waits for its turn
  (`internal/transaction_impl.h` 82), so functors do not run in the order of their
  "monotonically-increasing" numbers (71).
* If the deadline of the retry policy passes during a backoff, `Read()` of a resumed
  stream returns with a new stream that nobody has read, and `Finish()` is called on it
  (`internal/partial_result_set_resume.cc` 42).
* A retried `BeginTransaction()` whose first answer was lost leaves a transaction
  whose id nobody knows. A `Commit()` that fails with a status that is not
  rerunnable is not rolled back. A `Commit()` RPC retried after its answer and then
  its session were lost is told "Session not found": the mutator is rerun although the first attempt is
  committed (`OutcomeIsHonest` names this exception).
* `PrepareSession()` does not look at `dissociate_from_pool` when the transaction has a
  session: a session whose partitions are sent to other machines returns to the pool if the
  transaction was used before (`internal/connection_impl.cc` 366). A row stream may
  outlive the holder of its session.
* A retry policy that is exhausted before the first call yields an error with code `kOk`.
* `PollingPolicy` is consulted after a successful poll (`internal/polling_loop.h` 140-142);
  `polling_policy.h` 61-63 says that it is not.
* February 29 is accepted in every year (`internal/time_format.cc` 192), because `ValidDay()` sees
  `tm_year` before it is set, although the comment on it (95) says that the year has its true
  value. `TimestampTextAgrees` says nothing of this day in a common year.
* A time point in the first second of a range of subseconds, which begins before the smallest one, is refused
  although it fits (`timestamp.cc` 359, as the comment there suspects; `timestamp.h` 114-127
  promises it). `TimePointSurvives` only says that it does not come back as another.
* The text of a timestamp beyond the years of a `std::tm` has a wrong year (`timestamp.cc` 88,
  236-237). `CivilTimeAgrees` says that the year is wrong exactly there.
* A null STRUCT is not equal to itself, and elements of an array are compared with the type of
  the first (`value.cc` 65, 77), so that arrays of STRUCTs with other field names may be
  equal; `EqualityAgrees` claims neither the one nor the other. `ExtractTupleValues` passes the outer type on
  (`value.h` 576, 589); the type of an optional struct has no field names (`value.h` 403-405). `ConversionsInvert` says
  nothing of the names of such structs, only of their values.
* The labels of `UpdateInstanceRequestBuilder` are inserted and so do not
  replace an existing label (`update_instance_request_builder.h` 146);
  `GetDatabaseDdl` is routed by "name="; `QueryOptions` are not part of a `QueryPartition`.
* `GetRowsModified` reads statistics that may be absent (`results.cc` 41), and so does
  `AnalyzeSqlImpl` with the plan (`internal/connection_impl.cc` 574-583).
* `ScheduleBackgroundWork()` assigns `current_timer_` after the timer has been made
  (`internal/session_pool.cc` 107). If the timer, of five seconds, expires before, two
  threads assign it without a lock and the earlier future can stay; the destructor then
  cancels a timer that is over, and closing the connection waits for the other to expire.
  `OneBackgroundThread` and `ConnectionCloses` hold nevertheless, if the two assignments
  do not happen at the same instant.
* Every thread may hold a session and wait for a second one (two transactions used
  together): with `kBlock` all of them wait for ever. `action_on_exhaustion`
  `kFail` is there to avoid it (`internal/session_pool.cc` 291).

## 4. What is proved

All theorems are for every value of the constants that satisfies the named
assumptions (`ConstantsAssumption`, `TransactionAssumption`,
`RefreshAssumption`, `LifetimeAssumption`, `StreamAssumption`, `ClientAssumption`,
`AdminAssumption`, `AssignmentsAssumption`, `LoopAssumption`, `CalendarAssumption`,
`TimestampsAssumption`, `TimesAssumption`, `DatesAssumption`, `BuildersAssumption`,
`StubsAssumption`), which say little more than that sets are
finite where they are counted and numbers are numbers. `StreamAssumption` says in addition
what a result is: the pieces come in the order of their values, no value is without a
piece, and the values fill whole rows. `CalendarAssumption` says that an hour has whole
minutes and a day whole hours, `TimestampsAssumption` that the years of a `std::tm` fit the integers,
`TimesAssumption` that a period is a whole number of seconds or a
whole fraction of one and can be told in nanoseconds or is a whole fraction of one, as those of
`std::chrono` are, and `StubsAssumption` that an answer without an error has no text of one.

**SessionPoolProofs.** `PoolInvariance`: `Spec => []PoolInv`, from which
`PoolTypeCorrect`, `OwnershipCorrect`, `AccountingCorrect` and
`OneCreatorCorrect` follow. None of these is inductive alone. That the counters
are exact depends on ownership (a session that is idle twice would be counted
once), and that one process creates at a time depends on the counter being
exact (a creator starts when `create_calls_in_progress_` is 0). `PoolInv`
therefore has four parts: `Placed` (types, ownership, and the sizes of the pool
and its channels), `Control` (what `pc`, `mu_`, `notify`, the plan and the wait set can be
together: only the holder of `mu_` has a plan in the making, only one process has
calls in progress, a thread on `cond_` is waiting), `CallsCounted` and
`WaitersCounted`. The proof has one lemma per action, built on lemmas about
cardinality (adding and removing one session, a set of new sessions, one
waiter).

Then, in the same module, `PlannedInvariance`: `Spec => []PlannedInv`, and from it
`PlanMeetsTargetCorrect`, `PlanIsBalancedCorrect` and `MaxPoolSizeCorrect`, for any number of
channels with any number of sessions each. What `ComputeCreateCounts()` has planned
when its loop is over depends on every round of it, so `PlanInv` is the invariant of that
loop: what remains covers the channels that are left, fits them, and adds up to the target
with what is planned (`PlanAddsUp`); a channel with new sessions is at most one above the others
and stays so (`PlanIsEven`); no share to come is above what a visited channel has
(`SharesDecrease`); and with the negative difference of `MaintainPoolSize()` nothing is
planned (`NothingToPlan`). `Sized` is `MaxPoolSize` for each process that could be the one
that creates: what there is and what it still asks for are within the limits. The lemmas
below are about the division that rounds up (`ShareBounds`, `ShareStep`) and about counting
the sessions of a set of channels by an injection into pairs. `PoolRefinement` shows
`Spec => ImplementsAbstractPool`: the initial states correspond, and each action is
either a step of `AbstractSessionPool` or leaves its variables alone. It needs `PoolInv`,
for a session that is taken must be free, and `Sized`, for the bound on their number.

**TransactionImplProofs.** `Invariance` strengthens the properties by who owns the
turn: `state_` is `kPending` exactly while some visitor is exclusive, there is at
most one, before the id is known no other visitor is in a functor, and what a request in flight
carries is what the transaction holds. From it: `TypeCorrect`,
`ExclusiveCorrect`, `OneTransactionCorrect`, `TurnIsPassedOnCorrect` and the
action property `NeverReboundCorrect`.

**SessionRefreshProofs.** `RefreshInvariance`: types, the lower bound, that the
bound is not in the future, and `Punctual`, which says how old a session can be
in each phase of the background thread. `LowerBoundCorrect` is about the time that the pool
caches; `KeptAliveCorrect` shows the bound
`keep_alive_interval + Period + 3 * Slack` for all values of the three.

**PoolLifetimeProofs.** `LifetimeInvariance` gives `LifetimeTypeCorrect`,
`UsedOnlyAliveCorrect` and `OneBackgroundThreadCorrect`, for any number of users,
sessions, timers and calls. `LifetimeInv` has, beside the types: `Owned` (who is between
the lock and the return has a pointer, nobody else has, and the pool is destroyed exactly
when there is none), `Placed` (a session is with a deleter only while that deleter has to
release it, and a destroyed pool has no idle one), `Started` (before the first timer
is made there is none), and `OneBackgroundThread` itself, which needs `Owned`: a
callback that is at work has kept the pool alive and will make the next timer.

**PartialResultSetProofs.** `StreamInvariance`, `RowsInOrderCorrect` and
`EndIsHonestCorrect`, for any result, any cut of it into pieces and messages, both retry
policies and any number of interruptions. Each has the hypothesis
`TokenOnEveryMessage`, under which the run `loop` checks them too; without it they are false,
as `stream_tokens` shows. Three rows that are right say nothing about
the next one, so `StreamInv` says what has become of every piece that was received:
the rows returned are the first ones of the result (`RowsComplete`), the buffer
has the values that follow (`BufferComplete`), the chunk has the pieces of the
value that is not complete (`ChunkIsNext`), nothing lies between them (`NothingSkipped`),
and the token is the position up to which all this is so. `FirstPieceSplits` shows
that the pieces of the values before `v` are an initial segment of the result, `PiecesJoin` and
`MergedValues` what `MergeChunk()` makes of a cut value, `MessageEffect` what one
message does to buffer and chunk wherever it begins and ends, and `RowArithmetic`
that rows are taken from the right place.

The same module has the theorems about `ResultLoop`: `LoopInvariance`,
`LoopIsHonestCorrect`, `SingularIsOnlyCorrect` and the action property
`NotAskedAgainCorrect`, for any result, with any rows that do not convert, under the same
hypothesis. The steps of the source are steps of `PartialResultSet` (`LoopIsCaller`), so that its invariant
holds here too. `LoopInv` adds what the place of the application says about the source and
the iterators: while it looks at an element the source has just answered with it
(`InvAtLook`), when it asks, the source has neither ended nor failed (`InvAtAsk`), what has been
seen is what the source has returned, up to an element that was an error (`SeenInOrder`).
`SourceMoves` is what the source may do between the question and the answer.

**ClientProofs.** All three invariants of the run and the types of the state, for any number of callers, sessions,
ids, requests, reruns and failures. `SessionsKeptApartCorrect` follows from `SessionInv`, which has two
parts: `Apart` (types of the session sets, and that callers, others and the pool have
disjoint sessions) and `Marked` (a session that was reported as lost is marked bad, and no bad
session is idle). The property alone is not inductive: that a reported session does not get
back needs that it was marked when its status was seen.
`ClientTypeCorrect`, `OutcomeIsHonestCorrect` and `NothingLeftOpenCorrect` follow from
`ClientInv` (`ClientInvariance`). What is reported is decided by statuses that were seen earlier, while
the service may have changed since. `ClientInv` therefore ties the place of each caller to the
state of its transactions: a status that calls for a rerun has its reason at the service, and the
reason stays (`SeenJustified`); attempts that were given up are over unless a known exception
applies (`AbandonedOver`); a rollback or a commit that was answered has happened
(`RolledBackPlace`, `CommittedPlace`); and what a call that returns may say (`AtEnd`). Callers do
not disturb each other because no two know the same id (`KnownApart`), and a lost
session takes its transactions with it (`ActiveAlive`). The lemma `Bystander` shows
that steps of others and of the service can only abort or forget, which keeps the
invariant of every other caller, so that each action is proved for its own caller alone.

**AdminOperationsProofs.** For any number of callers, and any assignment of methods, with any
policies and number of pages. `ExecutionInv` gives `AdminTypeCorrect` and
`AtMostOneExecutionCorrect`: every execution but the last has cost a failure
(`Numbered`), a request that is not idempotent and can still be sent has not been
executed (`Unsent`), a range asks only for pages there are (`Listing`), and a
thread polls an operation that was started (`Started`).
`PolicyInv` gives `NoLostUpdateCorrect`: a policy that was read is contained in the
present one, and is the present one if it has its etag (`ReadIsPast`); a policy to
be set that carries the present etag contains the present policy (`SetIsFuture`); and where an
updater can be (`InLoop`). `HonestInv` gives `ResultIsHonestCorrect`: an
outcome that a polling thread has seen is the operation's outcome, for good
(`Known`), and what each result says about the call (`Honest`).

**MessageProofs.** What the run `messages` checks of times, dates, builders and stubs, for every input.

*Dates and times.* `CivilDayOfPlace` and `DayOfPlace` split a day into the 400 years it is in, the
year of these and the day of the year, from where the code's expressions can be computed;
with them `CivilDayOfDate` shows that `CivilDay` inverts `DayOf` at every date,
`CivilDayIsDate` that it gives dates, and `CivilDayFollows` that the next day is the next
date. `CivilTimeAlwaysAgrees` adds the time of day and the narrowing of the year: `TmYearNarrows`
shows that a year is kept exactly if a `std::tm` has it, so that `TimeZ()` inverts `ZTime()`
in these years. `DateInv` says that the day which the
constructor's members stand for, counted by `DayOf`, is the same before and after every
round; at the end of the loop it is a date, hence `DateAlwaysNormal`, and
`DateTextAlwaysAgrees`: a date has nothing to carry, and anything else is changed. `DaysAlwaysRunOut` is why the
loop ends. `FromCountsExact` shows that the carries of `TimestampFromCounts()` lose nothing
and overflow only where the result does not fit; `ProtoAlwaysNearest` and
`TimePointAlwaysSurvives` rest on it, the latter with `WholeSeconds`
and `FromFraction`, `ToFraction` for the two kinds of period, whose checks for
overflow (`QuotChecks`) are shown to be exact for whole seconds. Where these alone are less than the
smallest time point, the theorem says that a time point comes back as itself or not at all. `DurationAlwaysExact` is about
durations of any sign.

*Builders.* `BuilderInv`: the values and labels of the request are those of the calls so far
(`BuilderValues`), a path is in the mask exactly if some call was about it, once
(`MaskOfCalls`), and a creation still has its name (`CreatedFrom`). The lemmas `LatestIsNew`, `LatestIsKept`,
`LabelsAreKept` and `LabelsAreAdded` say what one more call changes. From it
`BuilderUpdatesCorrect` and `BuilderCreatesCorrect`, for any number of calls.

*Stubs.* `StubInv`: a context has the metadata of one try, according to where the try is
(`ContextIsFresh`); every answer before the last was one to try again, and their number is that of the
failures (`TriesAreCounted`); the result is what the default stub made of the last answer
(`ResultIsReply`); and the log has what the decorators have seen (`LogOfTries`).
From it `EveryTryRouted`, `ResultAlwaysPassesThrough` and `LogAlwaysComplete`, for every RPC,
every policy and every sequence of answers.

Where a run checks several of these invariants as one, a theorem states that one too
(`PlanIsSoundCorrect`, `ReadingIsHonestCorrect`, `DatesAlwaysAgree`, `TimesAlwaysSurvive`,
`BuilderAlwaysFaithful`, `CallsAlwaysPassThrough`).

Every safety invariant of the passing runs is proved except four of `messages`, and so are the
refinement and the action properties `NeverRebound`, `EndIsHonest`, `NotAskedAgain` and,
of `Dates`, `DaysRunOut`. Only model-checked: liveness (`NoLostWakeup`, `EveryVisitProceeds`,
`CountedCallsReturn`, `LoopEnds`, `ConnectionCloses`, `CommitReturns`,
`CallsReturn`), which is out of the prover's reach; and `TimestampTextAgrees`,
`ConversionsInvert`, `ResultsAreComplete` and `RequestsAreFaithful`. These are about
recursive operators on data (text, base64, values, lists of messages and keys), and what they compute
for every input needs an induction that the prover cannot make; TLC compares them with
their reference definitions instead.

## 5. Not modelled

* Output operators and the text of log lines: formatting for people.
* `GetStub()`'s round robin over the channels, for sessions that have none.
* `Wait()` and `Allocate()` during the destruction of the pool: `Allocate()` is only
  called through the connection, which has a pointer.
* Channels, credentials, connection options, the API client header, compiler
  information, `LoggingResultSetReader`: constants, or one call each to gRPC.
* Samples, benchmarks, integration tests and test doubles: users of the library.

## 6. What is left

Every component of section 1 is modelled, with the omissions of section 5, and every property that
the prover can reach is proved. Open are the hazards without a property: the sign in
`MaintainPoolSize()`, the order in which sequence numbers are sent, and a deadline that passes during a backoff, which happen and
are described in the observations. A row stream that outlives the holder of its session would need
`PartialResultSet` and `SessionPool` in one model.
