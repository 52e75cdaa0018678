# cc-snippets: models, checks and proofs

cc-snippets is a collection of small C++ programs and header-only classes. This
directory holds TLA+ models of the parts that have behaviour worth checking, the
TLC configurations that check them on small instances, and proofs of the most
important results for every value of the parameters.

`PROJECT.json` lists the components, the runs with their properties, for every
property a faulty variant of the code that violates it, the lines of the source
each definition stands for, and the hazards the properties are about.

## The system

The repository has no common program; its parts are independent, and what
interacts is inside each of them.

| part | state | operations | what is hard |
|---|---|---|---|
| `null/spsc_ring_buffer.h` | two atomic indices, a ring of Capacity + 1 slots | `push`, `pop`, `size`, `is_full`, `is_empty` | two threads without a lock, acquire/release order, stale loads, wrap-around |
| `null/concurrent_blocking_queue.h` | a deque, a closed flag, a mutex, two condition variables | `push`, `try_push`, `pop`, `try_pop`, `close`, readers | lost wakeups, close against waiting threads, timeouts, exceptions of T |
| `null/shared_ptr.h`, `null/weak_ptr.h` | handles; per control block two atomic counters | copy, move, swap, reset, `lock`, `expired` | last owner against `lock`, disposal against destruction, address reuse |
| `null/lru_cache.h`, `null/concurrent_lru_cache.h` | a list and a map into it, in one of them a mutex | `get`, `put` | list and map in step when an allocation throws; pointers kept after the unlock |
| `null/unique_ptr.h` | one pointer and deleter per handle | move, swap, reset, release | destructors that use handles while one of them deletes; which deleter deletes what |
| `asio/proxy/server.cc` | per session two sockets, two timers, two deadlines | accept, connect, relay both ways, watchdogs | cancelled but queued handlers, lifetime by `shared_from_this`, idle detection |
| `asio/echo/server.cc`, `co_server.cc` | per session a socket, a timer, a deadline; around them threads, accept loops, signals | accept, echo with watchdog or timeouts, stop | `start` outside the strand, stale timer handlers, exceptions that cost a thread |
| `asio/echo/client.cc`, `co_client.cc` | atomic counters shared with a monitor loop | connect, echo, count | order of the counters, a run that ends too early or never |
| `asio/socket` servers (03, 06, 07) | an acceptor or a datagram socket | accept or receive, send the time | loops that must go on after an error |
| `asio/basic`, `asio/coro`, the other `asio/socket` programs | a timer, a socket or a coroutine each | fixed sequences of calls | little; in `socket/03/co.cc` a lifetime |
| `system/` | none | error codes, conditions, exceptions | the mapping must agree in both styles |
| `debug/`, CMake files | none | printing, building | nothing a model says something about |

What makes each part correct, in a sentence: the ring and the blocking queue
deliver every item once, in order, within their capacity; no thread sleeps while
there is something for it to do; an object lives exactly as long as it has
owners, and its control block as long as it has observers; a cache answers as
the least-recently-used policy says and its two structures agree; a session ends
if and only if it failed or was found idle, and then goes away; a server serves until
it has a reason not to.

## Modules

| module | models | abstract specification |
|---|---|---|
| `BoundedFifo` | what both queues promise | it is one |
| `SpscRingBuffer` | `spsc_ring_buffer.h` | `BoundedFifo` |
| `SpscRingBufferProofs` | theorems about it | |
| `ConcurrentBlockingQueue` | `concurrent_blocking_queue.h` | `BoundedFifo` |
| `ConcurrentBlockingQueueProofs` | theorems about it | |
| `SharedPtr` | `shared_ptr.h` and `weak_ptr.h` together | |
| `SharedPtrProofs` | theorems about it | |
| `UniquePtr` | `unique_ptr.h` | |
| `UniquePtrProofs` | theorems about it | |
| `LruPolicy` | what an LRU cache promises | it is one |
| `LruCache` | `lru_cache.h` and `concurrent_lru_cache.h` | `LruPolicy` |
| `LruCacheProofs` | theorems about it | |
| `WatchedSession` | what a session of any of the servers promises | it is one |
| `ProxySession` | class `session` and class `watchdog` of `asio/proxy/server.cc` | `WatchedSession` |
| `ProxySessionProofs` | theorems about it | |
| `EchoTimer` | the members and the timer that both echo sessions have | |
| `EchoSession` | class `session` of `asio/echo/server.cc`, with the watchdog and with timeouts | `WatchedSession` |
| `EchoSessionProofs` | theorems about it and about `EchoCoSession` | |
| `EchoCoSession` | class `session` of `asio/echo/co_server.cc` | `WatchedSession` |
| `Servers` | the accept loops, threads, signals and `main` of the servers under `asio/`, around sessions | |
| `LoadClient` | `asio/echo/client.cc` and `co_client.cc`, in one | |
| `ProgramProofs` | theorems about `LoadClient` and `Servers` | |

The `MC*` modules only add symmetry sets to the module they extend. Definitions
introduced by "Faulty variant" take no part in a specification: each is what a
plausible slip would make of a definition after it, and the project pairs it
with the property that notices.

The two echo sessions share a module of theorems, and so do client and servers,
the two ends of a connection. To be told apart there, what has the same name in
both begins with `Co` in `EchoCoSession` and with `Server` in `Servers`, where a
session is `served` and the `io_context` is `halted`.

### SpscRingBuffer

Every access to shared memory is a step: `PushLoad` (lines 26-30), `PushWrite`
(32), `PushStore` (33), and the mirror image for `pop`. The atomics follow the
C++11 model rather than sequential consistency. An atomic is its modification
order, the sequence of all values stored; a load may return any of them that is
not older than what the same thread loaded before, and an acquire load of the
i-th store makes visible what its writer did before it. `tailSeen`, `tailAcq`,
`headSeen` and `headAcq` are what each thread has loaded and acquired. The slots
are ordinary memory: `published` and `released` name the store that publishes the
last write and the last read of a slot, so that a data race is a state in which
a thread is about to touch a slot whose last conflicting access it has not
acquired. `size`, `is_full` and `is_empty` use relaxed loads, which move
`tailSeen` but not `tailAcq`.

Left out: an element type whose assignment throws.

### ConcurrentBlockingQueue

What a thread does while it holds `mutex_` is one step, since every shared access
is under the mutex; the notifications of `close`, made after the unlock, are
steps of their own. A thread is idle, waiting for its first lock (`enter`),
asleep in a condition variable, or awake and waiting to lock again (`woken`).
`notify_one` wakes any sleeper. A sleeper may also wake for no reason, and a
timed one once its deadline has passed; `wait_for` evaluates the predicate a last
time after that. A copy or allocation in `push` and a move in `pop` may throw,
which unlocks without a notification. `accepted`, `delivered` and `ended` are
history variables. `size`, `empty` and `is_closed` change nothing and are left
out, as is an exception when `pop` moves the item into its result, after it has
left the queue.

### SharedPtr

The handles are global, and a thread may use any handle no other thread is using:
this is the widest use the callers' contract allows. Every read-modify-write of a
counter is a step, and so are the deleter and `delete`. The constructors and
assignments touch shared state once, with the increment, and so are one step;
what an assignment replaced is held by the thread until it is released in the
steps `DropUse`, `Dispose`, `DropWeak` and `Destroy`. `lock` loads the count and
then tries to increment it from the value seen. A block that was freed may be
allocated again, with handles and threads that knew its old life still around.
That the first load of `lock` is relaxed and may be stale needs no more: a stale
value differs from the current one, so the comparison fails, and zero, once
stored, is the last value.

The counters also have to order what one owner did with the object before what
another one's deleter does. `traced` and `aware` follow one access, by
`operator*` or by the deleter, through the happens-before relation of the C++
model: from a thread to the handles it used, from a handle to the next thread
that uses it (the callers have to order these), and through a counter only at an
operation that is `acq_rel`. A relaxed increment keeps the release sequence and
learns nothing. Since the access is arbitrary, one is enough; `DisposedAfterUses`
says that whoever deletes knows of it.

### UniquePtr

Sequential, but not simple: every object has one handle as a member, so that
handles may form lists and rings, and while an object is being deleted its
destructor may call any operation on any handle, the one on whose behalf it is
deleted included. `stack` holds the deletions in progress. `reset` and the
assignments put the new pointer in place before the old object is deleted, which
is what `OwnedOnce` depends on. Every handle carries its deleter, an object's
`due` is the one it was put under.

### LruCache

A call is one step, by the mutex in one class and by the single user in the
other. Nodes have addresses that are reused. `put` may throw at the allocation of
the node and at that of the map entry. `held`, `since` and `dangling` follow the
pointer the last `get` of a client returned; `order`, `latest` and `result` record
the calls for the comparison with `LruPolicy`. Moving an element to the front
(`ToFront`, and `MoveToFront` of the policy) is said by positions and not with
`SelectSeq`, of which the prover knows nothing.

### ProxySession

One thread runs the `io_context`, so a handler is one step; what happens between
handlers are completions of operations, timers that go off, and the clock. Boost.
Asio is modelled from its use: closing and cancelling fail what is pending but do
not recall a handler already queued; what is started on a closed socket fails.
Times are relative, so that no clock grows. `HandleConnect` lets any time up to
`timeout_` pass between the setting of the deadlines and the start of the
watchdogs, and between the readings of the clock by the two. So the first watchdog
may stop the session and the second then be armed on it, or the second stop it and
cancel the wait of the first. The session is gone when no handler holds it. A
closed session nothing holds any more is both closed and gone; `State` calls it
gone, as the session it stands for in `WatchedSession` cannot come back.

`WatchedSession` is the promise: open, with operations under way; failing, once an
operation has failed; ending; gone. It ends only when it is failing or a peer is
due; it may not stay failing, nor stay open while a peer stays due, nor stay
ending. The last three are stated of states and not by fairness of the abstract
actions, because a session takes several steps for one of these. For the proxy
the peers are its two directions: one being idle is enough, whatever the other
does.

### EchoSession

`server` runs its `io_context` on several threads, and `start` runs on the one
that accepted the connection, outside the session's strand. So there are two
actors, the accepting thread and the strand, and each access to a member is a
step: `Begin` (starting an operation), `ReadClock` and `StoreDeadline`,
`CheckDeadline`, `SetExpiry` and `AsyncWait`, `Close` and `CancelTimer`. What
`start` leaves to do once its first receive is under way interleaves with the
handlers. `withTimeout` is the argument of `start`: with it, each operation has
a timeout of its own; without it, which is what `server::start` passes, a
watchdog sleeps until `deadline_`, which every operation moves. Asio and the
clock are as in `ProxySession`. The waits on `timer_` are kept as the set of
their states, since two waits in one state have handlers that do the same.

The two actors race on `deadline_`: `start` may compute a deadline, be delayed,
and store it after a handler has stored a later one. `overwritten` records that
this happened. Or `start` looks at `deadline_` when a handler has started an
operation and not stored its deadline yet (`StoreMissed`). Either way the watchdog
may stop a session that has just made progress. With timeouts a session that has
just made progress is stopped in another way: `cancel ()` does not recall a
`handle_wait` that is queued already, so that an operation may succeed after its
timer ran out and before the wait is handled; the handler of the operation goes on
with the next one, and the wait then stops the session. `StopsForCause` therefore
does not say that only idle sessions are stopped, which would be false. It says of
every step of either actor that turns to `stop ()` which cause it has: a failed
operation it takes up; for the watchdog, `timeout_` without an operation started or
one of the two races; with timeouts, a wait that had run out. And it says when a
wait may run out: only after `timeout_` without an operation started, or while the
handler that has started one has still to set the timer. No comment or test of the
code promises more, so that this is no disagreement with it. For the same reason
`due`, in the comparison with `WatchedSession`, counts besides a client that is idle
one for whom a wait has run out and is not yet handled, and both races (`Idle`).

### EchoCoSession

The coroutines all run on the strand and `start` only spawns them, so that what
one does until it suspends is a step. It differs from the callback version in
how a session ends: a failed operation ends the echoing coroutine and cancels the
timer, but does not close the socket, which is left to the destructor once the
waiting coroutine, too, has ended. A watchdog that was already due is not
cancelled and sleeps for another deadline (`CoImplementsSession` says that the
session goes away all the same).

As `start` is on the strand, the watchdog has no races here and closes the socket of
idle sessions only. With timeouts the wait that has run out and is resumed after its
operation has succeeded exists here, too: `CoStopsForCause` requires a wait that had
run out as the cause of the close, and that it ran out after `timeout_` without an
operation started; `CoImplementsSession` counts such a wait in `due`.

### Servers

`main` starts the accept loops, then the threads, serves with them in `run ()` and
joins them. `program` tells the four kinds of server apart: with threads and
signals or without, and what an accept that fails does (the daytime servers go
on, the callbacks of echo and proxy return and so end their loop, the coroutine
throws). A handler is a step on whichever thread takes it. An exception leaves
`run ()` on that thread: a worker ends, and `main`, unless it is alone, is
terminated in the destructor of its joinable threads. Of a session the model
keeps what `WatchedSession` says of it: open, ending, gone.

### LoadClient

Echo threads, each with its sessions; the monitor; `main`; SIGINT. Every change
of an atomic counter is a step, since the monitor reads them between any two.
`coroutines` says which of the two programs it is: they differ in the order in
which a failure is counted. The connections are divided among the threads
rounding up, so that there may be more sessions than the monitor waits for
(and than `client.cc:205` prints); together with the moment between the two
counts of a connection this makes the monitor overlook some sessions, and
`MonitorMissesFew` says how many at most. A thread that cannot create its
sessions (`FailThread`) leaves the monitor waiting for connections that are never
attempted; only SIGINT ends that run, which is why `StopEndsProgram` speaks of
`stop` and `EndsWithItsSessions` of sessions that exist and have ended. `echoes`
is only printed and is left out.

## Runs

| run | instance | states | shows |
|---|---|---|---|
| `spsc_safety` | ring of 3, 6 pushes, 2 values | 38 thousand | no data race, order, capacity, and the promises of `size`, with every stale load |
| `queue_safety` | 4 threads, queue of 2, 6 calls, an exception on each side | 850 thousand | no wakeup lost but to exceptions, close, end of stream, order and capacity |
| `queue_live` | 3 threads, queue of 1, 4 calls | 74 thousand | blocked calls return after close, timed ones in any case |
| `shared_ptr_safety` | 3 threads, 2 + 2 handles, 2 blocks, any number of calls | 235 thousand up to symmetry | exact counters, no use after free, no leak, no resurrection, uses before the deleter |
| `unique_ptr` | 2 variables, 3 objects, any number of calls | 636 thousand up to symmetry | one owner, one deletion, by the right deleter |
| `lru_policy` | 3 places, 4 nodes, 4 keys, 2 values | 36 thousand | every answer is the policy's |
| `lru_exceptions` | 2 clients, 2 places, 3 keys, 2 exceptions | 76 thousand | list and map agree but for one node per exception, pointers live long enough |
| `proxy_session` | one session, timeout of 3 ticks | 17 thousand | both directions served and watched; sessions end for cause, and then go away |
| `echo_session` | one session, timeout of 3 ticks, watchdog and timeouts | 14 thousand | `start` beside the strand: one operation, never unwatched, ends for cause, goes away |
| `co_session` | one session, timeout of 3 ticks, watchdog and timeouts | 1 thousand | the watchdog closes idle sessions only, timeouts run out for idle ones only, and all sessions end |
| `load_client` | 2 threads, 3 connections (4 sessions), both programs | 246 thousand | the counters agree, the monitor misses few sessions, the program ends |
| `servers` | 2 loops, 3 threads, 2 sessions, 2 exceptions, four programs | 82 thousand | servers end for cause, sessions leave whatever was lost, signals end the program |

Why the bounds are enough. The ring has 4 slots, so 6 pushes wrap both indices
and every slot is written and read again; the proofs remove the bound. In the
queue, a wakeup is lost when one notification serves two waiters: that needs two
sleepers and two calls of the other side, and 4 threads with 6 calls leave room
for a close or a third call as well. In `SharedPtr` every interleaving of three
releases or locks of one block is there, and a second block gives assignments
that let go of one block and take another; nothing is bounded but the handles.
In `UniquePtr` three objects make a deletion within a deletion within a deletion,
and a ring of handles.
In the cache, one key more than places makes every put an eviction sooner or
later. In the sessions, three ticks let one deadline pass between, before and
after the other; the proofs about the sessions hold for every timeout. Three
connections on two threads is the smallest number that is rounded up, and leaves
a thread two sessions whose handlers exclude each other. In `Servers` two
exceptions may take two of three threads, or a thread and a loop, and leave one of
the other kind.

`MaxPushes`, `MaxCalls`, `MaxThrows` are bounds of the models and not of the
code. Deadlock is not checked where a behaviour may really stop: the queue when
the calls are used up or everybody is asleep (which is legitimate for callers
that stop calling), a proxy session when it is gone, and a server program that has
ended. The other models always have a step, the clock's or another SIGINT, so what
must not get stuck there is a liveness property.

Symmetry is used where addresses, items or threads are interchangeable, and only
in runs without liveness properties.

Some of what can go wrong the code really does, when memory runs out or two threads
meet at the wrong moment. There a property does not exclude it, it says how far it
goes and that nothing else has the same effect:

- `NoLostWakeup`: a call of the queue that throws may keep the one wakeup it consumed
  from another waiter; as many wakeups are lost at most as calls threw;
- `MapAgreesWithList`: a `put` that throws after the node was pushed leaves a node
  that no key leads to; there are as many at most as calls threw;
- `StopsForCause`, `CoStopsForCause`: a session may be stopped after it went on, by a
  wait that had run out, or in the callback version by two races of `start`;
- `MonitorMissesFew`: the monitor may end a run with fewer than two sessions per
  thread not finished, which in a small run may be all;
- `StopEndsProgram`: with a thread lost the monitor waits for ever, until SIGINT;
- `EndsForCause`: a refused accept costs the coroutine server a thread or all of the
  program, and an exception on `main` terminates a program that has threads.

## Fairness

- Queue: weak fairness of each thread that is not asleep (the mutex is contended
  by finitely many calls), of the passing of deadlines and of the end of a wait
  whose deadline has passed. Spurious wakeups have none.
- ProxySession: queued handlers run, clocks advance, timers fire, a connection
  attempt ends. Peers owe nothing: a pending operation may stay so for ever.
- EchoSession: the same, and the accepting thread goes on. Several queued handlers
  compete for the strand, each of which is taken up in its turn: strong fairness,
  since a handler is enabled only while the strand is free.
- EchoCoSession: a coroutine that can run does, clocks advance, timers fire.
- LoadClient: the threads, the monitor, `main` and a handler under way go on. The
  network owes nothing, and nobody need send SIGINT.
- Servers: `main` and the threads go on, and a handler that is queued is taken by
  some thread that serves. Accepts, the ends of sessions and signals have none.

Liveness of the ring and of `SharedPtr` is not checked: each has only loops of its
callers, and what it owes them is in the safety properties (`NoRefusalAfterSize`
says when `push` and `pop` may not fail, `NoLeak` that nothing unowned remains).

## Proofs

`SpscRingBufferProofs`, for every capacity, set of items and number of pushes:

- `TypeCorrect`: type correctness;
- `NoRace`: `NoDataRace`;
- `SizeConservative`, `NoRefusal`: the two promises of `size`;
- `Implements`: the ring implements `BoundedFifo`;
- `SizeInRange`: `size` of any two indices is in `0 .. Capacity`.

The assumption is that the capacity and the bound on pushes are natural numbers.
The invariant `IInv` is needed because the properties speak of indices, which
wrap, and hold for reasons that do not: it counts stores. `Ring` says that the
j-th and i-th value of `head_` differ by j - i modulo Capacity + 1 and that the
values of `tail_` repeat those of `head_`, so that two stores at most Capacity
apart that name one slot are one store (`SameSlotSameStore`). `Distances` bounds
by Capacity how far each side is from what it has acquired of the other, so the
tests of `push` and `pop`, whatever value they load, say exactly that the distance
is Capacity or zero (`FullTest`, `EmptyTest`). `SlotUse` ties the last write and
read of a slot to stores that name it, and `Contents` says that the slots between
`tail_` and `head_` hold what was pushed. A step that disturbs a conjunct has one
step in the proof of its lemma (`RingStep`, `DistancesStep`, `SlotUseStep`,
`ContentsStep`).

`EchoSessionProofs`, for every timeout and both ways of noticing idleness:

- `TypeCorrect`: type correctness;
- `OneOperationAtATime`: `OneOperation`;
- `NeverUnwatched`: `Watched`;
- `StoppedForCause`: `StopsForCause`;
- `ImplementsSafety`: every step is one of `WatchedSession` (`Session!Spec`, the
  safety part of `ImplementsSession`).

The assumption is that the timeout is a positive natural number. `Watched` speaks
of the moments at which nobody is at work, and is not inductive: `Underway` and
`Armed` say of all other moments who is going to start the next operation and the
next wait. `Control` bounds how far the accepting thread can be while the strand
works already: as long as `start` has not armed the watchdog, no wait exists. The
timing argument is `Deadlines` and `Expiries`: the time left until a deadline,
and the time the session has been idle, make up at least the timeout, for the
stored deadline and for the ones computed and not stored yet. The clock moves one
part to the other, an operation resets the one and its `StoreDeadline` the other,
and a store over a later deadline is exactly where it breaks; with timeouts it breaks
only while the handler that has started an operation has the timer to set. The refinement rests
on a few facts about single steps: what is ending stays so (`StaysEnding`,
`StaysGone`), a failure remains until it ends the session
(`StaysFailed`), and a session that closes had failed or was due (`EndsForCause`).

`ProxySessionProofs`, for every timeout:

- `OneAtATime`: `OneOperationPerDirection`;
- `AlwaysWatched`: `WatchdogsArmed`;
- `ImplementsSafety`: as for `EchoSession`.

The invariant adds to the two properties that before `handle_connect` has run there
is nothing but the connect (`Connecting`), and splits the number of operations of
a direction into at most one (`Single`), always, and at least one while it relays
(`BothUnderway`). A handler that starts the next operation has consumed the one
it follows, and `HandleConnect`, the only step that starts without consuming,
finds none: that is what `Connecting` is for.

`EchoSessionProofs` again, about `EchoCoSession`, for every timeout and both ways of
noticing idleness:

- `CoTypeCorrect`: type correctness;
- `CoStoppedForCause`: `CoStopsForCause`;
- `CoImplementsSafety`: as for `EchoSession`.

The coroutines suspend with everything stored, so that the clocks obey equations
where the callbacks have inequalities: `DeadlineRuns` (time left and time idle make
up the timeout exactly) and `ExpiryRuns`. Both hold only once the first operation
was started, and `EchoFirst` says that no other coroutine runs before that, since
they are spawned in this order, and that its result is still pending.

`ConcurrentBlockingQueueProofs`, for any number of threads, capacity, calls and
exceptions:

- `WakeupsSuffice`: `NoLostWakeup`;
- `EndIsFinal`: `NulloptIsFinal`;
- `Implements`: the queue implements `BoundedFifo`.

The assumptions are a finite set of threads and natural bounds. `NoLostWakeup` is
split into `PopsWakeUp` and `PushesWakeUp`, which are inductive together with the
types: the items beyond those that pops already awake will take are not more than
the exceptions that swallowed a notification. The proof follows what one step
does to the two sides of this inequality: a push adds an item and takes a
sleeper out of the set or finds none; a sleeper that gives up or wakes by itself
makes the right side larger. For the refinement `InOrder` says that the items
accepted are those delivered followed by those queued; that `pop` at the end of the
stream finds nothing and that nothing is accepted after it is `EndedForGood`.

`SharedPtrProofs`, for any number of threads, handles and blocks:

- `TypeCorrect`: type correctness;
- `CountersExact`: `CountsExact`;
- `NothingFreedInUse`: `NoUseAfterFree`;
- `NothingLost`: `NoLeak`;
- `UsesBeforeDispose`: `DisposedAfterUses`;
- `ExpiredIsFinal`: `NoResurrection`.

The assumptions are finite sets of threads and handles. `Held` counts for each
block the handles and the threads on their way to one of the four steps of a
release, ties both counters to these numbers, allows one thread each at the deleter
and at the `delete`, and fixes by the numbers in which state the object is.
`CountsExact` alone is not inductive, as it does not say that the last decrement
happens once; with `Held`, each of the four safety properties is a look at one
state. `LockHolds` says that the `weak_ptr` a `lock` is working on still leads to
the block whose count it has seen. `Known` is the argument for the memory orders:
as long as there are owners, either the counter (the release sequence in
`use_count`) or one of them knows of the access that is followed; so the last
decrement, which reads the counter and is made by the last owner, knows of it in
both cases, and hands it to the deleter. After the deleter the same holds of
`weak_count` and the observers.

`UniquePtrProofs`, for any number of variables, objects and deleters:

- `OwnedExactlyOnce`: `OwnedOnce`;
- `DeletedRightly`: `DeletedByItsOwn`.

The assumptions keep variables, objects and `nullptr` apart. `OwnedOnce` counts; the
invariant says the same with the handles (`Sole`, `Live`, `Reached`) and the stack
(`StackSound`), and adds `Fresh`: a handle inside an object that does not exist is
empty, so that what an address held before cannot be inherited. An object that is
being deleted is not reached by any handle in use, because each of the operations
takes the pointer out of its handle before the deleter runs; destructors may then
do what they like, their steps being steps like all others.

`LruCacheProofs`, for every capacity, and any number of clients, keys, values,
nodes and exceptions:

- `MapAgrees`: `MapAgreesWithList`;
- `PointersLast`: `PointerOutlivesOtherKeys`;
- `Implements`: while no call throws (`MaxThrows = 0`), the cache implements
  `LruPolicy` (`ImplementsLru`).

The assumptions are a positive capacity and a finite set of nodes that is not
smaller. Three things have to be carried along. `ListSound`: the list holds no
node twice. `FewOrphans`: when room is made, the entry that goes is that of the
key in the last node, which may lead to another node if the last one was left
without an entry by an exception; then one node without an entry goes and one
comes, so that their number never exceeds the exceptions (`Room`).
`SinceCounts`: the keys of the nodes ahead of the one a client holds have been used
since. A node is only evicted as the last of a full list, so `Capacity - 1` nodes are
ahead of it, which are as many keys but for the nodes without an entry, and the key
being put is one more (`Evicted`). For the refinement, `Recent` says that the list
is the beginning of the policy's order, up to `Capacity`; a key that is not cached
may be further back in that order, or not in it (`NewInFront`), and the key that
loses its entry is the one in place `Capacity` (`FreesTheOldest`). With exceptions
this is false: a call that threw has used its key, or has made room for nothing.

`ProgramProofs`, about `LoadClient`, for any number of threads and connections:

- `CountersAlwaysAgree`: `CountersAgree`;
- `FewAreMissed`: `MonitorMissesFew`.

The assumptions are that the threads are finitely many, and one at least. The
counters are compared with a cardinality, and neither property is inductive:
`Counts` says of each counter by itself that it is the number of sessions in
certain steps (`Attempted`, `Active`, `GivenUp`; the two programs differ in where
`"breaking"` belongs), which every handler keeps because its counter and its session
move together (`Moved`, `Handles`). `CountersAgree` is then a sum over a partition
of the steps. For `MonitorMissesFew`, `OneHandler` (a thread is in one handler at a
time, so that its sessions between their two counters are one at most) and
`RoundedUp` (rounding adds fewer sessions than there are threads) bound what is left
when the monitor has seen every connection attempted and none active
(`FewWithoutActive`); `FewLive` keeps this bound until the monitor acts on what it has
seen, as no step makes a session live again.

`ProgramProofs`, about `Servers`, for any loops, threads, sessions and exceptions:

- `ServersEndForCause`: `EndsForCause`.

The one assumption needed is that the bound on exceptions is a natural number. The
invariant remembers how `main` got where it is: every loop was started if it went on
(`LoopsUp`); a program with signals has one to wait for until it is stopped, and the
others have no threads and are never stopped (`Stoppable`); `run ()` was left for one of
its two reasons (`ServedOut`), or by an exception that is accounted for
(`DiedRightly`, with `ExceptionLeaves` for what leaving by one does to the thread).

Only model-checked: all liveness
(`CloseReleasesAll`, `TimedCallsReturn`, the liveness in the `ImplementsSession` and
`CoImplementsSession` of the sessions, `StopEndsProgram`, `EndsWithItsSessions`, `SessionsLeave`,
`ServerEnds`), which the prover does not do. The theorems on refinement of the
sessions therefore say `Session!Spec` and not `Session!FairSpec`. Every other
property of the runs, safety and refinement, has a theorem.

## Not modelled

Left out, and why:

- the timer examples `asio/basic`, the clients in `asio/socket` (01, 02, 04, 05) and
  `asio/coro`: each is a fixed sequence of calls, or in `basic/05` two handlers
  that each are one critical section, with no order of events to get wrong;
- `asio/socket/03/co.cc`: its connection may be destroyed while its write is
  pending, which depends on how Asio resumes a partial write, below what the
  other models assume of it;
- the library in `system/`: a table of codes and conditions, and two styles of
  reporting it, without state;
- the debug helpers and the build files;
- the bytes that sessions relay, the numbers programs only print, `get_deleter ()`
  of `unique_ptr` used to assign a deleter, and element types whose move throws.
