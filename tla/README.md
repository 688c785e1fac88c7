# A TLA+ model of uav-rf-detector

The repository holds a backend that will receive detections from a radio
receiver, a desktop client, the logger both use, and the container library the
backend is going to keep its clients in. This directory models what of it runs concurrently,
checks it with TLC and proves with TLAPS, for every size, what it checks of safety.

    tlc -workers 2 -config EchoServer_loop.cfg EchoServer.tla
    tlc -workers 2 -config Deployment.cfg Deployment.tla
    tlc -workers 2 -config SharedLog.cfg MCSharedLog.tla
    tlc -workers 2 -config CuckooTable_insert.cfg MCCuckooTable.tla
    tlapm CuckooLocksProofs.tla
    tlapm CuckooTableContents.tla
    tlapm CuckooTableProofs.tla
    tlapm SharedLogProofs.tla
    tlapm DeploymentProofs.tla

## 1. The system

### Parts

| Part | Source | State | Operations |
|---|---|---|---|
| Echo backend | `uav-rf-detector-backend/core/src/app/main.cpp` | the listener coroutine, one session coroutine per connection with its websocket stream and the buffer of its iteration | `do_listen`, `do_session`, their completion handlers, `main` |
| libcuckoo map, locks | `.../extern/include/libcuckoo/cuckoohash_map.hh` | `all_locks_`, the spinlocks, the hashpowers of `buckets_` and `old_buckets_` | `lock_one/two/three`, `snapshot_and_lock_two`, `lock_all`, `AllUnlocker`, `cuckoo_fast_double`, `cuckoo_expand_simple`, `rehash`, `reserve`, `lock_table`, `clear` |
| libcuckoo map, contents | same file, `bucket_container.hh` | slots of the buckets, element counters and `is_migrated` of the locks, the count of locks not migrated | `insert`, `uprase_fn`, `find_fn`, `erase_fn`, cuckoo paths, `rehash_lock` |
| libcuckoo map, arithmetic | same file | none | `index_hash`, `alt_index`, `partial_key`, `reserve_calc`, path codes, the split of `parallel_exec` |
| Client | `uav-rf-detector-client/app/src/main.cpp` | a `QWebSocket` and four callbacks on it, three of which hold a reference to a local `unique_ptr` | `createTestJRPCQWebsocketClient`, the callbacks, `main` |
| Client UI | `uav-rf-detector-client/app/assets/qml` | QML properties | layout, mock data |
| Logger | `lib/utils/logger.{h,cpp}`, the same text in both programs | spdlog's queue of 8192 entries, one worker, a rotating file and the console | `LOG_CAT`, `log_info` and its siblings, `sinksVector`, `initThreadPool` |
| Protocol files | `core/files/proto` | none | messages of a gRPC interface no code uses |

### How they interact

`main` starts `do_listen` on an `io_context` that ONE thread runs (line 127
fixes the number). The listener awaits a connection, starts `do_session` for it
with `co_spawn` and awaits the next one; it does not await the session. Sessions
share nothing but the thread and the log. A session ends by an exception only:
its completion handler logs it. The client opens a websocket to the backend,
sends a text once it is connected and logs what comes back. Both programs log
through an asynchronous logger that blocks its caller when the queue is full.
In the backend that caller is the one thread of the `io_context`. Started in the
same directory the two programs rotate the same log files.

The map is not used by `main.cpp` yet. It is built into the backend's target
(`core/src/CMakeLists.txt`) and the task list
(`uav-rf-detector-docs/current_tasks.md`) keeps the connected clients in it, as
soon as there is more than one thread. It is third-party code by origin, and
still the part of the backend where concurrency is hard; it is why the project
models it at all.

### What is hard

* Backend: where an exception goes (an exception type the loop does not catch,
  an `error::closed` that is swallowed, a listener that fails while sessions
  live), peers that vanish or close in the middle of a message, reply state
  (`ws.text`) that belongs to the stream and not to the message.
* Map: hashpower, bucket indices and lock list are read before a lock is taken
  and used after it; a resizer replaces the lock list other threads wait in;
  threads that hold one to three locks meet threads that take all of them;
  locks are released on exception paths two calls up. An insert lets go of its
  buckets, notes a path of keys to move under one lock at a time, and walks it
  back under two; elements are migrated after a doubling by whoever comes first;
  counters belong to locks, elements move between them; a rebuild may throw half
  way.
* Client: callbacks that refer to a local variable of a function that has
  returned, a text sent before there is a connection, ends of client, connection
  and server in any order.
* Logger: a queue at its limit that holds up the server, lines still queued when
  `main` returns, a sink that throws, two processes that rename and truncate one
  another's files.

`PROJECT.json` lists each hazard at its line, with the properties that watch it.

### What makes the parts correct

* Backend: replies are what was sent, in order and with the right type; at most
  one message is between read and reply; a session ends only for a reason of its
  own peer; a closed connection ends its session; connections get sessions
  however many others wait.
* Client and backend together: a client gets its greeting back and nothing else;
  whoever is left learns that the other is gone.
* Logger: every line reaches the console once and in order, before the program
  ends; files hold the lines of a program in order and stay small; logging only
  delays.
* Map locks: no two threads in a bucket; a resizer alone; nothing is used after
  the hashpower moved; locks released by their owners, all of them; no lock
  index out of bounds; every operation returns.
* Map contents: the concurrent operations implement a map; no slot holds two
  elements, no key is in two places or where nobody looks for it; the counters
  add up; the old buckets go when, and only when, the last lock is migrated;
  every search for a path ends.

## 2. The modules

| Module | Lines it models | What it is |
|---|---|---|
| `EchoServer` | `main.cpp` 36-158 | the backend, an action per resumption of a coroutine |
| `EchoServerProofs` | | its theorems |
| `AsyncLogger` | `logger.h` 20-47, `logger.cpp` 6-22 | the queue between a program and its sinks, from the first log call to the end of the program |
| `AsyncLoggerProofs` | | its theorems |
| `SharedLog` | `logger.cpp` 6-14 of both programs | the rotating file, as all programs in a directory share it |
| `MCSharedLog` | | the instance with both programs |
| `SharedLogProofs` | | the refinement of `AsyncLogger`, and what can be relied on in the shared files |
| `Client` | client `main.cpp` 13-58 | the websocket client, an action per event |
| `Deployment` | `main.cpp` 105-161, client `main.cpp` 17-58 | backend, clients and the backend's logger, composed |
| `DeploymentProofs` | | the refinement of `EchoServer`, and the greetings |
| `BucketAccess` | the comments at `cuckoohash_map.hh` 1062-1068 and 1088-1089 | what the locks promise to the code between lock and unlock |
| `CuckooLocks` | `cuckoohash_map.hh` 821-1115, 1193-1216, 1355-1406, 1478-1543, 1676-1908, 2000-2015 | the locking protocol |
| `ConcurrentMap` | `cuckoohash_map.hh` 329-344, 454-706 | what the map promises to its users: calls take effect one at a time on a function |
| `CuckooTable` | `cuckoohash_map.hh` 454-2119, 2377-2690, `bucket_container.hh` 60-108 | the contents: paths, migration, counters, resizing |
| `MCCuckooTable` | | keys with chosen buckets, and the calls of each run |
| `CuckooTableContents` | | what sound contents are, and what moving, adding, removing and doubling does to them and to the sums of the counters |
| `CuckooTableProofs` | | its theorems: the contents, the counters, the refinement of `ConcurrentMap` |
| `CuckooLocksTypes` | | types and lock indices, proved for every size |
| `CuckooLocksProofs` | | exclusion and the refinement, proved for the default size |

### EchoServer

`session[c]` is the `co_await` at which the coroutine of connection `c` stands:
`handshake` (`async_accept`), `reading`, `writing`. Because a single thread runs
all coroutines, everything between two `co_await`s is one action. `sent` and
`echoed` are what went over the wire, `nread` how many messages `async_read` has
delivered, `buffer` and `textMode` the state from which the reply is made.
`IterationStarts` is the top of the loop with its JSON placeholder; it is part of
every action that gets there. `JsonThrows` says whether `json.get_to(json_string)`
throws. With nlohmann::json it does, as the value is an object; the constant
exists so that the loop behind it can be examined as well. The `Peer...` actions
are the network and the peers; a peer may send a bad request, stop at any point,
close, or vanish, and it goes on sending until it notices that the server is gone.
It may also be `faulty` (`PeerErrs`): it sends a message that is too big or breaks
the protocol, or no longer reads and answers. What it sent before is echoed, and
then its session ends although the peer is still there.

| Action | Code |
|---|---|
| `ListenerOpens`, `ListenerFails` | 92-103; an exception of these calls or of `async_accept` ends `do_listen`, 136-147 |
| `Accept` | 105-108, `co_spawn` |
| `SessionStarts`, `HandshakeDone`, `HandshakeFails` | 38-54, outside the `try` |
| `ReadDone`, `WriteDone` | 70, 73-74 |
| `ReadClosed` | `error::closed`, swallowed at 78, and the loop goes round |
| `ReadFails`, `WriteFails` | rethrown at 79: the peer is lost or faulty (`Unreadable`), or this is the second read of a closed stream |

### AsyncLogger and SharedLog

`proc` is what the program's one logging thread is doing: `running`, `posting`
(in `post_log`, maybe for want of room), `exiting` and `joining` (static objects
being destroyed), `ended` when `main` and the destructors are through, `dead`
after a kill or `std::terminate`. `made` says that `log_cat()` has created its
static objects. Lines are numbers; `queue`, `taken` and `todo` are the pool's
queue, the line in the worker's hands and the sinks that are still to get it;
`out` and `missed` are histories of the sinks.

| Action | Code |
|---|---|
| `Call`, `CallFiltered` | a log macro, `logger.h` 30-47, with `LOG_CAT`, 20-28 |
| `CallThrows` | `sinksVector` cannot open its file, `logger.cpp` 8-11; nobody catches it |
| `Post` | `async_overflow_policy::block`, `logger.h` 26 |
| `Exits`, `PostTerminate`, `Terminate` | destruction of the static objects in reverse order; the registry, first used by `initThreadPool`, goes last and takes the pool with it |
| `Take`, `Write`, `WriteThrows`, `Kill` | spdlog's worker and sinks; the operating system |

`SharedLog` extends it with the directory: `file` maps the names in use (0 is
`log_filename`, k is `log_filename.k`) to what is on disk, `handle` is the name
that a process's open file has by now, however often it has been renamed, `size`
the sink's own count, `buf` the stdio buffer. A rotation closes the file, goes from
the highest number down, looks whether there is a file (`Check`), removes the one it
is going to replace (`Remove`) and renames it (`Rename`), and reopens `log_filename`
truncating it. The other process may do anything in between, its own rotation
included. A rename that finds its file gone is tried a second time, removal
included (`TryAgain`); if that finds none either the sink truncates the newest file
and throws (`RenameFails`), and file k has been removed for nothing. This is the
only reason for which a rename fails here: both programs may write to the directory.
The file is closed when the last one to hold the sinks lets go of them (`CloseFile`):
the static objects, or a line that is still in the queue or in the worker's hands.
That may be before the worker meets the terminate message (`Ends`). The file system
is POSIX's. A line is written whole: that the stdio buffer may cut one in two is
left out.

### Client and Deployment

`Client` has one action per signal, with the lambda that `main.cpp` connects to
it. The three lambdas that capture `&socket` refer to main's `pWebSocket` only if
the compiler elides the move of the returned local, which C++ allows and does not
require. `Elided` is FALSE in the run: then a lambda may crash the client
(`Crashes`) or find the old pointer and go on, and so the run covers the good
case too. What the client logs is left out.

`Deployment` joins them. A client is the peer of one connection of `EchoServer`:
its actions are joint actions with `PeerConnects`, `PeerSends`, `PeerCloses` and
so on, and the peers do nothing else; Qt's are never faulty. `SessionStep` adds to a resumption of
`do_session` the completion handler that logs (`CompletionHandler`); no coroutine
runs while the thread is `posting`. `BackendExits` is `ioc.run()` out of work.

### CuckooLocks

A thread walks through `snapshot` (line 1072), `get locks` (the lock list is
read), `first` (the first lock), `check` (`check_hashpower`), `more`, `using`.
`snap`, `buckets` and `cur` are what it remembers, each read at its own step, so
that any other thread can act in between. A key is the set of its two
buckets, and any set may be one: every hash function is covered. `Cuckoo` is
`run_cuckoo`, which gives the buckets back and then locks one, two or three at a
time with the old snapshot; `KeepTwo` is the end of `cuckoopath_move`.

A thread that takes all the locks does so for one of four jobs: `double`
(`cuckoo_fast_double`), `expand` (the automatic `cuckoo_expand_simple`, used when
data is not nothrow movable), `rehash` (`rehash` and `reserve`), `table`
(`lock_table` and `clear`; a `locked_table` may resize as often as it likes). It
is `locking` list by list, then `alone`, then `swap`/`set` as the hashpower is
moved, then `unlocking` list by list up to the end of the lists as it is then.
`held` is a history variable, the locks a thread took and has not given back;
the code has it as the lock managers on the threads' stacks.

Memory is sequentially consistent here. Hashpower and locks are atomics with
acquire and release order; `all_locks_` is a `std::list` that
`get_current_locks` reads with no lock while `maybe_resize_locks` may append to
it, a data race that the model takes to yield the old or the new last list and
nothing worse. What can break is thus a lower bound in small maps; in maps of
the default size no list is ever appended and the question does not arise.

### CuckooTable and ConcurrentMap

`CuckooTable` takes the locks for granted. What a thread does between taking the
locks of its one to three buckets (or all of them) and giving them back is ONE
action, because `CuckooLocks` shows, and section 5 proves for maps of the
default size, that nobody else is in those buckets meanwhile; `InitHp` is
therefore at least the hashpower of `MaxNumLocks`, and the lock list never
changes. `Enter` is the start of such a section: no other thread has a
`locked_table` (`MayEnter`), `check_hashpower` passes, and `rehash_lock` migrates
what still waits under these locks (`Arrived`, `Migrate`).

`stored` and `old` are the elements of `buckets_` and of `old_buckets_`, each
with its bucket and slot; a slot is occupied if an element is there. Elements of
`old` that have been migrated are gone from it, although their husks stay in
memory until the last lock is migrated. An element's `tag` is the key whose partial
is kept in its slot. `unmigrated` and `remaining` are the
flags and the count of `rehash_lock`, kept apart as in the code. `snap`, `queue`,
`code` and `path` are what an insert remembers from one section to the next.

| Action | Code |
|---|---|
| `Begin` | the public member functions, 454-706; those of a `locked_table`, 2486-2646, if the thread has it |
| `Snapshot`, `HashpowerChanged` | 1062-1082; the exception in `run_cuckoo`, 1399-1404 |
| `Misses`, `Finds` | `find_fn`, `update_fn`, `erase_fn` from lock to unlock |
| `InsertMeets`, `InsertAdds`, `InsertSearches` | `cuckoo_insert`, 1236-1259, with the functor of `uprase_fn` |
| `SearchFinds`, `SearchGoesOn` | a turn of `slot_search`, 1640-1665; the queue empty means the table is full |
| `Trace` | a turn of `cuckoopath_search`, 1440-1465 |
| `MoveNone`, `MoveOne`, `MoveFails` | a turn of `cuckoopath_move`; the last one holds both buckets of the key and goes on to `Lands`, 1277-1282, and `add_to_bucket` |
| `MoveThrows` | `setKV` of `cuckoopath_move`, 1533, throws before or after the key was moved, and with it the call |
| `Doubles`, `Overtaken`, `Refused` | `cuckoo_fast_double` and `check_resize_validity` |
| `ExpandsSimple`, `FillFails` | `cuckoo_expand_simple`, and an insertion of it that throws |
| `Rehashes`, `NoRehash` | `cuckoo_rehash`, `cuckoo_reserve`, whose first test takes no lock |
| `Clear`, `LockTable`, `UnlockTable` | `cuckoo_clear`, `locked_table`, `unlock` |
| `ReadCounter`, `SizeReturns` | `size()`, a counter at a time |

What is abstracted: a hash is two numbers per key, `Hash1` and `Hash2`, whose low
bits are the two buckets. `AltIndex` leads from either bucket of a key to the other
and grows by one bit at the top with each doubling; from a bucket that is neither it
flips the bits in which the two differ (`Xor`), as `alt_index` does. Partial keys,
which only spare comparisons in most places, occur where they decide something: a
search for a path goes by the tags of the elements.

`cuckoo_expand_simple` inserts the elements into a private map, perhaps by
several threads at a time; the model takes any arrangement of them in their own
buckets, and any size from the one asked for that holds them (`Fillings`), which
is more than the code can produce. The private map has no `maximum_hashpower`, so
that the table may end up above `Limit`, which binds what is asked for only. One
thing is left out: with `max_num_worker_threads` set, several threads fill a
private map that may be small, and could meet there what `locks_transient` shows.

Data that is not nothrow movable may throw when it is moved (`MovesThrow`). In a
rebuild the elements before the one that throws have become husks (`Husk` is the
key of a moved-from element) and the element itself is taken to be intact, the best
case (`FillFails`). On a path the element that throws stays in its slot, intact or
as a husk, which still has its tag (`MoveThrows`). Husks are equal to one another,
so the next rebuild keeps one of them. That the new element's own constructor or a
functor throws, under the locks, is left out.

`ConcurrentMap` is the map of its users: a function from keys to values, the
pending call and the last answer of each thread, and the thread that has a
`locked_table`. `Answer` says what each call may return and do. Two calls promise
less: `size()` returns any number unless its caller has the `locked_table`, and
`size()` and a rehash with nothing to do return even while another has it. A
call may also end with an exception, and then leaves the map alone.

## 3. What is checked

`deployment` takes two minutes with two workers, `table_insert` (91,000 states, with
liveness) and `shared_log` (735,000 states) about one each, every other run less.

| Run | Instance | Result |
|---|---|---|
| `echo_loop` | 2 connections, 2 messages, text and binary | all properties hold |
| `echo_shipped` | 1 connection, the placeholder throws | `EchoesAll` violated |
| `deployment` | 2 clients, 2 texts, a log queue of 1 entry, client and backend may be killed | `OnlyGreetings`, `ImplementsEchoServer` and three liveness properties hold |
| `shared_log` | backend and client, 4 and 1 lines, a queue of 2 entries, files of 1 line, 2 older files | safety and `ImplementsLogger` hold |
| `locks_default` | 2 threads, both resize, all jobs; 2 locks, 2 to 4 buckets | safety, `ImplementsBucketAccess`, `OperationsReturn` hold |
| `locks_small` | 2 threads, all jobs; 1 to 4 buckets, lists of 1, 2, 4 locks, up to three different ones for one thread | `LockIndexInRange`, `NoDeadlock` hold |
| `locks_transient` | a reader and a doubling thread in a small map | `ResizeAlone` violated |
| `table_insert` | 2 threads, 3 keys, insert, erase, find; nothrow movable data, so doublings and lazy migration; 2 locks, 2 to 4 buckets of 1 slot | types, slots, keys, buckets, counters, `ImplementsConcurrentMap` and `CallsReturn` hold |
| `table_whole` | 2 threads, 3 keys, 2 values, all other calls; 2 locks, 2 to 4 buckets of 2 slots | slots, buckets, `MigrationSound`, `ImplementsConcurrentMap` hold |
| `table_rebuild` | inserts, erases and rehashes of 2 threads, data whose moves may throw: expansions make new tables | `InHomeBucket` holds |
| `table_throws` | the same calls, moves that throw, no minimum load | `StrongGuarantee` violated |
| `table_size` | inserts, erases and `size()` | `SizeNotNegative` violated |

### The properties

`EchoIsPrefix`, `OneMessageInFlight` relate the wire to the buffer; the mutants
that break them forget `ws.text` or do not await the write.
`EndsOnlyByItsPeer` says that failures stay where they happen: behind the
handshake a session ends only after its own peer left or broke the protocol.
`ClosedSessionEnds` says that swallowing `error::closed` makes no endless loop;
`ConnectionsGetSessions` that a listener in its loop is never held up by a
session.

`ImplementsEchoServer` carries what is checked and proved of `EchoServer` over to
the deployment: clients, log, crash and exit are nothing but peers and pauses.
`OnlyGreetings` follows a text from one program through the other and back.
`SurvivorsNotice` is about whoever is left when a client or the backend ends, in
any order; `LogOnlyDelays` and `GreetingAnswered` say that a full log queue delays
and does no more.

`NothingLostOrSwapped` accounts for every line logged: console, worker or queue.
`WrittenBeforeExit` is about the order in which static objects go.
`NewerFilesHoldNewerLines`, `FilesStaySmall` and `LoneLogIsKept` say what can be
relied on in files that two processes rotate: lines of one process are in order,
files have at most one file's worth per process, and a process on its own loses
only the oldest lines. More cannot be: a process that reopens `log_filename`
truncates it even if the other has just created it, and lines that one wrote a
moment ago are gone. `ImplementsLogger` shows that none of this reaches the
console or the program.

`BucketExclusion`, `ResizeAlone`, `UsingCurrent` and `NoLockLeftBehind` are the safety
of the lock protocol, `ImplementsBucketAccess` the same in one sentence: with bucket sets for threads
in `using` and the threads in `Alone`, every step is a step of `BucketAccess`.
`OperationsReturn` is freedom from deadlock and livelock within the bound, with two
locks. `NoDeadlock` is about more of them, and about small maps: it holds with the three
different locks of `lock_three`, and with lists that are replaced under those who wait
in them, whatever else goes wrong there.

`SlotsHoldOne` is the assertion of `setKV`, `NoKeyTwice` and `InHomeBucket` are
what makes a search right: they are broken by a path that is not looked at again
before it is walked, by a key that is not looked for again after it, and by a
doubling that sends an element to a wrong half. `CountersAddUp` relates counters
that move with no element and elements that move without their count.
`MigrationSound` is what `rehash_lock` asserts of sizes and counts, in every
state. `ImplementsConcurrentMap` is the whole in one sentence: with the value
of a key read off whichever bucket its element is in, every section is one call
that takes effect, or a stutter.
`CallsReturn` says that whoever starts over does so because another thread got on:
with a search whose path has been disturbed, with a doubling that another was faster
to make, with a migration that is done lock by lock by whoever comes by. The mutant
tries an overtaken doubling again and again. The run is about nothrow movable data; the
expansion of other data into a new table has no liveness run, and where moves throw the
property does not hold (see below).

### What the violations say

* **No echo.** `json.get_to(json_string)` throws `type_error` for an object,
  before the first `async_read`. The loop catches only `system_error`. Every
  session ends right after its handshake although the comment at line 35 says
  "Echoes back all received WebSocket messages".
* **Small maps.** A map constructed with fewer than `kMaxNumLocks` = 2^16 buckets
  replaces its lock list as it grows, and threads may wait in an old one. The run
  shows how such a waiter meets the new list: `cuckoo_fast_double` lets the
  hashpower of `old_buckets_` through for a moment. The default size is exactly
  2^16 buckets (`DEFAULT_SIZE` is 2^16 times the slots of a bucket),
  and there none of this can happen: that is what section 5 proves. The advice
  for the planned client table is not to construct it small. Two more things happen
  in small maps, which are not runs of their own but are found when `BucketExclusion`
  or `HeldStaysLocked` is put in `CuckooLocks_small.cfg`. After a rehash up and down
  (`MaxTurns` = 3) the hashpower a waiter compares is the one it knows, and the lock it
  holds is of a list nobody uses any more. And `AllUnlocker` goes on to the end
  of the lists as it is when it gets there, and so unlocks a list that another
  thread has appended behind its back, locked.
* **A rebuild that throws loses elements.** `cuckoo_expand_simple` is used for
  data whose move may throw because it "provides a strong exception guarantee"
  (1672-1674). But it moves each element out of the table into the new map, and
  if one insertion throws the ones before it are left behind as husks.
* **A negative size.** `size()` asserts `s >= 0` (342). A cuckoo move takes an
  element to a bucket of another lock and leaves the count behind, so a later
  erase makes that lock's counter negative. `size()` may read that one
  and miss the insert.

Another thing seen while modelling is not a run, as the repository says nothing about
it: an insert that never returns. When a value's move throws on a cuckoo path, its key
has been moved out already. The slot stays occupied, with an empty key and the partial
of the old one. `slot_search` goes by the partial (1657) and finds a free slot behind
it; `cuckoopath_search` hashes the key that is there (1457) and arrives in another
bucket, where `cuckoopath_move` finds the slot taken, and where the assertion at
1452-1454 may fail. `run_cuckoo` then searches again, with the same result, for ever.
TLC shows it when `CuckooTable_rebuild.cfg` has `FairSpec`, `CallsReturn` and no
symmetry. The advice is to keep data in the table whose move is `noexcept`.

### Bounds and why they are enough

* `MaxNumLocks`: 2 in `locks_default` (one bucket more per lock as
  soon as the table doubles, so buckets share locks), 4 in small maps (lists of 1, 2
  and 4 locks, so a list is replaced twice, and three buckets can have three locks).
* `MaxHp`: the table doubles once or twice, and shrinks. An argument between
  snapshot and check needs two hashpowers.
* `MaxTurns`: how often each thread sets out to take locks. Two turns of a
  resizer cover growing and shrinking while another thread stays in its first
  turn; an insert that searches a path or expands takes one more.
* Threads: two, a waiter and a resizer or two resizers. The proofs are for any
  number.
* `MaxMsgs` = 2: order, type and emptiness of the buffer differ from the first
  message to the second. One payload is enough as text and binary tell two
  messages apart. `Conns` = 2: sessions only meet in the listener.

* `Capacity`: 1 in `Deployment`, where the queue is full as soon as the worker is
  busy and one line waits, so that the second session to end finds it full; 2 in
  `MCSharedLog`, where lines could overtake one another in the queue and the
  terminate message may stand behind one. `MaxLines`: in
  `Deployment` one line per session; in `MCSharedLog` the backend writes one line more
  than the files hold, rotating three times, while the client opens the same file at
  any moment, rotates, renames and truncates. `MaxSize` = 1 and `MaxFiles` = 2
  make the loop of the rotation go round twice.
* `JsonThrows` is FALSE in `deployment`, for the reason given in section 2.

* `CuckooTable`: with one slot a bucket is full at once, so three keys need
  paths, overtake one another and force a doubling; `MAX_BFS_PATH_LEN` is 3, so
  that paths have an inner move. With two slots (`table_whole`) two elements of one
  bucket go up together in a doubling. `MaxNumLocks` of 2 makes two buckets share a
  lock once the table has doubled and leaves one lock to migrate while the other is
  in use. The table doubles once (`MaxHp`), and again if it was rehashed to a
  smaller one (`Limit` = 2; a rebuild may go to `MaxHp` = 3 above it in
  `table_rebuild`); a rehash, a clear or a `locked_table` meets a migration that is
  not finished.
* `MaxCalls`: 4 to 6 calls by two threads in any division. A key that comes in
  twice needs two inserts of it, a bucket filled and emptied meanwhile: five.
  `size()` below zero needs six.
* `ThreadSymmetry` is used in safety runs only, the threads being alike.

`CHECK_DEADLOCK FALSE` is set where the bound or the peers bring the system to
rest: every thread out of turns, every peer gone.

### Fairness

`EchoServer`: weak fairness of each session's actions (the `io_context` resumes
what has completed) and of the listener's start; none for peers and failures.
`Deployment`: the same, and weak fairness of the log's worker (a thread of its own,
whose writes come to an end) and of Qt's event loop (what has happened to a socket
is signalled). Nobody has to start, quit, fail or lose a connection. A console that
blocks for ever, such as a pipe nobody reads, is outside of this: it would block
the backend for good.
`SharedLog` has safety properties only.
`CuckooLocks`: weak fairness of each thread between the start and the end of an
operation. That is less than a scheduler gives and enough because turns are
bounded; a spinlock is not fair, and with unbounded turns a waiter may starve.
`OperationsReturn` therefore is about deadlock and retry loops, not starvation.
`CuckooTable`: weak fairness of what each thread does after its call started. The
sections it may enter are enabled in every state of `table_insert`, which has no
`locked_table`; that a waiter gets its lock is again the part of the spinlocks.

## 4. Abstractions

The contents of buckets, migration and counters do not occur in `CuckooLocks`:
it decides who may touch a bucket, not what is in it; `CuckooTable` has those, and
takes the exclusion for granted. In `CuckooLocks` `Refused` (load factor too
low, maximum hashpower) may happen at any resize that asks. An expansion may end
at any hashpower from the one asked for upwards, as the elements decide. Handshake
headers, payloads beyond their identity, and log texts are left out.

## 5. What is proved

`tlapm` checks all proofs from the assumptions in the modules. They are about
the constants only: `CuckooLocksAssumption`, `EchoServerAssumption`,
`AsyncLoggerAssumption`, `SharedLogAssumption` (sizes are positive, the processes
finitely many), `DeploymentAssumption`, `CuckooTableAssumption`, and the two
`HashSizeAssumption`s on powers of two, which the provers have no theory for: 2^h is
a positive natural number, grows with h in `CuckooLocks`, doubles with h and is
2^g times 2^(h - g) in `CuckooTable`, where `Xor` of two bucket numbers is one. `CuckooTableAssumption` also says that the
values which mean "no value", "no thread" and "no call" are none, and that
`MaxNumLocks` is a power of two no larger than the first table. TLC evaluates each
on the runs of the module it is in.

For all sizes, numbers of threads, and turns:

* `TypeCorrect`: `Spec => []TypeOK`.
* `IndicesInRange`: `Spec => []LockIndexInRange`. The invariant is `RangeInv`:
  the last list has as many locks as the hashpower, the hashpower of
  `old_buckets_`, every snapshot, and every goal past `maybe_resize_locks`
  ask for; lists never shrink. It needs the snapshots in it because a thread
  indexes the list with indices it computed from one.

For maps of at least the default size (`DefaultSize`, the hypothesis of each):

* `ExclusionInvariant`: there is one lock list for good (`NoNewList`); a lock
  that is set has one owner (`OwnerInv`); the locks a thread owns are those its
  place in the code says (`ThreadInv`). Only with the last part is the
  exclusion inductive: a thread in `check` has locked some, not all, of its
  buckets, and the hashpower can move under it until, and not after, it has
  passed the check with a lock in hand. `MovedStep` is the heart: who moves the
  hashpower owns every lock, so nobody else is past the check.
* `BucketsExclusive`, `ResizerAlone`, `UsedBucketsCurrent`,
  `HeldLocksStayLocked`, `LocksNotLeftBehind` follow from it.
* `DeadlockFree`: `Spec => []NoDeadlock`. With `OrderInv`, that what a thread still
  wants comes after all it has, the owner of a lock that is waited for can only wait
  for one further up; of the locks waited for one is the greatest (`GreatestIndex`),
  and its owner does not wait.
* `LocksImplementBucketAccess`: `Spec => ImplementsBucketAccess`. One step per
  action: `CheckPasses` and `LockMore` to `Acquire`, `KeepTwo` and `Release` to
  `Release`, `LockAllDone` to `Seize`, `SwapBuckets` and `SetHashpower` to
  `Resize`, `UnlockAll` to `Yield`, the others to a stutter.

For the contents of the table, with any keys, hashes, slots per bucket, number of
locks, hashpowers, threads and calls, and moves that may throw or not:

* `Invariance`: `Spec => []Inv`. `Contents` (in `CuckooTableContents` the operator
  `Sound`) says that stored elements have slots of their own, keys of their own and
  a bucket of their key, and so have those that wait in the old buckets; that a
  stored one is never under a lock that is still to be migrated, and a waiting one
  always is; and that the count of those locks is right. The two sides of a
  migration can be told apart only because of that: an element that arrives finds
  its slot free, as whatever is in its new bucket came there by the same migration.
  A doubling sends each bucket to two that nothing else goes to, with the same
  lock (`LockInd`). `ThreadInv` says what a thread remembers from one section
  to the next: the code of a search names slots that exist and is short enough, a
  path starts in a bucket of the call's key and goes from each of its buckets to the
  other bucket of the key that was noted there (`OnPath`). What the path says of
  occupied slots may be stale at any time, and the invariant says nothing of it: the
  code looks again under the locks before each move.
* `TableTypeCorrect`, `OneElementPerSlot`, `KeysAreUnique`, `ElementsAreFound` and
  `MigrationIsSound` follow from it.
* `CountersAreRight`, provided no move of an element throws (`MovesThrow = FALSE`).
  `Counted` is the sum itself. Its lemmas are about sums over finite sets, by
  induction on the subsets (well-founded, in a form that needs no operator as a
  parameter). The proviso is what the code needs: elements that a rebuild which
  throws leaves behind have been moved from and all have the same key; the next
  rebuild keeps one of them, and the counters stay.
* `TableIsAConcurrentMap`: `Spec => ImplementsConcurrentMap`, with the same proviso:
  a rebuild that throws loses elements, as `table_throws` shows. `Meaning` reads the
  map off the elements of both sides of a migration; moves along a path, migrations
  and rebuilds leave it alone (`Keeps`), and an insert, an assignment, an erase and a
  clear change it at the key of their call. `CallInv` says which call a thread is in
  for each place, and that a `size()` under a `locked_table` counts a table in which
  nobody else moves anything; that its answer is right then needs `Counted`.

For the backend, with any number of connections and messages:

* `TypeCorrect`, `EchoPrefix`, `OneInFlight`, from `EchoInv`: what is read but
  not echoed is at most the one message in the buffer, with its type.
* `SessionsOutliveFailures`, when the placeholder does not throw: from `LifeInv`,
  which says where the peer can be, or what it did, for each place of the session.

For the logger, with any number of processes, any capacity of the queue, and any
number and size of files:

* `LogTypeCorrect`, `NothingIsLost`, `AllIsWritten`, from `LogSafe`: console,
  worker and queue hold the lines without a gap (`Lines`), the terminate message
  is the last in the queue (`LastIsMark`), the file sink has had every line the
  console has (`FileFirst`). `AllIsWritten` needs all of them: the worker stops at
  the terminate message, so nothing may be behind it, and before it there can be
  nothing left, because a line's number is not the message's.
* `SharedImplementsLogger`: `Spec => ImplementsLogger` in `SharedLog`. Opening,
  rotating and renaming are stutters, a rename that fails is a line the sink threw
  on, a kill drops what is in the stdio buffer. `SharedLosesNothing` and
  `SharedAllIsWritten` carry the logger's theorems over.
* `SharedFilesStaySmall`, from `FileInv`: each process has at most one file's worth
  of lines in each file (`OneShare`), because what it has in the file it holds open,
  with its buffer, is never more than its own count `size`, wherever that file is
  renamed to and whatever is truncated. A count over the processes does the rest.
* `SharedFilesInOrder`, from `OrderInv`: the lines of a process are in order through
  the files and into its buffer, none is newer than the last its sink has had
  (`LastLine`), and there is none of its lines in a file newer than the one it has
  open. The last part is what lets it append: another process's renames only
  make the open file older, and so must take the newer files along first.
* `SharedLoneLogIsKept`, from `Alone`, which holds of a process as long as no other
  has made its logger: its open file is `log_filename` and its count is exact;
  older files are full and there is one of each number up to the highest, but for
  the one gap that a rotation moves down (`Gap`); what is lost of what was written is older
  than what is left, and nothing is lost before there is a file of the highest
  number (`Remains`). `WrittenInv` says that the buffer is the end of what was
  written, which a kill takes back. That what is left then fills the older files is
  a count of the lines in full files, no two of them the same.

For backend, clients and log together, with any number of clients:

* `DeploymentImplementsEchoServer`: `SystemSpec => ImplementsEchoServer`. What a
  client or its kernel does is a step of `Peer` or a stutter; the log is a stutter.
  The step that needs an invariant (`SystemInv`) is the greeting: `Peer` sends at
  most `MaxMsgs` messages, and a client whose connection is just made has sent none.
* `ClientsGetGreetings`, from `TalkInv` and, through the refinement, `EchoPrefix`:
  what a client has received is a prefix of what the server has echoed.

Only model-checked: the liveness properties `ClosedSessionEnds`,
`ConnectionsGetSessions`, `OperationsReturn`, `CallsReturn`, `GreetingAnswered`,
`SurvivorsNotice` and `LogOnlyDelays` (liveness and ENABLED are beyond the prover);
`EchoesAll`, a liveness property too; and the violations. Of maps smaller than the
default size only `TypeCorrect` and `IndicesInRange` are proved of the locks:
exclusion does not hold there, as `locks_transient` shows, and `NoDeadlock`, which does
in `locks_small`, is proved for the default size only. Every invariant and every
refinement that a passing run checks is a theorem, with the provisos given.

## 6. Not modelled, and the plan

1. The refinement of the table with rebuilds that throw: an abstract map that may
   then lose what its elements' moves have emptied, so that the proviso of section 5
   becomes part of the statement.
2. `CuckooMigration`: the steps inside `rehash_lock`, with its flag, its count and
   the buckets one at a time, several locks being migrated at once. Theorem:
   `old_buckets_` is freed once, and when nobody reads it.
3. `CuckooHash`: `alt_index` (an involution, that grows by one bit on doubling),
   which discharges what `CuckooTable` takes for granted, `reserve_calc` with
   64-bit wrap, the path code in 16 bits and the length of `b_queue`, the split of
   `parallel_exec`, checked against reference definitions over bounded inputs.
4. `MapLimits`: `swap` of two maps, one with a migration under way, and
   `maximum_hashpower` set while others expand.

Not planned: iterators, copies and streams of the map (they run with the map
locked or alone), the QML interface (declarative, no protocol), the protocol
files (no code uses them), the build scripts, `fmt_extensions.h` (formatting, and
no file includes it).
