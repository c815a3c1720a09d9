# TLA+ specifications of all_wish

This directory holds TLA+ models of the concurrent and of the algorithmic core
of the repository, the TLC configurations that check them on small instances,
and TLAPS proofs about the thread pools, the lock-free queue, the event, the account,
the stable priority queues, the linked list, the search trees and the network classes for
every number of threads, tasks, items, values, nodes, sessions and requests.
`PROJECT.json` lists the components, the runs, the mutants with which the
properties are tested, the source lines behind every definition, the findings
and the hazards.

    tlc -workers 2 -config MCThreadPool.cfg MCThreadPool    # a run
    tlapm ThreadPoolProofs.tla                              # the proofs

## 1. Inventory

The repository is a collection: a `core` library (thread pools, lock-free queue,
wrappers), a `net` library (TCP sessions over asio, an HTTP client), a small
stock exchange (`easy_exchange`), and exercises (`practice`, `memory`,
`coroutine`). Everything is built with `-O2 -g -fsanitize=address` and active
assertions (`CMakeLists.txt:42`).

| Part | State | Operations | What is hard | What makes it correct |
|---|---|---|---|---|
| `thread_pool_base`, `queue_wrap`, `safe_thread` (`core/threadpool/thread_pool.h:40-181, 485-518`) | queue, mutex and condition variable, `m_stop`, worker threads | `insert`, `stop`, `wait`, destructor, worker loop | wake-ups, time limit, stop racing with insert and pop, destruction while tasks call back | no task lost or run twice, no lost wake-up, order of execution, all threads end, destructor safe |
| priority pools (`thread_pool.h:191-446`) | map or array of deques, counter | `zinsert`, `insert`, pop | moved-from values, counters that disagree with contents | greatest score first, first in first out among equals |
| lock-free queue, free list, tagged pointer (`core/threadpool/lockfree`) | linked nodes, head, tail, free list, counter | `emplace`, `push_back`, `pop_front`, `allocate_safe`, `deallocate_safe` | every interleaving of single accesses, node reuse (ABA), weak exchange | first in first out, nodes conserved, answers honest, progress |
| lock-free pool (`thread_pool.h:448-472`) | the two above | push, pop | test under the mutex, link and pop outside it | as the pool |
| `event`, `Runnable` | flag and condition variable; thread | `set`, `wait`; `start`, destructor | two waiters for one event; join of a thread that does not end | a set is not lost; the destructor returns |
| `spin_lock` (`net/util/spin_lock.h`) | a flag | `lock`, `unlock` | `lock()` never waits | mutual exclusion |
| sessions (`net/transport/session.h`, `tcp/session.h`) | link status, stop flag, outstanding read and write | `connect`, `disconnect`, `send_msg`, read handler | handlers hold a raw `this` | no handler outlives its session, the read loop goes on |
| `session_pool` | map of sessions, id counter, io thread | `add_object`, `del_object`, `find`, `for_each`, `clear`, `run`, destructor | owner and io thread at the same time | who is in the map and when |
| `tcp::client`, `easy_tcp::client` | weak reference, condition variable | `connect`, `sync_connect`, `send_msg`, `shutdown`, destructor | callbacks racing with the wait and with destruction, time limit, reconnection | no missed notification, no crash, destructor returns |
| `tcp::server` | acceptor, stop flag | `start`, accept loop, `send_msg`, `disconnect`, `shutdown`, destructor | disconnection from two threads, deletion inside a handler | always accepting, connected sessions owned |
| `http::client`, `message`, `uri` | request under way, response, parser frame | `request`, `on_receive`, parse | time limit against a late answer, fragments | an answer belongs to its request |
| `easy_exchange` | account, positions, ticks | buy, sell, query, tick, command | exchange loops with a misplaced test; positions changed in the body of the spin loop | no update of the fund lost or made twice |
| red-black tree, search tree (`practice`) | nodes, links, colors | `insert`, `erase`, `find` | repair loops with many cases | order, balance, contents |
| sorts, `atoi`, `decompress`, linked list, palindromes, allocator, future | — | pure functions, small structures | boundaries, equal elements, aliasing | agreement with a reference |
| `luafunction` | Lua stack and tables | `push_json`, `pop_json` | a count that stands for "something was pushed" | stack balanced, values come back |
| `nn_socket` | a socket number | send, receive | error codes | not modelled |
| vendored and generated code, log, time, timers, demonstrations | — | — | — | not modelled |

Interaction: workers and callers share the queue of the pool under one mutex;
tasks run on the workers and may call the pool again. The network classes run
all handlers on one thread that `session_pool::run` starts; the owner of a client
or server calls in from another thread; callbacks go from the session through
`Matrix` to the derived class.

## 2. Modules

| Module | Models | Extends |
|---|---|---|
| `TaskPool` | what a pool promises: abstract | |
| `ThreadPool` | `thread_pool_base` with `queue_wrap`; `safe_thread` is one worker | |
| `LockfreeQueue` | `lockfree_queue`, `freelist`, `tagged_ptr` | |
| `LockfreePool` | `lockfree_thread_pool`: the pool on the lock-free queue | `ThreadPool` |
| `PriorityQueues` | `stable_priority_queue`, `static_stable_priority_queue` | |
| `Event` | `event`, with the threads that use it | |
| `Session` | `session`, `tcp::session`, the io thread | |
| `TcpClient`, `TcpServer` | the two ends | `Session` |
| `HttpClient` | `http::client` and `http::message` on `tcp::client` | `TcpClient` |
| `Uri` | `http::uri`, `split` | |
| `LuaJson` | `push_json`, `pop_json` | |
| `Account` | `Account` of `easy_exchange` | |
| `RBTree`, `BinaryTree` | `practice/rbtree.h`, `practice/tree.h` | |
| `Exercises` | `heap_sort`, `quick_sort`, `decompression`, `wish::atoi` | |
| `LinkedList` | `memory/my_link.c` | |
| `ThreadPoolProofs`, `LockfreePoolProofs` | theorems about the two pools | `ThreadPool`; `LockfreePool`, `ThreadPoolProofs` |
| `LockfreeQueueProofs` | theorems about the queue: types and size; order, tags and nodes | `LockfreeQueue` |
| `ComponentProofs` | theorems about the event, the account, the stable priority queues, the linked list and `quick_sort` | `Event`, `Account`, `PriorityQueues`, `LinkedList`, `Exercises` |
| `TcpServerProofs` | theorems about the server | `TcpServer` |
| `ClientProofs` | theorems about the clients | `HttpClient` |
| `TreeProofs`, `RBTreeProofs` | theorems about the binary search tree; the red-black tree | `BinaryTree`; `RBTree` |
| `MC*` | instances for TLC | |

`MCComponents` is a sum: the programs in it share nothing, and a variable `running`,
chosen in the initial state, says which of them a behaviour is about; the others stay
in their initial state. `MCDecompress` is `decompression` alone. The invariants of the
components that do not run hold in that state, so that a violation is always
one of the component that runs.

### ThreadPool

A worker goes through `loop` (test of `m_stop`), `pop`, `wait`, `notified` or
`timeout` (the three parts of `wait_for`), `test` (the second test of `m_stop`),
`run`, and `exit`. What happens under the queue mutex is one step, since no other
thread can see the middle of it; tests of the atomic `m_stop`, which are outside
the mutex, are steps of their own. Agents are the outside callers and the tasks
themselves, which may insert and stop. `wait()` and the destructor are called by
one owner, after the other callers are through: that is the language's rule
for the lifetime of an object. Histories (`used`, `pushed`, `begun`, `done`,
`dropped`) record what happened to tasks and guard nothing except that a task is
inserted once.

A task ends by returning or by throwing a `std::exception`, which the worker
catches; both are `EndTask`. Any other exception ends the process and is left out.
`task_size()` reads the queue without the lock; it has no effect.

### LockfreePool

The workers, the callers, `stop`, `wait` and the destructor are those of
`ThreadPool`. What differs is the queue, of which there is one step for each load of
`m_head` or `m_tail` that may be stale when it is used and one for each exchange that
takes effect: the load of `m_tail` (`LfTail`), the help for another push (`LfHelp`), the
exchange of `next` (`LfLink`), the exchange of `m_tail` (`LfSwing`) and the
notification (`LfNotify`), which alone takes the mutex. `block_pop_item` evaluates its
predicate under the mutex with the two loads of `empty()` as separate steps, releases
the mutex and pops.

Nodes are told by their position in the queue, which the tags of `m_head` and `m_tail`
count; positions do not wrap around, as the 64 bits of the tags do not. `m_tasks` is what
`m_tail` has come to and `linked[Nobody]` what is linked behind it. A caller may have loaded
a node that `m_head` has passed since (`at[a] < HeadPos`). The node is then in the free
list, in the queue again, or in the hands of another caller that has got it, and its
`next` may be null in each case, so that the exchange succeeds (finding 1): the task is
in `lost`, at the end of the queue, or in `linked[x]`, behind the node that the other
caller is still to link. In the same way `pop_front` may find a null `next` at a node that
was used again and answer false although the queue is not empty (`LfPopNext`). `stale`
is a history: some task was linked in this way.

`TaskPool` therefore lets a task be accepted out of reach of the workers (`adrift`) and
come in reach later or never; the pool with a mutex has no such task. `LfNoLostWakeup`
has `~stale` as its condition, since a task that comes into the queue behind another's
brings no notification of its own; `LfSettles` and `LfRefinesTaskPool` have no condition.

### LockfreeQueue

One action per access to shared memory. Tags count modulo `TagMod`, the element counter
modulo `SizeMod`. The tags of the build are 64 bits wide; the runs use a modulus larger
than any count they reach, so that no tag comes around. A weak exchange may fail without
cause (`SpuriousFail`). The code asks for acquire, acq_rel and relaxed orders; the models
are sequentially consistent, so that reorderings those orders permit, such as the two
relaxed loads of `empty()` in the other order, are not among the behaviours. The copy of
`next->data` of a recycled node is a data race; the model reads whatever item is there,
and shows that the value is used only when the exchange of `m_head` succeeds. For the same
reason `pop_front` can read a null `next` from a recycled node and answer `false` although
the queue is not empty; its callers poll, and `QueueProgress` shows that the element comes
out at a later call.

`astray` is a history: some push has linked its node behind a node that was no
longer in the queue. That is the defect of finding 1; after it nothing is
promised. The invariants say that it is the *only* way in which order, nodes and
tags can be lost, with two producers and two consumers.

### PriorityQueues

The two stable queues side by side, driven by the same calls and compared with a list of
what was inserted; after `stop()` a `zinsert` throws before it touches them. `emplace`
asks a moved-from item for its score; the integers of both aliases survive the move, a
score type such as `std::string` would not, and no code instantiates one. `insert()` of
these pools passes a score that was never assigned, and the array tests no index: no
program of the repository calls the one or exceeds the other, and scores are below `Size`.

### Event

Writers put an item into a queue and call `set()`; readers call `wait()` and empty
the queue if it answers true (`test_thread_lockfree.cpp:182-217`; the queue is a
set, one step per call). The wait is cut at `wait_for`, where the mutex is
released: a reader is blocked, was notified (or woke without cause), or has given
up. Every answer of the code is kept, also `true` for a waiter whose event was
consumed by another.

### Session, TcpClient, TcpServer

A session lives while a `shared_ptr` to it exists: in the map (`m_objects`), in a
pending connect or accept handler (`captured`), or in a local variable of a
thread (`held`). Read and write handlers hold none. When the session dies, its
socket closes and an outstanding read completes with an error, on a destroyed
object. The address sanitizer of the build ends the process there; `crash` says
why a process ended (`use-after-free`, `assert`, or `terminate` for an uncaught
exception, a thread object that is assigned or destroyed wrongly, or a call of a pure
virtual function). `on_receive` is pure in `net/transport/matrix.h` and the classes between
it and the application do not override it: once the destructor of the application's
class has run (`Destroying`), a read that is reported terminates the process. The other
callbacks have empty bodies there. Handlers are
cut at every point where the owner thread could matter. Each operation on the map
is one step: the spin lock that should guarantee it does not, but what a
`std::map` does under a race is undefined and is listed as a hazard instead.

### HttpClient

`request()` holds `m_mtx` from before the send until its wait, so that owner and
io thread meet in the wait, in `on_receive` (which stores `m_rsp` without the
mutex) and in the buffer that `send_msg` captured. An answer is two pieces, the
head with half of the body and the other half, or one piece without a body. The end of
the body is told by its length, by its last chunk (each half is a chunk), or by the end of
the connection (`Answers`); a read takes any number of the pieces that have arrived, and a
piece may also be no HTTP. `on_body` replaces the body whenever it is called, once per chunk
or else once per read (`Body`), so that a chunked answer keeps its last chunk; an answer
delimited by the end of the connection is never completed, since the parser is not told
of it, and a request for one waits for its time limit unless `Connection: close` was
among the headers. Without that header an incomplete answer makes `is_completed` read
the end iterator (`ReadsEnd`). `m_frame` is never renewed, so that `m_completed` and the
headers of an earlier answer stay. After an answer that ends the connection the peer
sends nothing more (`closing`).

Two histories say how far a client was from that: `timely` (no wait has ended by time or
without cause) and `whole` (every read brought one answer of told length).
`HttpCleanIsRight` says that these are the only causes of wrong answers: while `whole`
holds no response is half an answer or a mixture of two, whatever waits end by time, and
while both hold a request returns the answer to itself. Outside `whole` the code
truncates as described, and nothing is promised.

The write ends after ten bytes (`WriteSize`, finding 4). A peer that answers such
a truncated request is a server that gives up waiting for the rest; without that
assumption no request would ever be answered.

### Uri, LuaJson

Pure functions, compared with a reference. An URL is put together from its parts in every
combination and parsed at every stage; the properties name what the parser gets wrong.
Behind the host it takes the separators in the order of the picture without looking which
one it has met: the first piece is the path, the second the query, the third the fragment,
whatever they are. The port is cut two characters too late: the text that is converted
reaches to the null character, or past it if the URL ends with its port, where any byte
may lie (`Bytes`); `AuthorityIsParsed` says that the number is the same for every byte,
and exactly which URLs are read past their end. A JSON value grows by nesting and goes
through a model of the Lua stack and its tables. An array whose elements are all empty
arrays (`Hollow`) leaves its table on the stack with the count 0; the properties exclude
it, and `Survives` says what is lost otherwise (nulls, empty arrays, booleans become
numbers).

### Account

The program means the members to be shared by threads. The fund is changed by
exchange loops, the positions in the body of `while (m_op_flag.test_and_set())`,
that is, while *another* thread has the flag. Bodies can overlap; from then on the
map holds anything (`torn`). The flag has no initial value before C++20, so both
are initial states. What remains true is the bookkeeping of the fund; that a
purchase is never refused and positions are hardly ever changed is what the code
does.

### RBTree, BinaryTree, Exercises, LinkedList

`RBTree`: one step is one iteration of a repair loop. Values are attached to nodes, with
`Copies` nodes of each value. The mirror images in the code are one action with a side,
except where the two sides of `insert_fixup` differ: on the left, case 2 goes round the
loop again; on the right, cases 2 and 3 are one iteration. `BinaryTree`: one step per
call, nodes are addresses, and `bst_set` is the set the tree stands for. `Exercises`:
`quick_sort` is a machine, since it does not return for every array (equal elements) and
clears an element that is swapped with itself; the properties say when it returns and
which elements can be cleared. `decompression` copies the digits of a count into three
characters: behind a third digit `atoi` reads what lies in memory (`beyond`), and a count
of one hundred, which the task allows, comes out wrong (finding 5). `atoi` has a small
`IntMax`. `LinkedList`: where `my_link.c` follows freed or unassigned pointers the program
may go `wild`, after which nothing is said, or go on.

## 3. Runs

| Run | Instance | Shows |
|---|---|---|
| `pool` | 2 workers, 1 caller, 3 tasks that call the pool, fair | tasks conserved, no lost wake-up, destructor leaves nothing behind, `TaskPool` is implemented; stop ends all workers, accepted tasks run, the destructor returns |
| `lockfree_pool` | the same, on the lock-free queue | no wake-up is lost although links and pops do not hold the mutex, `TaskPool` is implemented even if tasks go astray, the pool comes to rest with every accepted task executed or lost behind a free node |
| `lockfree_queue` | 2 producers, 2 consumers, 3 items, one spare node | first in first out, nodes conserved, tags and counter, until a push goes astray |
| `lockfree_live` | 1 producer, 2 consumers, fair | `emplace` returns, what is linked is popped |
| `lockfree_item_lost` | 2 producers, 1 consumer | **violated**: an item linked behind a recycled node is lost |
| `components` | 6 tasks of 3 scores; 2 writers and 2 readers; 2 traders with 2 calls each; URLs with 2 pairs; JSON values of depth 3; trees of 8 and 5 nodes, arrays of 5, lists of 4, texts of 24, numerals of 4 characters | order, stability and counters of the priority queues; no event is lost and every announced item is popped; the fund is accounted for; URLs are taken apart as told; JSON values come back; order, links, balance and colors of the red-black tree in every iteration; the search tree is a set; sorts sort, texts unpack, lists are sequences, numbers saturate; calls return |
| `tcp_server` | 3 session objects | accept loop, ownership, no zombies; the process ends only by the causes that `CrashHasCause` lists |
| `tcp_server_delete` | 2 session objects, owner only waits | **violated**: the session is deleted inside its own handler |
| `tcp_client_assert` | 1 connection | **violated**: the assertion in `shutdown()` after a refused connection |
| `http_client` | up to 2 connections and 2 requests, fair | handlers meet live sessions only, the read loop goes on, no missed notification of a connection or an answer, the process ends only by the causes that `ClientCrashHasCause` lists, answers of told length that come in one read are not torn or mixed up, the destructor returns |
| `http_request_truncated` | 1 request of 17 bytes | **violated**: the peer never gets a whole request |
| `decompress_hundred` | counts of 1, 11 and 100 | **violated**: a count of three digits fills the buffer, and the text is repeated another number of times |

Where a component has several invariants of one kind they are named parts of one property:
`QueuesAreStable` (`MapIsCounted`, `MapIsStable`, `ArrayIsStable`), `UrlIsParsed`
(`AuthorityIsParsed`, `TargetIsParsed`), `LuaRoundTrip` (`LuaStackIsBalanced` and the
values), `RedBlack` (`Ordered`, `BlackBalanced`, `RedSeparated`, `EveryValueIsFound`),
`BstIsASet` (`BstIsOrdered`, `BstContents`, `BstLeaksOnlyEmptyRoots`), `FunctionsAgree`
(`HeapSorts`, `Decompressed`, `AtoiSaturates`) and `QueueProgress` (`EmplaceReturns`,
`LinkedIsPopped`). The type invariants of `LockfreeQueue`, `TcpClient`, `TcpServer` and
`HttpClient` document their variables and serve proofs; they are not part of a run.

`http_client` checks the properties of `TcpClient` too, under everything an HTTP
client does with it; there is no passing run of `TcpClient` alone.

Bounds. Two workers are the least with which one sleeps while the other races for a task;
three tasks keep a queue non-empty while both hold one, and let a task insert another;
with three workers and two callers the safety properties of `pool` were checked once by
hand with the same result, and those of `lockfree_pool` with four tasks and with two
callers. One caller and the tasks themselves are enough for a push to sleep while its node
is freed: two tasks on two workers push while the caller does. One spare node makes the
lock-free queue recycle at once, which is where its difficulties are; three items and two
producers let a push sleep while its tail node is popped, freed and reused. Two readers
are the least with which one consumes the event of the other; two rounds let a set meet a
flag that is still set. Two traders with two calls let every exchange fail because of the
other. Two session objects suffice for a session and its successor, three for two sessions
of a server and the object of the pending accept; two requests for a late answer and the
request that takes it. Eight nodes give a red-black tree of four levels, in which every
case of both repair loops occurs on both sides; nine and ten nodes were checked once by
hand. Five addresses give a search tree with two grandchildren under a root that is
erased, and leaked roots besides. `IntMax` is 127, so that numerals of three digits lie on
both sides of it. JSON values of depth 3 have an empty array in an array in an object.

Deadlock is not an error in the sum run, the TCP and the HTTP runs: a state
without successor is an end the program can really reach (everything inserted, an
input at its bound, object destroyed, process ended).

Symmetry is used for items, producers and consumers in `lockfree_queue`, which
checks invariants only.

Fairness. `pool`: the scheduler runs every worker and every call under way (weak
fairness), a task ends, and the time limit of `wait_for` is reached even if the worker is
notified again and again, because the deadline is absolute (strong fairness of `Timeout`).
`lockfree_pool`: the same, with strong fairness of the callers, which may need the mutex
when workers take it again and again, or lose an exchange to others; the mutex of the
platform does not starve a thread for ever. `lockfree_live`: weak fairness of every thread
with a call under way; consumers poll; a weak exchange does not fail for ever (strong
fairness of the exchanges). That is more than lock-freedom gives, and excludes the thread
that always loses. `components`: the writers and readers of the event are scheduled, and a
call of the red-black tree or of `quick_sort` that was begun is carried on; nothing is
assumed of the clock or of wake-ups without cause. `http_client`: both threads are
scheduled, and a destructor once begun goes on; nothing is assumed of the peer.

## 4. Proofs

All theorems hold for every value of the constants under the named assumptions of
the modules (sizes are positive, callers, workers, tasks, items and the values for
"none" are told apart, the owner is a caller). tlapm checks them with SMT, Zenon
and LS4 only.

### ThreadPoolProofs

* `TypeCorrect`: `TypeOK` is inductive. It says more than types: a worker has a
  task exactly between the pop and the end of the execution.
* `TasksAreConserved`: `TasksConserved` is not inductive alone, because a push
  could bring a task that is in the pool already. `ConservationInv` adds
  `Unpushed`: a task in the hands of a caller in `push_item` is used, was not
  pushed, and is in the hands of no other caller.
* `NoWakeupIsLost`: `NoLostWakeup` is inductive together with `TypeOK`. The
  argument counts: a push adds one task and, if somebody sleeps, one notified
  worker; a worker that leaves `notified` takes a task if there is one.
* `DestructorIsSafe`: `JoinInv` ties the join loop to the workers that have
  exited, and the calls that tasks make to the tasks that run.
* `ImplementsTaskPool`: every step of the pool is a step of `TaskPool` or leaves
  its variables unchanged, with the queue, the claimed and the running tasks as
  the refinement mapping; it rests on `TasksAreConserved`.

### LockfreePoolProofs

Five results for the pool on the lock-free queue: `LfTypeCorrect`,
`LfTasksAreConserved`, `LfNoWakeupIsLost`, `LfDestructorIsSafe`,
`LfImplementsTaskPool`. The steps that the pools share are covered by the lemmas of
`ThreadPoolProofs`; those of the queue by what they do to it, which is one of two things
(`QueueKept`, `Moving`) unless they link.

* `LfTasksAreConserved` is about `LfTasksConserved`: an accepted task is in one place, in
  the queue, with a worker, behind a node that a caller is to link, or lost; and one gets
  lost only if a caller had loaded a node that `m_head` has passed. `LfInv` has `Unaccepted`
  (a caller in `emplace` has a task of its own) and `Apart` (the chains behind `m_tail` and
  behind the nodes of the callers share no task with each other or with what is lost).
* `LfNoWakeupIsLost`: `Lagging` says that as long as nothing is `stale`, `m_tail` is behind by
  the last node only, and the caller that linked it is still to move it; without that a
  worker could find the queue empty for ever. `Positions` says that nothing loaded is
  ahead of `m_head` or `m_tail`. The set of callers between link and notification is
  finite, without which the count of `LfNoLostWakeup` means nothing. A task that is
  pushed between a worker's test and its sleep is covered by the notification that is
  still to come.
* `LfImplementsTaskPool`: a link is `Accept`, a move of `m_tail` is `Reach`; the rest is
  as for the pool with a mutex.

What remains with TLC is that a task that is not lost is executed (`LfSettles`).

### LockfreeQueueProofs

* `QueueTypeCorrect`: `TypeOK`, and `ThreadsOK`: no thread is going to dereference a
  null pointer, at each place of its program. Together they are inductive.
* `SizeIsRight`: `SizeIsAccountedFor` compares remainders, which do not survive a
  step by themselves; `SizeInv` says that the difference is a multiple of the
  width, and that the threads between exchange and count are finitely many.
* `QueueOrder`, `TagsArePositions`, `NodesAreConserved`: the queue with node reuse,
  for any number of producers, consumers, items and nodes. The assumption `NoWrap`
  (fewer items than tags) stands for the 64 bits of `size_t` and is needed: with
  a tag that comes around, an exchange with an old value can succeed. The
  invariant is `QueueInv`: `TypeInv`; `ItemInv` (an item is emplaced once; the tag
  of the free list is bounded by the allocations); and `ShapeInv`: unless a push
  went astray, there are a numbering `q` of the nodes of the queue by position and
  a numbering `f` of the free list such that links, contents and tags agree with
  them, every allocated node is in exactly one of queue, free list and hands of
  a thread, and what each thread has read is still right *if the exchange it is
  going to do can succeed* (`ProducerFits`, `ConsumerFits`). This last part is the
  whole argument against ABA: `m_head` and `m_tail` never return to an old tag, and
  a push onto the free list, which keeps the tag, only puts nodes above the ones
  that were read. `Chain` is a recursive function; `ChainExists` and `ChainOf` tie
  it to the numbering with `LeastNatural`, a least counterexample in the place of
  an induction.
* `OneProducerOrder`: with one producer no push goes astray, so that the queue is
  first in first out without condition. `NoneAstray` says that `m_tail` is behind
  only between the link and the swing of the push that is under way. Finding 1
  needs two producers.

### ComponentProofs

* `NoEventIsLost`: `EventInv` is the types and `NoLostEvent`. Whoever clears the flag is
  on the way to the queue, and the loop of a reader ends on an empty queue only.
* `FundBalances`: `AccountInv` says that the calls between exchange and return are
  finitely many (there may be any number of threads), that the fund is what was
  settled and what they have moved, and that a call is at a place its operation
  comes to: only a sale is refused in the body, so that no purchase leaves after it
  has paid. `AccountBalance` reduces every step to what one call adds to the sums.
* `QueuesStayStable`: `PqInv` says that the map is the array without its empty deques,
  that the deque of a score holds exactly the items of the list that have it
  (`DequeOf`), that deques and list are in the order of insertion, and that the
  counter is the sum of the lengths. `FirstOutIsHead` is the argument: the head of
  the deque of the greatest score is the oldest item of that score.
* `ListStaysSequence`: `Linked` says that every node of the sequence is linked to its
  successor, that no node is in it twice, and that the next of a node outside is 0:
  `link_insert_tail` and, on an empty list, `link_insert_head` do not reset it.
  `WalkIsSequence` ties the loop over the list, a recursive function, to the
  sequence; the three insertions are one lemma, `LinkedInserted`.
* `ReturnedIsPlaced`: what `quick_sort` returns is sorted except for cleared elements,
  the safety half of `QuickSorts`. `QuickInv` says that there is an arrangement of the
  input, by a permutation, which the array shows except for elements that were
  cleared, all of them outside the open parts (`Shows`); that two elements in wrong
  order are in the same open part (`SortedBut`); that the open parts are one behind the
  other (`InLine`); and that what the scans have passed is on the right side of the
  pivot (`Scanned`). An exchange inside a part (`ExchangeKeepsOrder`) and the division of
  a part by its pivot (`DividedKeepsOrder`) keep it. When no part is open the
  arrangement is sorted, and `RankInOrder` says by counting that its k-th element is the
  k-th least of the input (`IsKth`).

A sum over a set is a recursive function on its subsets, which picks elements in an
order of its own. The lemmas `SumExists`, `SumUnique` and `SumRemove` show that any
element can be taken out first, and `SumStep` what a sum becomes when one element
comes, goes or changes. Where an induction is called for, the proof looks at a
least counterexample (`LeastNatural`, `FiniteInduction`).

### TcpServerProofs

`ServerTypeCorrect`, `ServerAlwaysAccepts`, `ConnectedSessionsAreOwned`,
`NoZombiesStay`, `ServerCrashesHaveCauses`. `ServerInv` adds that a handler works for a
session whose id was given out, that the object of an outstanding accept is new
(`AcceptedIsNew`), that a session is connected once and broken once
(`StatusAdvances`) and that the map is cleared only by a server that was shut down.
`ServerCrashesHaveCauses` says of every way the process can end what led to it: finding 3
and a map cleared under the handlers, a session that both threads disconnect, a read
reported to an object under destruction, a server that never started; there is no other.

### ClientProofs

* `HandlersAreSafe`, `ReceiveLoopGoesOn`, `NoNotifyIsLost`, `ClientCrashesHaveCauses` hold of
  `tcp::client` alone and under `http::client`: `ClientInv` is kept by the steps of
  both specifications. It adds that the weak reference is to the newest session,
  that the map keeps every session except failed ones, and that `sync_connect` has an
  outcome to wait for from `async_connect` on although the handler may run first.
* `HttpTypeCorrect`, `NoAnswerIsLost`: `HttpInv` adds that no piece is of a request
  that was not sent yet, and that an answer that was stored is still to be
  announced.
* `CleanRequestsAreRight`: `ResponsesAreWhole` says that while every read brings one answer
  of told length, what `m_frame` and `m_rsp` hold is nothing or a whole answer; it is kept
  whatever waits end by time. `CleanInv` says, for a client whose waits do not end by time
  either (`Clean`), that a request is in one place (posted, with the peer, in the stream, in
  `on_receive`, announced) and that what it carries is the whole answer to itself;
  `DestroyedIdle` that nothing runs after the destructor.

### TreeProofs

* `TreeStaysASet`: `BstIsASet` speaks of what the walks over the tree compute. The
  invariant `BstInv` speaks of the memory: there is a function `sub` that gives the
  nodes of every subtree, such that the links below the root are those of a tree with
  `parent` as the inverse of `left` and `right` (`IsTree`), the values are ordered and
  only an emptied root is invalid (`IsOrdered`), the set is the set of the valid values,
  and the rest of the memory is emptied roots (`StandsFor`).
* The walks are recursive functions over a number of steps. `IterationExists` shows that
  such a function exists; `WalkIsSubtree`, `Searching` and `RightmostIsGreatest` tie the
  three walks to the subtrees. Induction over a tree is `TreeInduction`: a node for which
  a claim fails, with the least subtree of all these.
* `erase` is three lemmas: `SpliceTree` (a node with at most one child leaves its place),
  `AbsorbTree` (a root takes over its only child) and `EraseTakesLast` (a node with two
  children takes the greatest value on its left, and that node, which has no right
  child, is spliced). `insert` is `AttachTree` at the place to which `InsertPointFits` leads.
  The lemmas are about any memory, not about the variable, so that they apply to the
  middle of a call, too.

### RBTreeProofs

* `TreeStaysRedBlack`: in every iteration of both repair loops the traversal is in order,
  the ways down have the same number of black nodes and red nodes are apart, and
  between two calls every value in the tree is found, for any number of nodes
  (`MaxNodes`) and of nodes with the same value (`Copies`).
* `RedBlack` speaks of what recursive functions compute: the traversal, the way up from a
  leaf, the search. The invariant `RBInv` speaks of the links, by what they are numbered
  with. `at` and `pos` number the nodes in the order of the traversal, and `b` gives
  the least and the greatest number below every node. `Shape` says that the links fit:
  the subtree of a node is an interval, its left and right child have the parts of
  that interval before and after it, and `parent` is the inverse of the links. That
  makes order a statement about neighbors (`Sorted`), and a rotation changes no number
  and the ends of two intervals only (`RevolveShape`), whichever of them are empty.
* Balance is a height `h` for every node, one more than that of its parts if the node
  is black (`Balanced`). `Phase` says what each state of a call may break: nothing
  between calls; in the loop of `insert_fixup`, the node may be red below a red father or
  at the root (`InsertState`); in the loop of `erase_fixup`, a black node is missing below
  one side of one node, whose place `parent` and `node` tell also when `node` is null
  (`EraseState`, `Hole`). Every case of both loops is one lemma about any tree (`InsertPushesUp`,
  `InsertTurnsOut`, `InsertTurnsUp` for the one loop, `EraseTurnsSibling`, `ErasePushesUp`, `EraseTurnsNear`,
  `EraseBorrows` for the other), used for both sides and at the middle of an
  iteration, too.
* `insert` and `erase` change the numbers: the new node takes the number after its
  neighbor (`PosWith`), an erased node with at most one child leaves a gap that is closed
  (`PosWithout`), and the successor takes the place of a node with two children, which is
  the one before it (`Renamed`).
* At the end the recursive functions are shown to compute what the numbers say:
  `VisitMeets` for the traversal, `AboveFacts` for the ways up, `Counts` for the black nodes
  on them, and the loops of `insert`, `find` and the successor by a rank that falls
  along the links.

### Only model-checked

* Liveness: fairness is out of the prover's reach. So `quick_sort` is proved to be right
  whenever it returns; that it returns for arrays without equal elements is checked.
* The functions of `Uri` and `Exercises`, the conversions of `LuaJson`: `UrlIsParsed`, `FunctionsAgree`,
  `LuaRoundTrip`. They compare recursive functions over sequences on all inputs up to a
  bound, and induction over data is out of the prover's reach.
  `LuaJson` and its instance are the only modules with RECURSIVE operators.

## 5. Findings

1. `lockfree_queue::push_back` may link an item behind a recycled node; the item is
   lost (`lockfree_item_lost`).
2. `tcp::client::shutdown` asserts that the session exists; a refused connection has
   deleted it (`tcp_client_assert`).
3. `tcp::server::on_receive_error` deletes the session synchronously inside the
   session's own handler, which then reads it (`tcp_server_delete`).
4. `session::do_send_msg` writes ten bytes of every message (`http_request_truncated`).
5. `decompression` has no room for the three digits of a count of one hundred, which the
   comment above it allows (`decompress_hundred`).

Modelling met more places where the code does less than its names promise. What a
document or test of the repository says of them is not contradicted by a run, so that
they are conditions or parts of properties and not findings: late, fragmented and
chunked answers and those delimited by the end of the connection (`HttpCleanIsRight`),
`quick_sort` with equal elements or a least pivot (`QuickSorts`), `atoi` just below the
limit (`AtoiSaturates`), arrays of empty arrays (`LuaStackIsBalanced`), an emptied root
that `destroy` leaves behind (`BstLeaksOnlyEmptyRoots`), the first node of a list that is
deleted (`ListIsSequence`), a read that is reported while the client or the server is
being destroyed (`ClientCrashHasCause`, `CrashHasCause`). `test_uri.cpp` has an URL that
ends with its port (line 5), one with a fragment and no query (line 9) and one with a
query and no path (line 11). It prints the parts and expects none; `TargetIsParsed` and
`AuthorityIsParsed` say what comes out.

## 6. Not modelled, and why

* Vendored and generated code (`json.hpp`, `concurrentqueue`, `http_parser`, curl,
  `cJSON`, zmq, protobuf) is four fifths of the lines of the repository and not its
  own logic; what the repository uses of it is modelled where it is used. The
  share of the mapped lines is to be read against the roughly ten thousand lines
  that are the repository's own.
* `spin_lock`: its `lock()` never waits; the effect on `std::map` is undefined.
* `Runnable`, the commands and ticks of `easy_exchange`: the program lacks two of its
  headers and is not built.
* `myfuture`: its only use returns a reference to a destroyed object. `my_malloc`:
  a byte per block, one caller.
* `std::priority_queue` of `priority_thread_pool`: it promises no order among equals.
* `nn_socket`, `kqueue`, log, time, system, crypt: thin layers over calls of a library
  or the system. Timers: declarations only.
* `tagged_ptr_compress`: no build enables it.
* Maze, coroutine, `ModifyString` of `huiwen.cpp` and other exercises: programs that
  run once over fixed input.

## 7. Plan

The model covers what of the repository's own code has state or an algorithm worth
a property. Every safety invariant of its concurrent parts and of its data structures
is a theorem, and so is the safety half of `quick_sort`. What remains with TLC is out of
the prover's reach: liveness, and what the recursive functions of `Uri`, `Exercises` and
`LuaJson` compute for every input.
