# Verification of the course programs

TLA+ models of the programs of this repository that have logic worth checking: the group-chat
server and client of `lecture/test4`, the thread-per-client server next to them, the map-reduce
library of `lecture/test3`, the allocators of `lecture/test2` with their test program, the shells of
`lecture/test`, and of `lab` the message collector, the sorted lists and the word counter. TLC checks
each on small instances; TLAPS proves every safety property that the runs check, but the one of the
allocator's test program, for every value of the constants, and of the four concurrent programs in
which states everybody can come to wait. `PROJECT.json` lists the components, runs,
mutants, hazards and theorems, and maps every definition to the lines it stands for.

## Inventory

The repository holds the assignments, labs and lecture programs of one course. Most of its 2204
files are editor backups (`.nvim/`), build output and binaries; about forty C files are code.

| part | code | state | operations | how it interacts |
|---|---|---|---|---|
| group-chat server | `lecture/test4/server.c` | client list, message queue, `finished_clients_count`, `server_running`, two mutexes, one condition variable, a receive buffer per list slot | `main`'s `select()` loop with `handle_message` and `remove_client`; `broadcast_worker` with `dequeue_message`; `cleanup_and_exit` | two threads share the list and the queue; TCP to the clients |
| group-chat client | `lecture/test4/client.c` | `keep_running`, the loop counter, a receive buffer | `sender_thread`, `receiver_thread`, `main` joins and cancels | TCP to either server |
| thread-per-client server | `lecture/test4/servertest.c` | as `server.c`, with a buffer per thread and descriptor numbers that are used again | `run_acceptor`, `run_client_io`, `broadcast_worker`, `cleanup_and_exit` | one thread for each connection, all share list, queue and flag |
| map-reduce library | `lecture/test3/src/interface.c` | intermediate and final tables, a mutex each | `mr_exec`, `map_thread`, `reduce_thread`, `mr_emit_i`, `mr_emit_f` | calls the caller's functions in threads, which call back |
| memory allocator | `lecture/test2/alloc.c`, `alloc2.c`, tested by `main2.c` | an unordered free list in the heap itself, `heap_end`, `deallocCalled` | `alloc`, `dealloc`, `coalesce_unsorted`, `allocinfo`, `allocopt`, `resetalloc` | sequential; called by its tests |
| shell | `lecture/test/test.c`, `test2.c`, `sigtest.c` | a history (not in `sigtest.c`), the working directory, children | read, `!n`, `!!`, built-ins, `fork`/`exec`/`wait`, a SIGINT handler | signals and children |
| message collector | `lab/server.c` (with its client in the same file) | a shared list and its count, two kinds of stop flag, a descriptor table | a thread per client adds, an acceptor starts and stops them, main counts and collects | threads and sockets |
| lab 9 server | `lab/lab9.c/server.c` | one counter and its mutex | a detached thread per connection | threads and sockets |
| sorted list | `lab/lab6.c` (two examples) | a linked list, a sum | `insert_sorted`, `index_of`, `sum_list` | called by the tests in its two `main` |
| word counter | `lab/lab8.c` | a hash table and its mutex | a sequential and a parallel count, sort, print, delete | threads share the table |
| other labs | `lab/*.c` | - | one exercise each | none |
| demonstrations | `lecture/*.c` | - | one construct each | none |

Where it is hard:

* **Interleaving.** `server_running` is read by one thread and written by another with no lock; the
  condition is signalled without the mutex; the list is shared between the thread that removes
  entries and the one that walks it.
* **Stale state.** `server.c` keeps partial messages by list slot while removal moves clients
  between slots, and goes on with a descriptor set obtained before it dropped the lock.
  `servertest.c` closes a descriptor before it removes the entry that names it.
* **Framing.** A message may arrive in any pieces; a buffer may fill up without a newline.
* **Shutdown.** A two-phase commit ends the chat while messages are queued, a thread sleeps, others
  poll, and clients still write.
* **Signals and children.** Ctrl-C may cut off the wait for a foreground command; background
  children end at any time and must be collected; each shell reacts differently to the end of input.
* **Size fields.** The allocators have four cases before the first `dealloc` and another rule after
  it, and some leave a size field that does not say where the chunk ends.
* **Boundaries.** Work is split by rounding up, so a thread's share may start past its end; tables
  and lists have a fixed size.

What makes each part correct: the servers give all clients one order of messages without gap or
repetition, keep the list exact, enqueue one commit after everything else and then end; the client
stops on the commit only; the library maps every input once, loses no pair it did not refuse and
returns; the allocator's blocks and free chunks tile the heap and come together again when freed; a
shell recalls what it printed and waits for its children; the collector loses nothing it has read
and looks at the list only when nobody else can; the list stays sorted and keeps what is put in; each
word is printed once with its count.

## Modules

| module | what it is |
|---|---|
| `OrderedBroadcast` | abstract: one sequence of messages handed to all members, one after the other |
| `ChatServer` | `server.c`, with arbitrary clients and an unreliable pace of the network |
| `GroupChat` | `ChatServer` composed with the three threads of `client.c` |
| `ThreadedChat` | `servertest.c` |
| `MapReduce` | `interface.c`, with arbitrary map and reduce functions |
| `Allocator` | `alloc.c` and `alloc2.c` |
| `History` | the command history of `test.c` and `test2.c`: its array and its operations |
| `Shell` | `test.c`, `test2.c` and `sigtest.c`, with that history |
| `Collector` | `lab/server.c`, server and clients |
| `AllocatorTests` | the twelve suites of `main2.c`, as calls of `Allocator`'s actions |
| `SortedList` | the sorted lists of `lab6.c` |
| `WordCount` | the word counter of `lab8.c` |
| `X_proofs` | the theorems about `X`; `ChatServer_proofs` also shows that `ChatServer` implements `OrderedBroadcast`, and what that gives the clients |
| `Labs_proofs` | the theorems about `SortedList` and `WordCount` |
| `MCPrograms` | a behaviour runs one of the three programs `AllocatorTests`, `SortedList` and `WordCount` |
| `MCX` | constants and symmetry for TLC |

A definition named `X_Something` that comes before `X` is `X` with a mistake and is used by no
specification: replacing `X` by it must violate a property, which shows that the property notices.

### ChatServer and GroupChat

The state is the program's: `clients` (the array, as a sequence of connections), `queue`,
`finished`, `running`, `clientLock`, `queueLock`, a program counter and locals for each thread
(`pcM`, `slot`, `ready`, `listenReady`, and `buf` for main; `pcW`, `node`, `wi` for the worker).
The network is two numbers per client, how many of the bytes it wrote have reached the server and
how many were read, so that every cut of the byte stream into reads happens. A byte is a type, a
newline or anything else, and remembers its author. `order`, `frontier` and `since` are history.

One action is what a thread does between two points where somebody can see a difference. A
critical section that touches only what its lock protects is one step: `enqueue_message`,
`remove_client`, the body of `Accept`. The wait loop is four (`LockQueue`, `TestQueue`, `CondWait`,
`WakeUp`), because main changes `server_running` and signals without `queue_lock` between them;
the commit is three (`EnqueueCommit`, `StopRunning`, `WakeWorker`) for the same reason. The
broadcast locks the list, writes to one client per step, and unlocks. `CloseAndExit` is one step:
the worker has been joined then, so nobody sees the difference.

`GroupChat` adds `client.c`: a sender that writes its lines and the Type 1 line, a receiver that
reads broadcasts until the commit or the end of the connection, and a main that joins the receiver,
cancels the sender and closes. A message the server wrote stays in the socket until the receiver
takes it, and the server's `write()` blocks, with `client_list_lock` held, on a socket with
`SockCap` messages. Clients write a few dozen bytes, so their own `write()` never blocks. A write
to a connection whose other end has gone counts as lost, not delivered.

### ThreadedChat

Here a message is one line, since the parser is that of `server.c` with a buffer for each thread;
what is different is the threads. `io[c]` is the program counter of the thread that serves
connection `c`, `fd[c]` its descriptor, and `open` says whose connection each descriptor number is:
`accept()` returns the lowest free one, so a number that a thread closes may come back as another
client before the thread has removed its entry. What clients did is decided when the server looks
(when it accepts or reads). A broadcast goes to whoever has the descriptor in the list at that
moment; `shared` remembers the clients for whom that was not always themselves.

### MapReduce

`mr_exec` is main's program counter `pc` and loop counter `t`; `thread[n]` has the share of thread
`n`, the element it is at and how many pairs it has emitted for it. Taking a mutex is a step, and
adding the pair and giving the mutex back is another. `Map` and `Reduce` are constants: of the
caller's functions only the pairs they emit matter. The final table survives a call, as in the code.
The limit on the values of one key is not modelled: the code does not check it, and beyond it the
program has no defined behaviour.

### Allocator

A heap is its size fields: `size[a]` is what the header at address `a` says, 0 where nothing was
ever written, `Junk` where a header or the caller overwrote part of it. `free` is the list from
`head`, in order. `Program` chooses the file. `End(a)` says where the chunk at `a` ends; the size
field of the untouched rest of the heap is the one that does not count its own header.

The code has slips after which its size fields are no longer true, all of them at a boundary. A
history variable, `slips`, names the first: *size not corrected* (`alloc.c` 183-191: the whole rest
is given away at the limit), *grown past the end* and *stale head* (214-218: nothing is left and the
head moves past the heap), *short split* (249: no room for the header that is written all the same),
*false merge* (`alloc2.c` 172-182: fields are taken to leave out the header, so that whatever its
walk joins it joins wrongly; the list and the fields before and after tell). From then on the model
only frees blocks, and the properties speak of executions without a slip: what they say, and what
the theorems say for all sizes, is that these five are all the ways in which the bookkeeping can go
wrong. A behaviour that is undefined ends with `fault` set: a NULL fit (`alloc.c` 241, where
`alloc.h` 35-37 promises NULL), a header written past the break, an overwritten header read.

### History and Shell

`history` is a record of the array, `hist`, `count`, and a log with everything counted. The
functions of the code are operators on that record, so that `get_hist` of `test.c` and `get_history`
of `test2.c` can be compared on the same state. A slot that was freed, one never written, and what
lies next to the array are three values that are not commands: `test.c` may recall each of them.

`Shell` is the loop: `pc` says where the shell is, `child[c]` where a child is, `fg` which children
were started in the foreground. A stored line is of a kind: a program with fewer than seven words,
with seven or more, in the background, a lone `&`, a built-in, `exit`, blanks. The kinds matter
because `background()` of `test.c` compares seven arguments with `&` and crashes on the NULL behind
the last one: every foreground command of fewer than seven words ends that shell, and the run shows
the rest of it with longer ones. Ctrl-C reaches the shell and any of its children at any point; a
`waitpid()` or `read()` that has been entered is cut off in `test.c` and `test2.c` and restarted in
`sigtest.c`. Of the built-ins only the return to the prompt is kept.

### Collector

A message is two halves, and a read takes one or both of what has been sent; a node of the list
remembers the client and the halves, so that loss, duplication and reading from another's
descriptor can be told apart. `add_to_list` is three steps under `list_mutex`, with its local
`last_node` in a variable, so that a missing lock shows. A client that is killed is one that stops
sending; a reset throws away what was not read.

The descriptor table is kept because the acceptor closes each descriptor a second time (256) after its
thread has closed it (213). That is harmless unless the thread ended early, on a reset: its number may
then have been given to a later connection, and line 256 closes that one, before its thread was told
to stop and with data unread. `CutOffLate` states that this is the only way a connection is closed
under its thread, that it happens in the shutdown only, after the count was reached, and that the
thread then has no connection rather than another client's. What such a thread had read is in the list
(`EverythingKept`); what it had not is lost, which no property forbids, since the server stops
everybody in the middle of their data anyway.

### The three programs

`AllocatorTests` is `main2.c` as calls of `alloc`, `dealloc` and `allocopt` of the model: a suite is
the sequence of its calls, and what its TESTs evaluate after each. Suites run alone or one after the
other; `resetalloc()` clears no memory, so that each finds what the one before wrote.

`SortedList` has the list of `lab6.c` as a sequence, and an insertion as the place where its loop
stops: at the first node not below the datum, which has no `prev` if it is equal to the first one.
`WordCount` has a step for each lock, look-up and update of `lab8.c`; the mutex is never given back
(37). `main` calls the sequential count; the parallel one, commented out there (124), starts from
another initial state. `HASH_SORT()` leaves the entries in some order that `sort_func` agrees with.

## Runs

| run | question | bounds | result |
|---|---|---|---|
| `chat_safety` | Is the worker never asleep over work, are messages cut into reads put together whole, in order, and Type 1 counted exactly? | 2 clients that stay, 2 slots, 4 bytes each, a 4-byte buffer, a header of 2, no faults | holds |
| `chat_limits` | With clients that are refused, leave and are replaced, one that floods its buffer, and every fault: are bounds kept, is the list exact, and is the broadcast one ordered sequence? | 3 clients, 2 slots, 3 bytes each and 4 in all (`MaxTotal`), one client that closes or is reset (`MaxGone`), a 2-byte buffer, no header, all faults | holds; 1.1 million states |
| `group_chat` | With the real client: is the commit last, is nobody dropped, does everybody exit, and is this `ChatServer`? | 2 clients, 1 message and the Type 1 line each, sockets of 1 message, a header of 1 | holds |
| `chat_commit` | Is the commit always broadcast? (comment at `server.c` 278-279) | as `group_chat` | **violated** |
| `chat_one_author` | Is a broadcast one client's message? (190-191) | 3 bytes each, resets | **violated** |
| `map_reduce` | Is everything mapped and reduced once, the split exact, and does each call return? | 2 calls, 0, 1 or 3 inputs, 1-3 threads, room for 2 of 3 keys | holds |
| `threaded_chat` | Does the list keep step with the threads; is there one commit; are broadcasts gapless; is the worker awake at the end? | 3 clients, 2 slots, 2 expected, 2 lines, all faults | holds; 3.3 million states |
| `threaded_shutdown` | Does the server exit once it stops? (`servertest.c` 52, 492-500) | 2 clients, no faults | **violated** |
| `allocator` | Do blocks and chunks tile the heap, is a live block's header left alone, do chunks that touch merge, and does all come back as one? | both files, three fits, header 2, increment 8, limits 8, 16 and 24, 16 bytes of memory, requests 1, 2 and 9, 3 blocks held, 2 settings | holds; 1 million states |
| `shell` | What does the history keep and recall, which children are left behind or reaped? | three files, history of 2, 4 commands, 2 children, 1 Ctrl-C | holds |
| `collector` | Is nothing lost, is the stop in order, is the count worth what main makes of it, and does it end? | 3 clients, 2 places, 1 message each, split reads, resets, failing accept | holds; 1.2 million states |
| `programs` | Do `main2.c`'s suites pass, alone and together; are insertions exact; is the word count exact, and when does the parallel one return? | `alloc.c` with header 16 and increment 256; 6 insertions of 0 to 5; 5 of 3 words, main alone or 3 threads | holds |

Why the bounds suffice to meet the interesting cases:

* Two clients are enough for removal to move an entry to another slot, for a stale slot, and for
  two receivers to disagree; a third is needed in `threaded_chat` for a descriptor to be used again
  while two others are listed, and in `chat_limits` to be refused while the list is full and to join,
  after a broadcast, in the place of one that was removed. There one client ends its connection and
  others can be removed for a full buffer; four bytes are two messages, or one and a Type 1, so that
  a client can have both while another left between them or during the second one. TLC confirmed that
  each of these situations is reached, the worker waiting at the list during the removal included.
* A line is at least two bytes, so with four bytes a read can end inside, between and after lines,
  two lines can arrive in one read, and a line can be too long with its header. In `chat_limits`
  a client also writes three bytes without a newline, one more than the buffer holds, so that
  `read()` is asked for none. `Header` is 0, 1 or 2 in place of 6: it is only added to a length and
  compared to `MaxMsg`.
* Three threads for zero, one, two or three elements give full, short and empty shares, with the
  start past the end; three keys for room for two reach the refusal; a second call starts with
  what the first one left.
* A header of 2, an increment of 8 and requests of 1, 2 and 9 give a rest that is larger, equal and
  smaller than a request, with and without a header and with room for two, and a request larger than
  the increment; a limit of 8 is reached at once and one of 16 after growing once; for one of 24 there
  is no memory, so that `sbrk()` fails. Three blocks are freed in all six orders.
* A history of 2 is full, shifted and shortened within four commands; two children are one in the
  background and one waited for, or two left behind by Ctrl-C.
* Two places for three clients: one is refused; both threads can be in `add_to_list`, or one there
  while the other is being stopped. One message of two halves can give the count with a half
  missing.
* `main2.c` runs with its own numbers. Six insertions hold the calls of both `main` of `lab6.c`. Five
  words for three threads leave a rest of two for the last one; with none or one, threads have no word.

Deadlock is checked in every run except `allocator`, `shell` and `programs`, whose behaviours stop
at a bound, a fault or the end of the program (and the parallel word count at its mutex),
`threaded_chat` and `threaded_shutdown`, whose program really deadlocks (next section).
`ChatServer`, `GroupChat`, `MapReduce` and `Collector` have an explicit stuttering step for the
finished program.

Properties of the passing runs, beyond one type invariant for each module (`TypeOK` contains the
bounds of the arrays, so a missing check of a limit violates it):

* `RosterExact`, `NoLostWakeup`, `RefinesOrderedBroadcast` (`ChatServer`): the shared list, the
  condition variable, and the refinement of `OrderedBroadcast` with `members <- Roster`. The run of the
  first and the last has every fault, so that `Leave` and `Vanish` of the abstract specification are
  taken.
* `Reassembly`, `FinishedExact`: what is enqueued against what was sent, computed from the bytes
  by definitions of their own (`Lines`, `RegularLines`, `EndLines` of what main has `Processed`,
  against `Posted`), as long as no client was removed (`NobodyRemoved`: whom main has shut out was only
  rejected, with nothing read from it); after a removal `OneAuthor` shows why it cannot hold.
* `CommitAfterEverything`, `NobodyDropped`, `Termination`, `RefinesChatServer` (`GroupChat`).
* `MapComplete`, `ReduceComplete`, `SharesPartition`, `Returns` (`MapReduce`): every pair counted,
  against the pairs the functions emit.
* `EntryPerThread`, `OneCommit`, `NoGapNoRepeat`, `AwakeAtTheEnd` (`ThreadedChat`).
* `Tiling`, `NoNeighbours`, `AllFreed`, `LiveUntouched` (`Allocator`): the size fields against the
  blocks handed out, over any sequence of requests and any order of freeing. `AllFreed` is the
  number `main2.c` 89 and 129 expects of `allocinfo()`.
* `Remembers` (`Window` and `KeepsLast`) and `Recalls` (`History`): the array against the log.
  `Recalls` states what each program does: `test2.c` recalls the command it printed with a number,
  `test.c` the next one.
* `LeftBehind`, `ZombiesReaped` (`Shell`).
* `ListExact`, `EverythingKept`, `CutOffLate`, `NobodyShort`, `CleanEnd`, `Stops` (`Collector`).
  `CutOffLate` says who may lose a connection to the second `close()`, and when. `NobodyShort` is
  conditional on whole messages: with split reads main stops with messages missing. `CleanEnd` shows
  that line 298, "Not enough messages", is only ever printed when there were too many.
* `TestsPass` (`AllocatorTests`): all 246 cases succeed. `InsertsExact` (`SortedList`): sorted, with
  each datum as often as it was inserted; the one call that does not end so is to insert the least
  datum again, where `prev` is NULL. `CountsExact` (`WordCount`): what is printed against the words;
  the parallel count returns only if there is at most one word.

## Findings

* `server.c` 280: the worker tests `server_running` before it dequeues, so it may exit with the
  commit still queued, though 278-279 say it exits after processing it. Clients then see the end of
  the connection in place of the commit. `Termination` holds all the same.
* `server.c` 135: removal moves the last client to the freed slot but leaves the slot's partial
  message, so bytes of two clients may make one broadcast, under the second one's address.
* `servertest.c` 497: main joins the I/O threads under `client_list_lock`, which a thread needs in
  `remove_client` to end: the server hangs whenever main gets the lock before every other thread
  has removed its entry. That this is its only deadlock, and is for ever, is proved (see Proofs).

What else the models show of the code, for which no run was set apart: a write to a client that has
gone raises SIGPIPE and can end `server.c` (174), where 176-177 expect a failing `write()`; a second
`mr_exec` also returns the pairs of the first, since the final table is never emptied
(`interface.c` 222); the slips and faults of the allocators and the crashes of the shells named
above; at the end of input `test.c` and `test2.c` prompt for ever; a connection to the collector
that fails keeps its place, so that the count may never be reached.

## Fairness

* `GroupChat!Fairness`: weak fairness for the worker, the network and each client thread
  (preemptive scheduling, TCP delivers), strong fairness for main, which competes with the worker
  for `queue_lock`: spurious wakeups may take the mutex again and again, but not at every attempt.
  Nothing is assumed of spurious wakeups. `ChatServer` alone has no fairness: its clients may
  stop reading for ever.
* `MapReduce!FairSpec`: weak fairness for `mr_exec` and each thread. Threads emit finitely often,
  so a waiting thread's mutex is free for good in the end, and weak fairness is enough.
* `ThreadedChat!FairSpec`: strong fairness for each thread, the most a scheduler and its mutexes
  could give; `ShutsDown` fails even so.
* `Shell!Spec`: weak fairness for the shell's own steps. Nothing is assumed of the user or of the
  children, so what must happen is said under the condition that the shell comes back
  (`ZombiesReaped`).
* `Collector!Spec`: weak fairness for main, the acceptor and each thread; weak is
  enough for the mutex, since a client sends finitely often, so that threads leave it free for main
  in the end, and main polls no more when a thread must take it in order to stop. Clients owe
  nothing. `Stops` is about what happens when the count is reached.

## Proofs

All theorems hold for any number of clients, list slots, threads, keys, message sizes and any set
of faults, under the named assumptions on the constants, which TLC evaluates in every run, and the
hypotheses named below. Each rests on an inductive invariant, the conjunction of the parts named
here, with one lemma or step for each action.

* `ChatServer_proofs`, types and locks: `TypeCorrect`, `RosterCorrect`, `NeverSleepsOverWork`. `IInv`
  is `TypeOK` with `LockInv` (who holds a lock is at a place where it is held), `IndexInv` (a slot
  main is about to use exists), `RosterExact`, `QueueInv` (`order` from `frontier` on is the node
  and the queue), `CommitInv` (no commit before the count is complete, none after) and `FreshInv`
  (a connection not yet accepted has received nothing). `TypeOK` alone is not inductive: `slot` is
  in range only because of the lock main holds or has just dropped. `WakeInv` adds, for the
  wakeup, that from the commit to the last signal the commit is in the queue, or the worker has it
  and is stuck at the client list, whose lock main holds: so it is not the signal given without
  `queue_lock` that makes the stop safe. `NeverSleepsOverWork` assumes that `malloc` does not fail.
* `ChatServer_proofs`, refinement: `ImplementsOrderedBroadcast` maps each action to one abstract
  action or a stutter. Accept is `Join`, `remove_client` is `Leave`, enqueue is `Submit`, `Write` is
  `Deliver`, `EndBroadcast` is `Advance`. Join and leave between two broadcasts need `LockInv`.
  `BroadcastCorrect` shows of the abstract specification, from its actions alone, that every client
  has a contiguous piece of one sequence from where it joined, that members are in lockstep and that
  the commit is last, by induction on the three together; `ServerIsABroadcast` is what follows for
  the server.
* `ChatServer_proofs`, lines: `CountsExactly`, for any faults, and `Reassembles`, if `malloc` and
  `getpeername()` do not fail (the latter fails on a reset connection only). `LinesInv` says that
  each slot's buffer holds the bytes read last of its own client from behind a newline on
  (`SlotsInv`), that a client main is about to remove was read or has gone (`RemovedInv`), and that
  the Type 1 line being counted stays in its buffer until the commit is enqueued (`LastInv`,
  `EndedInv`). `PostedInv` relates the messages posted to the lines processed. The step is what one
  `handle_message` takes off a buffer: one line more of those in the stream, or none, with the ranks
  of all earlier lines as they were.
* `GroupChat_proofs`: `ClientsAreClients` (a step of `GroupChat` is a step of `ChatServer`, with
  `ClientInv` for the bytes sent), hence `GroupChatCorrect`: all of the above for the program as a
  whole. `CommitComesLast` and `NobodyIsDropped` need what `client.c` writes: `StreamInv` gives each
  byte of a client's stream by its index, so that each line fits (`2 + Header <= MaxMsg`) and Type 1
  comes last. From the count of lines (`LinesInv`) follows that at the commit everyone has finished,
  and each message was posted (`SettledInv`). `ThreadInv`, `ProcInv`, `BufferInv` and `AheadInv` say
  that this is the only way out: main never gets to `remove_client`, since who was found ready has
  bytes to read, and no buffer with a line in it is left when main goes on.
* `MapReduce_proofs`, under `ReduceEmits` (the reduce function emits pairs of keys and values):
  `TypeCorrect`, `SplitCorrect`, `NothingIsLost`, `EveryKeyIsReduced`. The split needs three facts of
  rounding up, `ChunksSuffice`, `SomeChunk` and `OneChunk`, and `SharesInv`, which ties each
  thread's record to its share. The account of a pair (`Account`) is two sets of places: those in
  the rows `Map` gives which some thread has passed, and those in the table; in every state of the
  map phase the first has as many as the second and the refused ones together, and likewise for the
  reduce phase on top of what the table had before. `KeysInv` (one entry for a key) and
  `ProgressInv` (joined threads are at their ends) make the sets at the end all the pairs there are.
* `ThreadedChat_proofs`: `TypeCorrect`, `WorkerAwake`, `CommitOnce`, `ListMatchesThreads`,
  `BroadcastHasNoGaps`. `LockInv` says who holds which lock, `FdInv` that a thread which has not
  closed its descriptor has it to itself, `CommitInv` that once the commit is enqueued whoever
  compares the count finds it too large, and `CountInv` that the list has each number as often as
  there are threads left to remove it; its step is a lemma on the cardinality of what swap-removal
  leaves (`RemoveCounts`). `BufInv` says that the Type 1 being counted is still in its buffer, so
  that the thread that takes it off finds one; `DataInv` has the other types and the bound on the
  list. For the broadcasts, `EntryInv` says that a thread has at most one entry, under its own
  descriptor, `NumberInv` how far the worker has got with the message it holds, and `GotInv` which
  numbers each client has received.
* `Allocator_proofs`: `TypeCorrect`, `HeapIsTiled`, `NoNeighboursLeft`, `EverythingComesBack`,
  `HeadersAreKept`, for both files, every fit and any sizes. The invariant is `TypeOK`,
  `OriginInv`, and until the first slip `HeapInv`: `Sound` (blocks and free chunks are disjoint,
  each once in its list, and tile the heap, and what was asked for fits in its block), `Rested`
  before the first `dealloc` (the blocks reach from the bottom up to the one free chunk, or to the
  break where there is none; it is what makes the four cases of `alloc` before it safe), a list that
  is not empty after it, and for `alloc.c` `Apart` (no two chunks of the list touch). `Apart` is not
  preserved by one step of coalescing, but established by its end: `Coalesced` says what every merge
  preserves, and that where nothing merges any more no pair touches. For `alloc2.c` the walk either
  changes nothing or is a slip. `Kept` says which size fields an operation leaves alone. For
  `AllFreed` the sizes are added up: the sum of the fields of chunks that tile the heap is the number
  of its bytes (`Covers`, `BytesAre`), which `Summed` relates to the code's sum along the list.
* `Shell_proofs`: `HistoryInv` (`Window`, that slots not in use hold no command, and that nothing
  but a blank line after a full array shortens it) is preserved by storing and by storing and taking
  back, for any `HIST_SIZE`, which is all that a shell does to it (`ShellUsesHistory`).
  `HistoryIsKept` and `RecallIsExact` follow; `TypeCorrect` adds the types of the rest.
  `NothingLeftBehind`: `LeftInv` is the property together with the fact that a shell that waits has
  a child to wait for, counted over the children that are left.
* `Collector_proofs`: `TypeCorrect`, `ListIsExact`, `EndIsClean`, `NothingLost`,
  `CutOffOnlyAtTheEnd`, `NobodyIsShort`. `LockInv` says that exactly the thread in `add_to_list`
  holds the mutex and that what it saw of the list is still so; `StopInv` gives the order of the
  shutdown, with `next` telling which threads are joined; `TableInv` that an open descriptor belongs
  to a thread that has not ended. `OwnInv` says that such a thread has its own client's connection
  behind its descriptor, or none once the acceptor is stopping; `EarlyInv` and `CutInv` add who was
  closed by whom: two threads have one number only if the earlier one was reset, and a connection is
  closed under a thread only by the join of an earlier one with its number. `KeptInv` says that what
  was read is in the list or in the thread's hand, `GrowInv` that a client's nodes follow one
  another. `NobodyIsShort` assumes `NUM_MSG = NUM_MSG_PER_CLIENT` (both are 5, `server.c` 18 and
  73): a client has then no more than its part of the count.
* `Labs_proofs`: `InsertsAreExact` for any data, modulus and calls. `ListInv` is the list's type,
  `Sorted`, and that the list has each datum as often as the calls (`Exact`); that the code's running
  sum is that of `sum_list` after each insertion is a lemma on partial sums, by induction over the
  places of the list (`PartialPutIn`, with `AddInAnyOrder` for the modulus). `CountsAreExact` for any
  words and number of threads. `PlaceInv` says who counts: main, or the threads launched; `LockInv`
  that whoever has counted a word has the mutex, since it is never given back, and so that there is
  one such counter at most (`OnlyOne`); `FoundInv` that what a look-up found is still so when the
  count is added; and `TableInv` that the table has each word done, once, with its number. That the
  chunks cover the words, and that only one word can be left where all threads return, are
  `ChunksFit` and `AtMostOne`.

### Who waits for whom

That something happens in the end cannot be proved here, but that there is always somebody who can
make it happen is a state invariant, and proved for the four programs with threads. For each thread
an operator (`MainCanStep`, `WorkerCanStep`, ...) writes out the guards of its actions: the lock it
takes is free, the thread it joins has ended, there is room or input. ENABLED is out of the prover's
reach; on the instances of `MapReduce.cfg`, `Collector.cfg` and `GroupChat.cfg`, and of
`ThreadedChat.cfg` with two clients, TLC found each operator equal to ENABLED of its thread's actions
in every state, and each theorem's formula true, before it was proved.

* `GroupChat_proofs!NeverAllWait`: if nobody can step, where main going round `select()` with nothing
  to be had does not count, the server has exited and every client is done. `StandInv` adds to the
  invariants above where main stands (it goes on to count as long as somebody has not finished, and
  is in `accept()` only if there is a connection) and where a client stands (it stops at the commit,
  which is the last it got; its sender ends only with its Type 1 line sent). The argument goes from
  the clients to the server: a client at rest has sent all and got all it was sent; so all lines
  have arrived and been counted; so main has committed and the worker, which cannot have slept
  through it (`NeverSleepsOverWork`), has sent the commit. It assumes that there is a client: with
  none expected the server counts nobody and never commits.
* `MapReduce_proofs!CallIsNeverStuck`, under `ReduceEmits`: in a call somebody can step; a thread that
  waits for a mutex waits for one that can step, and the thread that is joined has work left.
  `HeldInv` says that who holds a mutex is a thread of the phase that has a pair to add.
  `EveryStepCounts` adds that the steps of a call are bounded: each begins a later phase or lowers
  `Remaining`, a natural number. It counts, for each thread, the pairs it could still lock for and
  could still send and the elements it could still pass, as sets whose subsets are smaller
  (`FewerElements`), and mr_exec's own steps. So the call ends however unfairly its threads are
  scheduled, as long as one of those that can step does, which is more than the `Returns` that
  `MapReduce.cfg` checks under fairness for each thread (this last inference is not the prover's).
* `Collector_proofs!ServerIsNeverStuck`: the holder of the mutex can step, main joins an acceptor it
  has told to stop, and so does the acceptor with its threads (`WaitInv`); a descriptor is left for
  the next client (`DescriptorLeft`); and unless reads are cut short, what is unread of a client is
  whole messages, so that a read finds one or finds none (`WholeInv`).
* `ThreadedChat_proofs!OnlyCleanupDeadlocks` and `DeadlockIsForEver` make the finding about
  `servertest.c` 497 exact. At rest, polling aside, the server either is `Idle`, with its flag up,
  its queue empty and no lock held, or main is in `cleanup_and_exit` and joins, with
  `client_list_lock`, a thread that has to take that lock for its entry or for a Type 1 it has in its
  buffer. And once main joins such a thread, it does so for ever: unless memory runs out in another
  thread the process never exits. `RestInv` says that no thread has ended, or stopped the server,
  while the flag is up, and that the worker sleeps over an empty queue only.

### Where the prover ends

The prover has no induction over data: the library's induction theorems take an operator as a
parameter, which it cannot instantiate. Induction over a *set* of numbers can be proved, though,
from the pigeonhole principle of `FiniteSetTheorems` (`SetInduction`): if a number were missing,
adding one would map the part below it into itself without zero. With the set "the steps after
which the loop's state is as wanted" it gives what the loops of `coalesce_unsorted`, of `alloc2.c`'s
walk and of the sums over the lists of `alloc.c` and `lab6.c` do, which are functions over step
numbers in the model.

Only model-checked are the liveness properties (`Termination`, `Returns`, `ZombiesReaped`, `Stops`:
reasoning with fairness needs ENABLED, which is out of the prover's reach; the theorems of "Who waits
for whom" are what is proved of them), and `TestsPass`, which is about the calls of one test program
with its numbers, all of which TLC runs through.

## Not modelled

Start-up and its failures (before `Init`), logging, the text of addresses and payloads, memory that
is only allocated and freed. Tests are read for what they expect. `uthash.h` is third-party.

* `interface.c` 84: the number of values of a key is not checked against `MAX_VALUES_PER_KEY`;
  beyond it the program has no defined behaviour, and the model keeps values without a limit.
* `server.c` 73 and 421: with `malloc` failing for the commit, or after a failing `select()`, main
  joins a worker that may sleep for ever. `chat_limits` reaches both; no property is stated of them,
  since nothing in the code or its comments says it should survive.
* `servertest.c` 332, 367 and 386: the thread that triggers the stop leaves its connection in the
  list; the worker may exit with the commit queued, as in `server.c`; a write to a full socket is
  dropped (such clients are left out of `NoGapNoRepeat`).
* `cd` and `lastPath` of the shells: they change the working directory, which nothing else in the
  shells depends on.
* `lab9.c/server.c`: detached threads that add to one counter under one mutex and never stop. What
  it does is a part of what `Collector` does.
* The other labs and the lecture demonstrations exercise one construct or library call each; the
  tests of the map-reduce library are read for what it promises.
* Modelled, but without a property: what follows a NULL fit of the allocator (`alloc.c` 241) or the
  NULL argument of `test.c` (53), which is undefined, and the end of input of `test.c` and `test2.c`
  (`test2.c` 131), at which they prompt for ever.

## What could follow

* That a shutdown of the collector and the end of the chat take boundedly many steps, by a measure
  that each step but a poll or a spurious wakeup lowers, as `EveryStepCounts` says of `mr_exec`.
* That a suite of `main2.c` keeps within the properties of `Allocator` until the first slip: its
  calls are actions of `Allocator`, with sizes of their own.
