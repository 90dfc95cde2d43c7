# A TLA+ verification of the LP49 kernel

LP49 is a Plan 9 derived operating system that runs as a set of servers on the
L4 microkernel. Its kernel (`src/src/9/port` and `src/src/9/pc`) is Plan 9 code
in which the scheduler, `sleep`/`wakeup` and the queueing locks have been
rewritten on L4 threads and synchronous L4 messages, and error handling with
`waserror`/`nexterror` on `goto`. These modules model the parts of that kernel
where several threads meet, and the two ends of its 9P traffic: the IL protocol that
carries it and the library that file servers answer it with. TLC checks them on small
instances. TLAPS proves the safety of five of the components for every number of threads,
clerks, tags or processes: the two kinds of queueing lock, the server that takes the system
calls, the mount driver, and fork, exit and wait.

All line numbers below are of the files in `src/src/9/port` unless a directory is
named.

## The system

* **L4** schedules kernel threads preemptively. `L4_Send` waits until the
  receiver it names receives; `L4_Wait` receives from anybody; `L4_Receive` and
  `L4_Call` receive from one named thread only. There is no queue of messages.
* **Locks.** `lock`/`unlock` (`taslock-l4.c`) spin. `qlock` and `rlock`/`wlock`
  (`qlock.c`) hang a node with the caller's thread id on a list and wait in
  `L4_Wait`; the releasing thread sends the message that lets it in.
* **Sleep and wakeup** (`proc-l4.c:226-280`). `sleep` tests a condition, stores
  its thread id in the `Rendez` and waits in `L4_Wait`. `wakeup` loads that id,
  clears it and sends. There is no lock around either.
* **System calls** (`syssrv-l4.c`). A user thread calls the manager thread, which
  hands the call to one of 24 clerk threads. Several threads of one process can
  have calls in the kernel at the same time; `up` is the process, not the thread.
* **Processes** (`proc-l4.c`, `sysproc-l4.c`): a table of pcbs, fork, spawn, exit,
  wait records of exited children.
* **Block queues** (`qio.c`, `allocb.c`) carry pipes, the console, the network.
* **Name space** (`chan.c`, `pgrp.c`, `sysfile-l4.c`): a mount table per process
  group, channels with reference counts.
* **Mount driver** (`devmnt.c`): remote procedure calls of many processes on one
  9P connection, read by whichever of them holds the gate.
* **IL** (`../ip/il.c`): reliable messages in order between two machines. Three kinds of
  thread work on a conversation: processes that write and close, the one that
  brings packets in, and a timer process that looks at all conversations in turn.
* **lib9p** (`src/src/lib9p`): file servers are user programs. `srv` reads requests and
  calls the program; `respond` sends the answer, from whatever thread.

### Inventory

| Part | Source | Module | State |
|---|---|---|---|
| Queueing locks | `qlock.c`, `taslock-l4.c` | `QLock`, `FifoLock`, `QLockProofs` | modelled, checked, proved |
| Reader/writer locks | `qlock.c` | `RWLock`, `RWLockProofs` | modelled, checked, safety proved |
| Block queues | `qio.c`, `allocb.c` | `Qio` | every operation on a `Queue`; helpers on free-standing block lists left out |
| Processes, sleep/wakeup | `proc-l4.c`, `sysproc-l4.c` | `Proc`, `ProcProofs`, `ProcWaitProofs`, `ProcReapProofs` | fork, spawn, exit, wait, pid hash; safety proved |
| System call server | `syssrv-l4.c` | `SysSrv`, `SysSrvProofs` | modelled, checked, pool and answers proved |
| Mount driver | `devmnt.c` | `Mnt`, `MntProofs` | RPC multiplexing, safety proved; 9P translation left out |
| Mount table | `chan.c`, `pgrp.c`, `sysfile-l4.c` | `Namespace` | bind, mount, unmount, walk through a mount point, copy |
| File descriptors | `sysfile-l4.c`, `pgrp.c` | `Fgrp` | open, pipe, dup, close, read, write, rfork, exits; seek, pread, pwrite, directories left out |
| Pipes | `devpipe.c` | `Fgrp`, `Qio` | creation, open, close and hangup in `Fgrp`; the queues are `Qio` |
| IL | `../ip/il.c`, `../ip/devip.c` | `Il` | all states and packet types, timers, retransmission; round trip times left out |
| 9P server library | `src/src/lib9p` | `Lib9p`, `Server9p` | loop, handlers, `respond`, flush, pools; file trees left out |
| Name lookup, channels | `chan.c` | `Namespace`, `Fgrp` | references only; parsing of names left out |
| Srv and other small devices | `devsrv.c`, ... | | not reached |
| Clock, timers, `tsleep` | `portclock.c` | | `tsleep` is a receive with timeout; its one shared use is in `arp.c` |
| Interrupt thread, drivers | `../pc` | | hardware I/O |
| Pager and fork of address spaces | `../hvm` | | one server loop; needs a model of L4 address spaces |
| TCP, UDP, IP, ARP | `../ip` | | not reached |
| Storage, network interfaces | `devsd.c`, `cache.c`, `netif.c` | | hardware programming; the extents of `cache.c` not reached |
| Active objects, libc, draw, commands, shell | `src/src/lib*`, `src/src/cmd` | | user level, not reached |

`PROJECT.json` has the same list with the reason for every part that is left out.

## Modules

Each module has the state of a component as VARIABLES and a program counter per
thread. A stretch of code between two points at which another thread can see or
change shared data is one action; an `ilock`, `lock` or `exl` section of a few
assignments is a single step where nothing in it waits. Every action is mapped to its lines
in `PROJECT.json`. A definition called `M_...` is a deliberately wrong variant of
the definition that follows it; it is used by no specification, and shows that a
property notices the error.

Some of the code goes wrong in a way after which little can be said of it: a waiter is
stored into freed memory, a channel is closed twice, a count loses an update. The models
take these steps and record them in a history variable (`stray`, `garbled`, `clash`,
`torn`, `lost`); the properties say what holds until then, and that nothing else breaks
it. The section on what does not hold has the statement without the proviso.

**QLock** (`qlock.c:52-133`). `key` is the spin lock `q->use.key`, `locked` and
`queue` the lock, `pc` the place of each thread, `dst` the receiver of an `L4_Send`.
`QlockTake`, `QlockEnqueue`, `QlockWait`, `CanqlockTry`, `QunlockHandOver` and
`QunlockFree` are the branches of the three functions; `L4Rendezvous` is the
message. **FifoLock** is what a QLock promises: an owner, a queue, service in the
order of arrival. `QLock` is shown to implement it, with the owner read off the
program counters, since `locked` stays 1 while the lock is handed over.

**RWLock** (`qlock.c:135-309`) keeps the list as linked nodes, because `wlock` does
not move the tail (line 236) and the difference between list and queue is the
point. All locks take their nodes from one heap, and `malloc` may return any free address. A
node is freed by the thread that takes it off; a later waiter may hang on a node that is free
or, by then, a node of another lock, as in the code. `owner` says for which lock an address is
allocated, and `stray` records that a waiter was hung on one that is not a node of its
lock. `panic` (`../pc/devcons.c:350`) comes back, since `exit` (`../pc/main-l4.c:335`) does
nothing; the second one loops, with `use` held. Each thread is in one call at a time: a thread
that asks for a second lock while it holds a first one is two threads of the model.

**Qio** (`qio.c`). Blocks are sequences of bytes `<<thread, number>>`, so the order of a
stream can be stated; `len` and `dlen` are the two counts the code keeps, `live` the
number of blocks allocated and not freed. `que` is the queue that was opened: its
flags (`Qmsg`, `Qcoalesce`, non-blocking) and who uses it with which operations; it is
chosen in `Init` and never changes. Readers, writers, controllers (close,
hangup, reopen, flush, noblock, setlimit) and drivers (the interrupt side
operations) are separate threads. `sleep` is four steps: the two reads of its
condition, the store, the wait; `wakeup` is the test of `r->p`, its load, its clearing and the
message, so that two wakeups at once may find nobody to send to. Every call
passes a single block. Errors of a closed queue are the returns they lead
to. `MaxAtomic` stands for 64 kB, `Hdrspc` for the head room of a block.

**Proc** (`proc-l4.c:113-590`, `sysproc-l4.c`). A pcb has pid, parent, parentpid, nchild,
nwait, waitq, state and the rendezvous `waitr`. A thread is a pair of a pcb and a
number; every process has a thread 1, and only that one exits. A thread that is awakened
in `pwait` with no record to take dereferences nil; so may one that reads the list of a
process whose exit is freeing it. `rfork` and `spawn` take a pcb, hash it, link it, start it; `pexit` goes
through leaving the record, the wakeup, killing the thread, unhashing,
freeing its own records. `MaxWait` stands for 128.

**SysSrv** (`syssrv-l4.c:87-456`). The manager allocates a clerk *before* it waits for
a call. What a call does is one of five kinds: returns, blocks until another call
unblocks it, exits, execs, or is a message too long to receive.

**Mnt** (`devmnt.c:1039-1530`). An RPC is a header with a tag, taken from a free list of
bounded length or allocated. `rip` is the process that reads, `queue` the RPCs
outstanding. Several threads may work for one process. The server (`Answer`, `Hangup`) is
external: it answers each request it has received, in any order, may hang up, and may send a
message that `mntrpcread` refuses: the RPC of the reader is then given up (`garbled`) although
its reply may still come, for a tag that is soon used again. A thread whose write fails opens the
gate if `m->rip` is its process, even when another thread of that process reads
(`clash`, line 1047); two readers then take each other's blocks from `m->q`, and what they read
may be anything.

**Namespace** (`chan.c:705-1081, 1250-1381`, `pgrp.c:74-163`, `bindmount` and
`sysunmount` of `sysfile-l4.c`). One process group with two processes; heads and
channels are numbered as they are made. The locks of table and heads are
reader/writer locks as they should be: what their list does is `RWLock`'s subject. In which
order those who wait get a lock is left open, and a reader may have to wait for a writer that is
only queued. `stray` records that a call took or closed a channel it had no reference to: a
mount that fails closes `bc` twice, and `domount` takes a mount point that was freed.
`walk` is a step through one mount point: `findmount`, `domount`, `ewalk`, the union,
and the closing of the path. `use` is what the two processes do, chosen in `Init`.

**Fgrp** (`sysfile-l4.c:58-437, 950-1232`, `dupfgrp` and `closefgrp` of `pgrp.c`, the
descriptor part of `rfork` and `pexit`, and `devpipe.c`). A table has `fd`, `nfd`, `maxfd` and its
references; a channel has references, a mode and the offset, and `count`, the bytes
really transferred, as history. A call loads `up->fgrp` and locks it in a later step.
`torn` notes that a process has exited or changed its table while another of its
threads was in a call: what a table promises is stated up to then, and `Nilref` is what
such a thread may meet. `read` is modelled as it is compiled (`USE_MAPPING`): the result
of the device is added to the offset, an error too. A pipe has a reference for each
channel and for each end a count of the open ones; `shut` says that a queue is hung up
or closed. The pipe of `syspipe` has no name; a pipe that is bound in the name space is
opened again and again, in two steps (`pipewalk`, `pipeopen`).

**Il** (`../ip/il.c`, `Fsprotoclone` and `Fsnewcall` of `../ip/devip.c`). The `Ilcb` of
each end is a record with the fields of the code. A packet is processed in one step,
since `iliput` locks the conversation. `ilkick` and `ilackproc` do not: in the cases
that name an end as `racing` the state they read (`KickTest`, `TickRead`) and what they do
with it are separate steps. The timers only decide when the timer process acts, so any
may expire at any tick: every choice of timeouts is among the behaviours. The network
is a set of packets: each may be lost, delivered, or delivered and kept. All connections
use the same ports, so nothing but ids tells the packets of an old connection from
those of a new one. `passed` and `got` record what was given to the reader.

**Lib9p** (`srv.c`, `req.c`, `fid.c`, `intmap.c`). `mem` has the objects and the two maps of
the server; an object is numbered when it is allocated, so the use of a freed one would
show. `th` is the stack of calls of `respond` of each thread (`respond` calls itself for
the flushes that waited), each in one of five places: before the `r...` function of its
type, before `wlock`, before the write, before `responded` is set, in the loop over the
flushes. The program behind the library answers at once, or leaves the request to a
worker that answers it later. The client reuses a tag only when it has received the
answer. `incref` and `decref` are plain increments (`srvthread-l4.c:15`): `LostUpdate` is a step
in which two threads update one count and one update is lost; it sets `lost`, and the model goes no
further. **Server9p** is what the protocol promises: a request is answered once, and a flush
not before the request it flushes. `Lib9p` is shown to implement it.

**Lists** has the one operation on linked lists that `Proc` and `Mnt` share, the removal of
an element.

## Runs

Deadlock is checked in `qlock`; everywhere else a run ends where
its bound is used up, or threads rest in a `sleep` that nothing need end, and the
liveness properties say what must not stop.

### What holds

| Run | Shows | Bound |
|---|---|---|
| `qlock` | exclusion; a waiter is on the list or its message is under way; a FIFO lock; every waiter gets in | 3 threads, any number of calls |
| `rwlock` | until a waiter is hung on memory that is no node of its lock, or a panic: no reader beside a writer; `readers` and `writer` exact; the list names only threads that wait for this lock; who is sent to is on its way to `L4_Wait` in `rlock` or `wlock`, and has one sender | 3 threads, 2 locks, 3 nodes, any number of calls |
| `qio` | `len` and `dlen` are the sums over the list; no block is lost or freed twice; taken, carried and queued bytes together are one growing stream (if nothing is dropped); without a driver the queue exceeds the limit by no more than the block that crossed it and one that a reader puts back; what is delivered is in order; a write to a non-blocking queue returns | six kinds of queue with two users each, limit of 4, pieces of 2, writes of 1 and 3 (and 0), 5 bytes in all; and a reader and a writer with 2 control calls (close, hangup, reopen; flush, noblock, a new limit) between any two steps |
| `proc` | `nchild` never counts too few and `nwait` is exact; wait returns each child once and only to its parent; only a thread of an exiting process finds `wq` nil; no `wakeup` waits for a receiver for ever; the pid hash is exact; `pexit` ends | 3 pcbs, one with two threads, all calls, room for one record |
| `syssrv` | a clerk is free, in the manager's hands or at work, exactly one of them; an answer is to the call that was made; a job is not overwritten; a call that waits for nobody is answered | 2 threads of one process, 2 clerks, all kinds of calls |
| `mnt` | tags unique; the queue is exactly the RPCs not answered; until a write error opens the gate under another thread of the process: at most one reader, the gate is shut only for a process that reads or is about to open it, and no `wakeup` waits for a receiver for ever; until then, and until a bad message: an RPC ends with its own reply | two threads of one process and one of another, 3 RPCs, one hangup or one bad message |
| `namespace` | counts of heads exact, and those of channels until a call takes or closes one it has no reference to; no process has a freed head in its hands; `findmount` finds a mount; a copy has the ids in the order of the original, and what it has linked stays mounted until they are given out; a lock is held only inside a call, and of the calls in progress one can always go on | 2 processes, 2 files, 3 calls of mount, close, unmount, walk, rfork in any order of mounting, or of bind, unmount, walk, rfork and a mount that fails |
| `fgrp` | until a process drops its table under another of its threads: references of tables, channels and pipes exact, no descriptor above `maxfd`; an unnamed pipe is hung up when and only when one of its ends is closed; a process that shares a table never meets a freed one; the offset of a channel open for writing only is what was written and reserved | 2 processes, one of two threads, 3 calls from a table with one or two descriptors, or with an end of a named pipe; room for 2; writes of 2 bytes; files opened for writing |
| `il` | what is passed to the reader is what the peer wrote on this connection, once and in order; what is no longer kept was received (see below for the starts these two depend on); two established ends mean each other's connection or neither does; a conversation comes to rest | four cases: 2 messages over a network of 2 packets; two connections one after the other, both ends closing; overtaken writer and timer of the client with `iladvise` and death, and of the server with a message; starts that increase; window of 2, `MaxRexmit` 0 (one retransmission), input queue of 1 |
| `lib9p` | up to the first lost update of a count: references of requests and fids exact, `respond` called once; client and server agree on the fids when nothing is under way; implementation of `Server9p`; a flush of another tag is answered | four clients of up to 4 requests: attach, walk, clunk; auth and flush on 3 tags; auth, attach, remove; version, attach, open, create, read, write, stat; one worker |

The type invariant of a module is checked together with the counts it keeps: `LockInv`,
`QueueInv`, `ProcInv`, `RpcInv`, `RefInv` and `FgrpInv`.

The bounds are small but past the point where each hazard appears: three threads
are the owner, a waiter and a third that queues behind or tries; a limit of 4 with
blocks of 3 (a byte of head room, two of data) is crossed by the second block, and a
half of 2 is reached only by emptying; one wait record makes the second child meet the
full list; two clerks are both taken when a call waits for the other; three calls on the
mount table are a mount, and two calls that meet on it; three calls on descriptors are an
`rfork` and two calls that meet on the table it shares, or two `close` that lower `maxfd`
and a call that raises it. In `il` a message, its retransmission and an acknowledgement
can overtake each other, and the second connection meets packets of the first; a case has
either many packets or overtaken threads, not both, which is what keeps it finite in
practice. In `mnt` `MaxFaults` counts the hangup and the bad message. In `lib9p` four requests are one to be flushed, two flushes of it and a
request that reuses a tag. What is listed below fails within bounds of this size.

### What does not hold

Two runs check a statement that a comment of the repository makes; TLC finds a
behaviour of the code that contradicts it.

| Run | Statement | What happens |
|---|---|---|
| `rwlock_list` | `qlock.c:34` "list of waiting threads" | a writer does not become the tail (line 236); the next waiter replaces it |
| `qio_starve` | `qio.c:1242` "make sure other end gets awakened" | `wakeup` comes between test and store of `sleep` (`proc-l4.c:230-231`) |

The modules define the following statements too. Each fails, mostly for one of the two
reasons above, so none has a run; those marked "without its proviso" have one with it, and
`Il!AckedReceived` one with constants that leave out the case named here. The last column says
which constants, other than those of the named `.cfg`, make TLC show it.

| Definition | Statement | What happens | Instance |
|---|---|---|---|
| `RWLock!NoPanic` | `qlock.c:188` | `runlock` finds a reader at the head | `MCRWLock` as it is |
| `RWLock!ReaderWriterExclusion`, `CountersExact` | `LockInv` without its proviso | `panic("runlock")` returns and the reader at the head is let in as a writer; or a waiter is hung on a node of another lock | `MCRWLock` as it is; 5 threads for the second |
| `Qio!WriterRestarted` | `qio.c:982` "if writer flow controlled, restart" | lost wakeup of the writer | `MCQioStarve`, 6 bytes |
| `Qio!RlockMutex` | `qio.c:63` "mutex for reading processes" | a late `wakeup` ends the wait of `qlock` | 2 readers with `qread`, 2 drivers with `qiwrite` of 1 |
| `Qio!ClosedStaysEmpty` | `qio.c:1418` "No further IO is permitted" | `qproduce`, `qiwrite` do not test `Qclosed` | controller with `qclose`, driver with these |
| `Qio!BlocksAccounted` | `qio.c:525` "remember to free this" | `qconsume` of nothing but empty blocks | the `Output` queue with writes of 0 as well |
| `Proc!WaiterAwakened` | `doc/Process/proc.c:726` | a child exits between test and store of `sleep` | one thread each, `rfork`, `exits`, `await` |
| `Proc!OrphanLeavesNothing` | `proc-l4.c:460` | `RFNOWAIT` parentpid 0 equals the pid of a dead parent | with `rforkNowait` |
| `Proc!NchildExact` | `portdat.h:686` "Number of living children" | early return of `sysspawn` (`sysproc-l4.c:438`); decrement inside a condition (`proc-l4.c:466`) | with `spawn`; or `MaxWait` of 1 |
| `SysSrv!NeverOutOfClerks` | `syssrv-l4.c:312` | all clerks in blocked calls | only "block" calls |
| `Mnt!OneAtATime` | `devmnt.c:1082` "one at a time"; `OneReader` without its proviso | a write fails and `m->rip == up` holds for another thread of the process, which reads | `MCMnt` as it is |
| `Mnt!OwnReply` | without its proviso | an RPC is given up for a bad message, its tag used again, and the reply to the first comes | `MCMnt` as it is |
| `Mnt!RpcEnds` | `doc/Process/proc.c:726` | lost wakeup at the gate | 2 RPCs, no faults |
| `Namespace!UnionStartsAfterC` | `chan.c:1266` "mh->mount->to == c" | the list changes between the two locks | `MCNamespace` as it is |
| `Namespace!NoClosePanic` | `chan.c:555` | `domount` references a channel already closed; or `_ERR_4` falls to `_ERR_1`, which closes `bc` again (`sysfile-l4.c:1714`) | `MCNamespace` as it is |
| `Namespace!ChanRefsExact` | `RefInv` without its proviso | the same | `MCNamespace` as it is |
| `Il!AckedReceived` | with starts that do not increase (`nrand`, `il.c:1219`) | an acknowledgement of an earlier connection on the same ports frees messages that were not received | client starts 20, 10, server starts 40, 50; one message, `cut`, network of 2 |
| `Fgrp!OffsetExact` | `sysfile-l4.c:992` "The number of bytes read on this fd (c->offset)" | a failed read adds its error to the offset; one of two reads at offset 0 rewinds after the other has read | `MCFgrp` as it is |
| `Lib9p!RefsExact` | `intmap.c:98` "Inc() is expected to have its own locking"; without its proviso | two threads in `incref` or `decref` of one object | `MCLib9p` as it is |

The starts decide about `AckedReceived` and nothing else there: on the instance of its row,
which takes too long for a run, `InOrder` and `StartsAgree` hold, and with client starts 10, 20
all three do. With a network of one packet, as in `il`, the failure does not show. `InOrder`
depends on the starts in another way: those of the runs are more than a window apart, and `nrand`
does not see to that; a late message of an old connection whose id lies in the window of the new
one is taken for one of its own.

Four things the models do that are no statement of the repository, and that a reader of the
code may want to know:

* `illocalclose` in `Ilsyncee` (`il.c:692`) does not hang up the queues: a process that
  has accepted the call and reads it waits on.
* A flush of its own tag is seen by `sflush` (`srv.c:259`), but `rflush` puts it on its own
  list: it is never answered. `FlushAnswered` excepts it.
* A fid that is not open has `omode` -1, and -1 & 3 is `OEXEC`: `sread` (`srv.c:498`) calls
  the program.
* A named pipe of which one end was closed for the last time stays hung up until the
  other end is closed too (`devpipe.c:266`), even if the first is opened again.

### Fairness

L4 runs every ready thread: weak fairness of each thread's steps. A thread in user
space need not call: calls have no fairness. In `QLock` and `RWLock` the spin lock
is taken by test-and-set in a loop that yields, so a thread that finds it free again and
again gets it in the end: strong fairness of taking it. In `SysSrv` L4 keeps the
threads that send to the manager in a queue: strong fairness of receiving from
each. In `Mnt` strong fairness stands for getting the spin
lock `m->_lock`, which is held for a bounded time; the server also answers every
request: weak fairness of `Answer`. `Qio` and `Proc` have weak
fairness of every thread inside a call, and one assumption about the users each: the
readers of a queue read again (`Call`), and a process that has a parent exits in
the end (`Pexit`). Without them nobody need ever drain the queue, or end a wait. In `Il` the timer
process comes round for ever: weak fairness of its steps, and strong fairness of
`TickTimeout`, since a timeout once set passes although the timer process has other things
to do first; packets have no fairness and may all be lost. In `Lib9p` a thread inside
`respond` goes on (weak fairness); that the program ever answers is not assumed.
`Namespace` states that nobody is stuck as an invariant, and `Fgrp` has no liveness.

## Proofs

`QLockProofs` (for every set of threads, from the assumption that `NoThread` is no
thread):

* `TypeCorrect`: `Spec => []TypeOK`.
* `Exclusion`: `Spec => []MutualExclusion`, and `WaitersKept`: `Spec => []NoLostWaiter`.
  Neither is inductive: that `qlock` may take the lock when `locked` is 0 says
  nothing by itself about who is inside, because the lock is owned by a thread that
  is inside, or by a waiter whose message is still in the hands of the sender.
  `IInv` says that (`OwnerInv`: an owner exists exactly when `locked`, and is unique),
  that the spin lock protects the decisions (`SpinInv`), and that list, waiting
  threads and messages under way are the same threads, each once (`ListInv`).
  `InvStep` proves it preserved, one step per action.
* `Refinement`: `Spec => ImplementsFifoLock`, by steps, with the owner of the abstract
  lock defined from the program counters and `OwnerFacts` that `IInv` makes it a
  function of the state.

`SysSrvProofs` (for every finite set of clerks, any clients and calls):

* `Invariant`: `Spec => []IInv`. `PoolExact` and `AnswersOwnCall` are not inductive. A failed
  receive puts back whatever `cp` names, so `HoldsClerk` says that the manager has a
  clerk exactly while it waits or sends. A job is filled in one step before its clerk
  sees it, so `ServedInv` extends `AnswersOwnCall` to the job the manager is about to
  send. `PlacesStep` and `ServedStep` prove the two halves preserved, one step per
  action. `SetupFacts` says that the pool is set up with every clerk once, in any order.
* `TypeCorrect`, `PoolKept` and `AnswersRight`: `[]TypeOK`, `[]PoolExact` and
  `[]AnswersOwnCall` follow from it.
* `JobsKept`: `Spec => JobKept`: the manager fills in only the job of the clerk it
  holds, which by `PoolExact` is not at work.

`RWLockProofs` (for any locks and nodes and every finite set of threads):

* `LockCorrect`: `Spec => []LockInv`, exclusion and exact counters; `WakesWaiters`:
  `Spec => []WakesOnlyWaiters`; `WunlockNeverPanics`: the panic of `wunlock` is not reached.
  All three hold as long as the kernel is `Sound`: no panic, and no waiter hung on memory that is
  not a node of its lock.
  The list loses waiters, so nothing can be said of `q->tail`, which may name a node that
  was freed and used again. `IInv`, which says `Sound => Good`, therefore speaks of the
  allocated nodes only: each names
  a waiter of its own that was not sent to (`NodesInv`), and links lead from allocated nodes
  and `q->head` to allocated nodes of the same lock, no two to the same one (`LinksInv`), so
  that freeing the head leaves no link to it behind. `SendInv` ties the messages under way to their
  receivers. `CountInv` is the part of `LockInv` about the counters without its condition
  that `use` is free.

`MntProofs` (for every finite set of threads, and at least as many tags as threads:
`alloctag` has a map of 65536 bits, for a few dozen kernel threads):

* `HeadersExact`: `Spec => []RpcInv`, whichever threads share a process. `IInv` adds that no
  header is lost (`NoneLost`), and what a thread knows at each place of its locals and of
  `r->done` (`LocalsFit`): when `mountio` leaves the loop without an error its request is
  off the queue. `FreeTag` shows that a thread that asks for a tag finds one, by counting;
  it rests on `NatMin`, the least element of a set of numbers, which follows from the
  library's theorem that the subsets of a finite set are well-founded.
* `GateExact`: `Spec => []OneReader`, `WakeupsMeet`: `Spec => []SendsMeet`, and
  `RepliesMatch`: `Spec => []OwnReply`, whichever threads share a process. The three properties
  end at a `clash`, the last also at a bad message; the table above shows why the first and
  the last have to. Until a `clash` `IInv2` has the gate (`ReaderInv`) and the threads that
  `r->p` names (`WakeInv`); until a bad message `IInv3` adds the journey of a request
  (`MessageInv`, `ReplyInv`): a message at the server, on the wire or in the reader's hands
  has the tag of an RPC that waits for exactly that reply, and is the only one with it.

`ProcProofs`, `ProcWaitProofs` and `ProcReapProofs` (for any number of processes, threads
and wait records; from `NCore < HtSize`, 4 and 128 in the code, which puts the core
processes in chains of their own):

* `CountsAndTable`: `Spec => []ProcInv`. `EachReapedOnce`: `Spec => []ReapedRightly`.
  `SleepFindsRecord`: `Spec => []NoNilref`. `ExitSendsMeet`: `Spec => []SendsMeet`.
* All rest on one `IInv`, whose parts need each other: `SlotInv` (a pcb is free, in the
  hands of one `newproc`, or in use), `PidInv`, `FamilyInv`, `ExitInv` (only the main
  thread of a process exits, and the process keeps its pid until it is unhashed), `ExlInv`
  (who holds `exl`), `WaitInv` (one thread of a process is in `pwait`, and `waitr` names it
  while it sleeps), `RecordInv` (who wakes the parent has left a record there), `ReapInv`
  (a record is of one child past its exit, on the list or returned), `ChildInv`, `BoundInv`
  and `HashInv`. TLC has checked each part on the instance of `proc`.
* `ProcInv` says that `nchild` never counts too few children. That it stays in the bounds
  of `TypeOK` needs more, since it is decremented only where a record is left: `ChildInv`
  has all children as its upper bound, and those past their records, as a debt, as its
  lower one. That `pidalloc` does not exceed `NProc` is the pigeonhole principle on
  `PidInv` (`PidBound`).
* The order of the proof is `Flow` and `Frames` (where each step leads and what it leaves
  alone), one lemma `...Step` for each part of `IInv` (`SlotsStep` for pcbs, pids and families
  together), and `IInvStep`. Each is proved from all of `IInv` before the step and the types after it.

`ListLemmas` has what these proofs need to know of the kernel's lists: taking the first
element, putting one in front and removing one (`Lists!Unlink`: `mntqrm`,
`mountmux`, `pidunhash`).

Only model-checked:

* all liveness (`EveryWaiterGetsIn`, `NonblockingWriteReturns`, `ExitEnds`, `WorkAnswered`,
  `FlushAnswered`, `ComesToRest`): the prover has no fairness and no `ENABLED`;
* `Lib9p`: `closereq` is a recursive operator, which keeps the SMT prover out of the module;
* the counts of `Qio`, `Namespace` and `Fgrp`: they are sums over blocks, mounts and tables,
  and what such a sum becomes when an element changes is an induction over data, which is
  not available here. Their other invariants lean on the counts: a block, channel or table
  is not freed while somebody has it because its count says so;
* `Il`: an inductive invariant would have to describe every packet in the network in each
  pair of states of the two ends; it was not attempted.

## Not modelled

* A freed header, node or mount that is read afterwards with the allocator's data in
  it (`devmnt.c:1451-1452`, `chan.c:1284`): the list of hazards names the places.
* What follows the second reader of a connection beyond the choice of any message, and lists of
  several blocks handed to a queue (`qpass`, `qaddlist`).
* Notes and flushed RPCs: notes are not implemented on L4, so no call is interrupted.
* Failure of `malloc`: `smalloc` waits for memory, and most results of plain `malloc` are not
  tested; `growfd` and `dupfgrp` do test them, and there the failure is left out.
* pcbs are not reused: `pexit` leaves them `Moribund` and nothing puts them back.
* IL: adaptive round trip times and rates, checksums, ids near 2^32 (the code compares
  them without regard to wrapping), the several pending calls of a listener and its close.
* lib9p: file trees (`file.c`), duplicate tags, requests in progress when `srv` ends,
  and what follows after a count has lost an update.
* Parts of the inventory marked "not reached": they are within the method's reach and
  were left for the size of the system, not because something stands against it.
