# netepoll: formal models

TLA+ models of the netepoll server and of the parts of its base library that keep state or decide
something, TLC runs on small instances, and TLAPS proofs for all instances. Line numbers refer to the files
under `src/netepoll/`; the comments of the sources are in GBK and are quoted in translation.

## 1. The system

netepoll is a C server (`netepoll/`). One thread waits in `epoll_wait`, accepts connections and collects
packets (a two-byte length, high byte first, and that many bytes); a pool of worker threads runs one task per
complete packet. The task in the repository, `mytask`, echoes the packet. Beneath it lies `libbase`
(`lib_s/base/`): logging, timed socket calls, text and number tools, message queues.

| Component | State | Operations | Talks to |
|---|---|---|---|
| thread pool (`threadpool.c`) | ring buffer `queue`/`head`/`tail`/`count`, `lock`, `notify`, `thread_count`, `started`, `shutdown` | `threadpool_create`, `_add`, `_destroy`, `_free`, the worker loop | `recvdata` adds, `main` creates and destroys |
| event loop and slots (`netepoll.c`, `eventctl.c`, `sock.c`) | `Ep_events[]`, the epoll interest list, the descriptors | the epoll loop, `acceptconnect`, `recvdata`, `eventsetinit`, `eventadd`, `eventdel` | kernel (epoll, accept, recv), the pool |
| packet check and task (`task.c`) | the receive buffer and its length in a slot, shared without a lock by main and the workers | `testpacket` (main), `mytask` (workers) | slots, `send` |
| start (`netepoll.c`, `getInit.c`, `initlistensocket` in `sock.c`) | global settings, the descriptors that the server keeps | `getInit`, the start of `main`, the loop that opens the port | configuration file, log files, sockets |
| log files (`openLogFile.c`) | descriptor 2, the environment variable `__LOGFILE_NOW`, the files on disk | `openLogFile`, `lprintf` | clock, other processes with the same log |
| timed calls (`tcptool.c`) | the static `_Exp_flag`, the process's alarm | `read_t`, `read_t_r`, `tread`, `accept_t`, `accept_t_r`, socket options | kernel, signals |
| date and string checks (`strtool.c`) | none | `isDate` and its parts, the checks of dates and times as text, character classes, case | |
| converters (`tool.c`) | none | `ascToBcd`, `bcdToAsc`, `asc_to_bcd`, `bcd_to_asc`, check bytes, removal of blanks | |
| environment expansion (`expandEnvStr.c`) | none | `expandEnvStr`, `getEnvVal` | environment |
| sockets (`getSrvSocket.c`, `getCliSocket.c`, `sendtoUdpSrv.c`) | one descriptor during a call | the three functions | kernel; other processes that want the same port |
| message queues (`msgtool.c`) | the kernel's queue of a key | `send_qmsg`, `recv_qmsg`, `clr_que`, `get_qinfo` | kernel; other processes with the same key |
| login settings (`getLoginInfo.c`) | the caller's three buffers | `getLoginInfo` | settings file |

What is hard in it, and what has to be right:

- **Pool.** Signals that stand for no particular task, busy workers that take tasks signalled to others,
  spurious wakeups, a ring that wraps, counters written without the lock while workers are born, a join loop
  that ends before memory is released, any library call failing half way. Correct means: no task is lost,
  repeated or slept over; destroy returns; memory goes after the last worker; a create that fails leaves nothing.
- **Loop.** Slots reused within one batch of events, descriptors reused by the kernel, a slot that is in the
  pool when its connection closes, `m_rcv_buf_len` written by two threads. Correct means: `m_status` and the
  interest list agree, each descriptor has one slot, what is received stays in the buffer, every packet of a
  well-behaved client is echoed, dead connections are reaped.
- **Packets.** A packet cut anywhere by `recv`, stale header bytes, signed `char`.
- **Log files.** Midnight, deleted files and failing calls between any two steps of two threads.
- **Timed calls.** SIGALRM at any instant, the flag of an earlier call, bytes in any portions.
- **Sockets and start.** Any system call of a sequence fails, two servers race for one port, a server is killed
  and started again, the standard descriptors are closed at start. Correct means: no descriptor is lost or
  closed by mistake, the port is served in the end, the server keeps its epoll, listening and log descriptors.
- **Message queues.** The queue is removed between `msgget` and the call that uses it.
- **Text.** Texts that are too short for the checks that read them, or too long for a local buffer; entries of
  the settings that are incomplete.

## 2. Modules

| Module | Models | Uses |
|---|---|---|
| `TaskQueue` | what the pool promises: a bounded FIFO, workers that take and finish tasks, a phase that closes it | |
| `ThreadPool` | `threadpool.c`, every lock acquisition and critical section | refines `TaskQueue` |
| `ThreadPoolProofs` | theorems about `ThreadPool`, the last that it implements `TaskQueue` | `ThreadPool` |
| `Packet` | `testpacket` as an operator | |
| `PacketReader` | the receive buffer of one connection, byte by byte | `Packet` |
| `EventLoop` | `main`, slots, callbacks, `mytask`, kernel and clients | `Packet`; `TaskQueue` as the pool |
| `EventLoopProofs` | theorems about `EventLoop`, the last about what patient clients get | `EventLoop` |
| `LogFile`, `LogFileProofs` | `openLogFile` and the checks of `lprintf`, and theorems | |
| `TimedIO`, `TimedIOProofs` | the five timed calls, and theorems | |
| `Sockets` | `getSrvSocket`, `getCliSocket`, `sendtoUdpSrv`, system call by system call, and the descriptor tables | |
| `ServerStart` | the server from its start to the epoll loop, killed and started again | extends `Sockets` |
| `SocketsProofs` | theorems about `Sockets` and `ServerStart` | `ServerStart` |
| `MsgQueue`, `MsgQueueProofs` | `msgtool.c` on the queue of one key, and a theorem | |
| `Calendar` | the date checks as numbers | |
| `DateTexts` | the checks of dates and times as text | `Calendar` |
| `TextTools` | character classes, case, blanks, check bytes | |
| `BcdCodes` | two generations of BCD converters | `TextTools` |
| `ExpandEnv` | `expandEnvStr` and `getEnvVal` | |
| `LoginInfo` | `getLoginInfo` | |
| `MC*` | instances for TLC; `MCFunctions` and `MCCalls` put several small modules into one run | |
| `FunctionProofs` | theorems about everything that `MCFunctions` exercises, a section for each function | `MCFunctions` |
| `SequenceLemmas` | induction for the proofs, and what appending, concatenating and `FlattenSeq` do to a sequence | |

`EventLoop` does not repeat the pool: it uses `TaskQueue`, and the run `pool_calls` checks that `ThreadPool`
implements `TaskQueue` with its fairness (`ImplementsTaskQueue`). For every instance the theorem
`RefinesTaskQueue` has the steps (all but the fairness). What is shown of the loop is therefore about the real
pool too.

### ThreadPool

`res` says which of pool, thread array, queue, mutex and condition variable have been acquired or given back;
`wpc` and `cpc` say where workers and callers are; the other variables have the names of the C fields.
A critical section is two steps: taking `lock`, and the body up to the release (the body touches nothing that
is read without the lock, but for `started` and `thread_count`, whose unlocked writer `Count` is a step of its
own). One action per branch of the code: `AddRefused`/`AddTask`, `DestroyRefused` (the second
call, which leaves with the mutex held, line 214), `DestroyBegin`, `BroadcastFails`, `Join`, `JoinFails`,
`DestroyEnd` (with `threadpool_free`), `WorkerLock`, `WorkerWait`, `WorkerTake`, `WorkerRun`, `WorkerExit`.
`pthread_cond_signal` wakes any one waiting worker or none if none waits; `MaxSpurious` bounds spurious wakeups.
Locking or destroying what was never initialised (`UnwindUndefined`), and using a pool that another caller has freed
(`UseFreed`), are undefined in C; both lead to a caller that goes no further. Left out: a failing
`pthread_mutex_unlock`, the NULL-argument checks, and the destruction of the mutex that `threadpool_free` holds.

### EventLoop

`m_fd`, `m_status`, `m_rcv_buf`, `m_rcv_buf_len` and `call_back` are the fields of `Ep_events[]`; `tree` is the
interest list; `batch` is what `epoll_wait` reported and main has not yet handled, in any order. A callback is
cut into steps exactly where a worker can interfere: the two reads of `m_rcv_buf_len` in the arguments of `recv`,
the load and the store of `m_rcv_buf_len += len`, the header bytes read by `testpacket`, its two comparisons.
`mytask` is four steps: evaluating the arguments of `send`, sending, `m_rcv_buf_len = 0`, clearing the header byte.

The arguments of `recv` (lines 95 and 96) use `m_rcv_buf_len` for the offset and for the size. C leaves open which
is read first, so `ReadLength` chooses, and `Recv` reads the other (a reset after the second read but before
`recv` is the same as one after `recv`, which does not look at the length). If a worker resets the length in
between, the offset is the old length and the size the whole buffer, or the other way round: the first may put
bytes behind the buffer, over `m_rcv_buf_len` and the fields after it (`Overrun`). From then on C says nothing of
the program; the model stops there (`pc = "overrun"`, `Defined`), and every property of the loop is to be read as
*up to an overrun*. `BufferKept` says that this race is the only way to it. (gcc for x86-64 without optimisation,
which is how the makefiles build, reads the size first; that order is harmless.) Simplifications: `accept` and the
`memset` of the slot are one step and `eventsetinit`/`eventadd` a second one (only main touches a free slot, and a
worker left over from the slot's former connection can act between the two); the read side of `ev->m_event &
EPOLLIN` is always true for a watched slot. Descriptors are the smallest free numbers, as POSIX says, so that they
are reused. `senddata` is dead code: no slot gets it as its handler. When `epoll_wait` fails the loop ends: `Exit`
waits for the workers as `threadpool_destroy` does, while their tasks still use the slots, and then the end of the
process closes every descriptor.

Clients send the packets of `Script`. `Habit` says when: a *patient* one acts when the server has answered it
and has finished with its slot, a *replying* one as soon as it has the answer, an *eager* one at any time.

### LogFile

The threads of one process; each system call and each access to the environment is a step. The configured name
contains the date, as in `netepoll.ini`, so a name is a day; a file is an inode number. Other processes delete
the file or its directory and create files of the same name; the clock passes midnight (`Move` bounds these by
`MaxMoves`). `disturbed` and `torn` are history variables the properties use. Not modelled: names without a
date (then `__LOGFILE_NOW` is unset and nothing is checked). A process started with descriptor 2 closed is in
`ServerStart`.

### TimedIO

Time is abstract: an alarm that was set may go off, and `select` may give up, at any step. The process has one
alarm: `pending` is the thread that set it last, and `fired` says whose alarms went off during a call. Bytes are
numbered in the order of arrival, so that `Buf` shows which part of the stream a call returned. A signal
interrupts a thread that sleeps in the kernel and changes nothing else for one that does not. Left out: `Buf ==
NULL`, a zero length, the socket option setters, `thread_sleep`.

### Sockets and ServerStart

A function of the library is the sequence of its system calls (`getSrvSocket(udp)` and so on); `todo` is what is
left of it and `sock` the descriptor it works on. `SystemCall` does the next one; `SystemCallFails` ends the
function and closes the descriptor if there is one (`Closes`). The kernel is modelled as far as it decides
something: the lowest free descriptor, a full table (`MaxFd` is the limit of open files), and `SO_REUSEADDR`,
which lets several sockets bind a port while none listens, so that two servers can both pass `bind` and one fails
in `listen`. `held` is a history variable: what the process was given, or had at its start, and has not closed.
Of a descriptor the model knows what it is and which calls were made on it; addresses are left out.

`ServerStart` puts the start of the server on top: reading the settings, opening the log on descriptor 2
(`LogTable`), `fork` (the child goes on with the same descriptors), the pool and `epoll_create`
(`StartFails` when one fails, or when it yields 0), `getSrvSocket` again and again (`Judge`), then the loop. There
`NewLogName` opens the log anew at any time, and the loop ends when its descriptor is no epoll descriptor any
more. `std` says which standard descriptors a server is started with. `Kill` ends a server anywhere.

### MsgQueue

`queue` is the kernel's queue of the key, by an identifier that changes when it is removed and made anew; a call
looks it up by `msgget` (`MsgGet`) and works with what it found, `id`. A blocked call on a queue that is gone
fails. The callers are of four kinds: one that waits for any message, one that looks for a type, one that sends,
one that clears and inspects. Left out: the texts, negative values of `Msgtype`.

### Functions without state

`PacketReader` feeds `testpacket` every prefix of every packet, with the stale second byte of the packet before.
`Calendar` walks from date to date as `isDate` accepts them and counts. `DateTexts` writes the dates of that walk,
and the day after each, in the formats of `strtool.c`; what lies behind a text in memory is a parameter, since the
checks get no length. `TextTools` and `BcdCodes` extend a text, `ExpandEnv` consumes an input item by item (an
item is a character or a reference) and cuts a long value as `getEnvVal` does, `LoginInfo` writes a file line by
line and then asks three times, for one option or the other; of each word in the caller's buffers it keeps the
call and the line that it came from. `MCFunctions` exercises one of them per behaviour, so that one run covers all
inputs of all of them.

## 3. Runs

| Run | Instance | Distinct states | Shows |
|---|---|---|---|
| `pool_calls` | 2 workers, 2 callers, 3 tasks, ring of 2, 1 spurious wakeup, one caller may destroy | 37,769 | `TypeOK`, `NoTaskLostOrRepeated`, `NoLostWakeup`, `GracefulDestroyDrains`, `DestroyFrees`, `AcceptedTaskStarts`, `DestroyReturns`, `ImplementsTaskQueue`; no deadlock |
| `pool_faults` | 2 workers, ring of 1, 2 tasks, every library call may fail, both callers may destroy | 53,792 | `PoolInv` (the inductive invariant), `StartedCountsLiveWorkers`, `PoolOutlivesWorkers`, `FailedCreateReleases` |
| `pool_double_destroy` | the same without failures | violation | `GracefulRunsPending` fails |
| `loop_patient` | 3 patient clients, 2 slots besides the listener's, 1 worker, queue of 1, buffer of 4 bytes | 184,222 | `EchoCorrect`, `OneSlotPerConnection`, `DropsOnlyForCause`, `PacketAnswered` |
| `loop_eager` | 2 eager clients on 1 slot, 2 workers, queue of 2, a packet longer than the buffer, failing system calls | 451,807 | `BufferKept`, `StatusMatchesTree`, `EofReaped` |
| `loop_reply` | 2 replying clients | violation | `ErrorMeansBadData` fails |
| `function_inputs` | years 1896 to 2105; header bytes below 128; texts of up to 4 characters, local buffers of 4; up to 3 items, buffers of 0 to 4; files of up to 3 lines, 3 calls | 335,835 | `VerdictCorrect`, `DatesAreDays`, `TextsAgreeOnDates`, `TextToolsAgree`, `ChecksAgree`, `RoundTrip`, `ExpandsFaithfully`, `MixedOnlyWhenShort` |
| `packet_signed` | a length of 128 among others | violation | `ErrorMeansOverlong` fails |
| `log_lines` | 2 threads, 3 days, 3 lines, 3 moves of others, failing calls | 1,566,567 | `TypeOK`, `LineInCurrentFileUnlessTorn`, `ReopenRepairs` |
| `log_midnight` | 2 threads, one midnight, no failures | violation | `LineInCurrentFile` fails |
| `timed_calls` | timed calls: 3 of any of the functions, records of 3 bytes, 6 bytes arrive, 2 other signals. Sockets: 2 processes, 6 descriptors, 3 calls, 1 fault. Start: 2 servers, 1 kill, 1 fault. Queue: 1 process of each kind, 2 types, 2 messages, room for 1, 1 removal or inspection, 1 failure | 183,354 | `TypeOK`, `NoStrayAlarm`, `TimeoutIsOwn`, `RecordsStayAligned`, `SelectCallsReturn`; `NoDescriptorLost`; `DescriptorsStay`, `PortServed`; `TypesInOrder`, `SentIsReceived` |
| `timed_lost_alarm` | one call of `read_t` | violation | `TimedCallsReturn` fails |

**Why the bounds are enough.** Pool: three tasks make the two-slot ring full, refuse one, and wrap; two workers
let one take the task another was signalled for; two callers race add against destroy. Loop: more clients than
slots forces a refusal and the reuse of slots and descriptors; packets of three bytes can be cut at each place
that `testpacket` tells apart; a buffer of four bytes can overflow by a pipelined packet; with one queue place and
two slots the queue fills up. Logs: `now`, descriptor 2 and the directory can all be of different days with three
days, and two threads are the fewest that race. Timed calls: records of three bytes arrive in every composition,
and the third call meets the flag of the first two. Sockets: the first process has 0 to 3 open, so that two
descriptors fill its table, the second was started without descriptor 0 or with all three; each call can fail at
each place. Start: the first server has its standard descriptors, the second any subset of them; a killed server
is started again while the other one is anywhere. Queue: room for one message blocks the sender, and one removal
comes at any step of the others. Functions: the years have three centuries of which one is leap (the theorem
covers 1700 to 2999); the characters are the ends of the ranges, letters beyond hexadecimal, a blank and a byte of
GBK text; texts of four characters fill a local buffer of four; three items put a value before and after every
other item; three lines put an entry, a comment and another entry in every order, and three calls can leave three
words of three calls in the buffers. `timed_calls` has one thread, for which `TimeoutIsOwn` says that the time was
the call's own. The `MaxSpurious`, `MaxCalls`, `MaxMoves`, `MaxArrived`, `MaxSignals`, `MaxDay`, `MaxItems`,
`MaxLength`, `MaxLines`, `MaxLogins`, `MaxFaults`, `MaxAsked`, `MaxKills`, `MaxMessages`, `MaxClears` and
`MaxFailures` bounds are guards of the actions they bound and nothing else. `pool_calls` and `loop_*` bound the
run by the tasks and packets there are. `SYMMETRY` over tasks is used in `pool_faults` only, which has no liveness
property.

**Deadlock** is checked in `pool_calls` (a run that is over stutters through `Finished`). The other systems
may stop: a failed call may leave the pool blocked, a server waits when its clients are silent, an untimed read
waits for ever, bounded calls run out. Their configurations say so.

**Fairness** is weak but for one case. Pool: a thread that can take its next step does, in particular a thread
that asks for a mutex gets it in the end when it stays free for it; starting a call and spurious wakeups are not
fair. Loop: `epoll_wait` is level-triggered and reports every ready slot, so the main thread's steps together are
weakly fair; some free worker takes a pending task and each task ends, which is the fairness of `TaskQueue` that
`pool_calls` establishes of `ThreadPool`; clients are not fair. Timed calls: a thread that can run does, and an
alarm that was set goes off; nothing obliges the peer. Start: a server that can take its next step does, `sleep`
returns; nobody has to be killed, and a new log name never has to come. Queue: a call that can go on does; a
receiver asks for any message again and again, which is strong fairness of `WaitForAny`, because a program that
receives in a loop is in the middle of a call most of the time (weak fairness would oblige it to nothing). The
other models have safety properties only.

**Mutants.** Each property of a passing run comes with a mistake (the definitions named `Bug...`, which nothing
uses) that a plausible slip in the C code would make, and that the run detects.

## 4. What the violations say

- `pool_double_destroy` (`threadpool.c:214`): a second `threadpool_destroy` leaves by `break` with the mutex
  locked; the first call and the workers wait for ever, and pending tasks are not run although
  `threadpool.h:92` promises it for a graceful shutdown.
- `loop_reply` (`task.c:32`): `mytask` resets `m_rcv_buf_len` after the answer has left. A client that sends its
  next packet on receipt of the answer has it appended to the old length and rejected as overlong.
- `packet_signed` (`task.c:9`): the length is computed from `char`, so header bytes from 128 on count as
  negative; the server rejects a packet of 128 bytes after its first two.
- `log_midnight` (`openLogFile.c:211`): `__LOGFILE_NOW` and descriptor 2 are not set together. A thread that
  expanded the name before midnight can finish its `dup2` after another has opened the new file; the names then
  agree, so nothing is reopened until the next midnight.
- `timed_lost_alarm` (`tcptool.c:64`): SIGALRM between `alarm` and the blocking `read` only sets a flag that
  nobody looks at before the read, which then has no limit.

Seen in the code while modelling, present in the models, and not stated as runs of their own: when a worker resets
`m_rcv_buf_len` between its two uses as arguments of `recv`, the offset taken first, `recv` may write behind the
buffer (`sock.c:95`; the order is the compiler's); `threadpool_free` locks a mutex whose initialisation failed,
since `threads` is allocated first (`threadpool.c:118`, `:258`; the comment at 255 has the order the other way
round); without the thread array it gives back neither the queue nor the mutex and the condition variable
(`threadpool.c:251`), as `FailedCreateReleases` states; a failing `EPOLL_CTL_ADD` leaks the descriptor
(`eventctl.c:35`); an untimed `read_t` reports a timeout that an earlier call left in `_Exp_flag`
(`tcptool.c:79`); `accept_t_r` with no limit polls (`tcptool.c:237`); two threads in `accept_t_r` on one socket
can block one of them (`tcptool.c:260`); `openLogFile` returns 0 when it opened nothing (`openLogFile.c:123`); a
failed opening is not tried again while the recorded name is current (`openLogFile.c:78`); the year 3000 has a 29
February (`strtool.c:158`); `:-` does not replace an empty value (`expandEnvStr.c:48`); a server started with
descriptor 0 closed gets 0 from `epoll_create` and gives up (`netepoll.c:31`); one started with 2 closed has its
epoll descriptor replaced by the next log (`openLogFile.c:158`); when the listening socket cannot be added to the
interest list the error is only logged, and the server runs without hearing anybody (`eventctl.c:35`);
`getLoginInfo` leaves the words of an earlier answer in the buffers for an entry with fewer than three
(`getLoginInfo.c:56`); `recv_qmsg` overwrites `*Msgtype`, so that a caller who passes the same variable again no
longer asks for any message (`msgtool.c:73`). The comment at `netepoll.c:47` speaks of a limit of one second where
-1, no limit, is passed.

## 5. Proofs

`tlapm` checks every proof; nothing is assumed but the named assumptions on constants and, where it is said, a
hypothesis of the theorem. Each inductive invariant was checked by TLC before it was proved. A proof that a step
preserves an invariant has a lemma per action or per conjunct.

**`ThreadPoolProofs`** (from `PoolAssumption`: every number of workers, callers and tasks, every queue size and set
of failing calls).

- `IInv`, the threads and the life of the pool, is inductive: `PoolInvariant`, and from it `TypeCorrect`,
  `StartedIsRight` and `NoWorkerOutlivesPool`. None of these is inductive alone. That the pool is freed only when
  `started` is 0 means no worker is alive only if `started` counts them; the unlocked increments keep that count
  only because the creating thread is alone (`CreationAlone`); the increment stays in range, and the worker it
  creates is new, because the workers that exist are a prefix of the thread array (`WorkersBorn`); a worker leaves,
  and a join begins, only under a shutdown (`ShutdownFirst`); `Arguments` types the pending call. The proof counts
  with the cardinality facts of `FiniteSetTheorems`.
- `PoolInv` adds `QueueInv` (the ring), `ShutdownInv` and `CreateInv`: `WholePoolInvariant`. The ring holds, from
  `head`, exactly the tasks accepted and not started, each once; adding and taking are lemmas about sequences read
  out of the ring modulo `QueueSize`. That gives `TasksKept`. `NoLostWakeup` is inductive only with the workers
  that were woken and have not yet reached the queue counted in; `GracefulDrains` needs that a worker leaves a
  graceful pool only when the queue is empty, and that nothing is added under a shutdown.
- `FailedCreateCleansUp` is about `threadpool_create` when it returns NULL (`FailedCreateReleases`): it leaves no
  worker and no memory, but for two cases that the property spells out. Without the thread array the queue, the
  mutex and the condition variable stay; and when the `threadpool_destroy` that follows a failed `pthread_create`
  fails itself, in its lock, its broadcast or a join, the whole pool stays. `CreateInv` is what this takes: until
  the pool is published only its creator shuts it down or releases anything (`CreatedWhole`), who is in a critical
  section has the mutex (`LockHeld`, so that the lock of the creator's destroy is not taken from it), and the
  workers joined have ended (`JoinedEnded`), so that after the last join none is alive.
- `DestroyReleases` has a hypothesis: at most one caller destroys the pool. With two it is false, as the run
  `pool_double_destroy` shows in another way: the refused call returns first.
- `RefinesTaskQueue`: `Spec` implies the specification of `TaskQueue` under the mapping of `ThreadPool`. `AddTask`
  is a `Submit`, `WorkerTake` a `Take`, the end of a task a `Finish`, the beginning of a destroy a `Close`; every
  other step leaves the mapped variables alone (`RefinementFrame`). The proof uses `PoolInv`: only with the ring
  lemmas is `Pending'` the appended sequence or the tail.

**`EventLoopProofs`** (from `EventLoopAssumption`: every number of clients and slots, every set of workers, every
script of well-formed packets, every habit, every set of failing calls). `LoopInv` is inductive (`LoopInvariant`),
up to an overrun; `LoopTypes`, `TreeMatches` and `OneSlot` follow. `SlotsOwnFds`: slots in use have different
descriptors, which are open and are the interest list. For this to survive `AcceptConnect`, the listening socket
must keep its slot (`ListenerKept`), the new descriptor be nobody's while `Register` is outstanding
(`CurrentSlot`), and `accept` find a free descriptor: a client waits or is behind one descriptor (`ClientsOnce`),
so that there are always fewer open descriptors than clients when one waits (pigeonhole). A failing
`EPOLL_CTL_ADD` is what breaks `NoOrphans`. `LengthsFit` is why `m_rcv_buf_len` remains a length within the buffer
until bytes are put behind it: between the two reads the length is what was read first or 0, what main stores is
what it loaded and what `recv` had room for, also when a worker resets it in between, and an overrun needs the old
length as offset and the reset one for the size (`OverrunShape`). `BufferIsKept` is `BufferKept`: this is the only
way, and patient clients (with plain header bytes) never get there, since no worker resets their slot meanwhile
(`EchoInv`).

The same module proves what a patient client gets: `PatientEcho` (`EchoCorrect`), `PatientDrops`
(`DropsOnlyForCause`) and `PlainDataAccepted` (`ErrorMeansBadData`), from the invariant `EchoInv`
(`EchoInvariant`). It is inductive over `LoopInv` and follows the bytes of the packet in flight: a client has got
all its packets back or all but the last (`ClientsInv`); a slot is at most once in the pool (`TasksOnce`), and as
long as it is, main neither has it in hand nor finds it readable (`TasksApart`), because nothing is left to receive
for it; buffer and socket together hold the packet, in order (`SlotData`), also that of a client that has no slot
yet (`UnservedData`). The hypotheses are what makes it true, and all three are met by the run `loop_patient`:

- `Habit = "patient"`: the client waits until the server is done with its packet. Without it the task resets a slot
  that already holds bytes of the next packet: the run `loop_reply` shows a wrong verdict, and with two workers, a
  queue of 2, `BufSize` 5 and a client that sends `<<0, 1, 11>>, <<0, 2, 21, 22>>` under the habit `"reply"` TLC
  finds a reply that `EchoCorrect` forbids.
- `PlainScript`: header bytes below 128. With others the sign of `char` makes the length wrong (run
  `packet_signed`); the second byte matters even before it is received, since the slot still holds an older one
  (`SlotsClean`).
- For `PatientDrops` also that each packet fits in the buffer and that neither `recv` nor `fcntl` fails, each a
  cause of its own to close the connection.

`FlattenGrows` of `SequenceLemmas` says what `FlattenSeq` makes of one packet more; it is about the function inside
`FlattenSeq` (`Accumulates`).

**`TimedIOProofs`** (from `TimedIOAssumption`; that `None` is none of the results and numbers is part of it).
`TimedInv` is inductive for any number of threads that share the static `_Exp_flag` and the one alarm of a process:
a pending alarm belongs to a call that will cancel it (`AlarmOwned`), and the flag, once a call has cleared it, is
set only by an alarm that goes off meanwhile (`FlagIsOwn`). Hence `TimedTypes`, `NoAlarmLeft`, `TimeoutsAreOwn`. The
last says of one thread that the time was its own; with several, another thread's alarm is the one exception, and a
real one: it replaces the alarm and sets the flag of all. `RecordsAligned` has the
hypothesis `Alone` (one thread): two readers of one descriptor share its bytes. Its invariant `RecordSoFar` says
that the buffer of a call holds what the stream had from where the last record ended.

**`LogFileProofs`** (from `LogFileAssumption`). `LogInv` is inductive for every number of threads, days and moves of
others: `LogTypes`, `LinesGoToCurrentFile`, `ReopeningRepairs`. What a thread found in `lprintf` stays true until
something disturbs it (`ChecksHold`), because, as long as no opening has failed and no two names were opened at
once (`OneNameAtOnce`), descriptor 2 is never left on a file of another name than `__LOGFILE_NOW` says
(`NotLeftBehind`). `QuietLogIsCurrent` says where the violation of `log_midnight` comes from: without failing calls,
lines go to the current file when one thread logs, and also with any number of threads when there is no midnight.

**`SocketsProofs`** (from `SocketsAssumption` and `ServerStartAssumption`: every number of processes, limit of open
files, number of calls, faults and kills).

- `NothingLost` is `NoDescriptorLost` of programs that use the three functions. That property is about the time
  between calls only; `DescriptorInv` says what holds during one. `StepsInv`: the sequence that is left has `socket`
  in front exactly as long as there is no descriptor, and `close` at its end if at all, so that the test for
  `socket` in `Closes` is a test for a descriptor. `OpenInv`: then the table has one descriptor more than the
  process holds, the one of the call. `OneEntry` says what a step that changes one entry opens or closes.
- `ServerLosesNothing` is the same of the servers, `ServerKeepsDescriptors` is `DescriptorsStay`. `ServerInv` adds
  to `DescriptorInv` what a server is working on: descriptor 2 is inherited or the log, hence never free and never
  given to another (`LogOnTwo`); the epoll descriptor is one (`EpollKept`); what is left of `getSrvSocket` ends with
  `listen` (`OpeningPort`), so that a result that is not negative listens (`PortOpened`). `LogTables` is the lemma
  about `fopen`, `dup2` and `fclose`: it changes nothing but descriptor 2, provided 2 is open.

**`MsgQueueProofs`** (from `MsgQueueAssumption`): `MessagesInOrder`. The numbers in the queue increase
(`QueueSorted`), and each is later than all that were received of its type (`QueueLater`); `Receive` keeps this
because it takes the first that fits, so that no message of the type is before it (`FirstOf`, `OneRemoved`).

**`FunctionProofs`**: every property of the run `function_inputs`, for every instance but for the two hypotheses
that `PlainVerdicts` and `CalendarCorrect` have. From `PacketReaderAssumption`, `CalendarAssumption`,
`DateTextsAssumption`, `TextToolsAssumption`, `ExpandEnvAssumption`.

- `PlainVerdicts`: `VerdictCorrect` for every set of lengths whose header bytes are below 128 (`PlainBytes`). The
  invariant relates the second byte of the buffer to the packet (it is the packet's from the second byte on, and
  some earlier packet's before).
- `CalendarCorrect`: `DatesAreDays` for every range of years from 1700 to 2999. `CalendarInv` adds that the walk
  stays among valid dates; the lemmas `LeapRule`, `LeapStep`, `MonthStep` and `YearStep` compare the code's leap
  rule with the divisions of the reference. The bound is needed: the rule is wrong for 3000.
- `DatesAgreeAsText`: `TextsAgreeOnDates` for every range of years up to 3000, NUL, separator and content of the
  memory behind the text. The texts accepted are compared with the calendar itself: the length of a month is a
  difference of day numbers (`LengthOfMonth`), and 3000/02/29 is named as the one day too many (`ExtraDay`,
  `DayAccepted`). A number of two figures is read back as it was written (`TwoFigures`); `memcpy` takes what lies
  inside the text (`MemcpyInside`) and ends at its NUL otherwise (`MemcpyAtEnd`), which is why a text that is cut
  short has too few figures, whatever follows it (`ShortIsNoDatetime`).
- `TextToolsRight`: `TextToolsAgree`. A change of case is judged character by character: letters of the other case
  change, nothing else does (`CaseOfText`). For the blanks, the last and the first character to keep are found
  (`RightEnd`, `LeftEnd`), so that what the trims return is a part of the text with blanks around it (`RightOfText`,
  `LeftOfText`), cut at its end when it does not fit in the local buffer (`FirstPart`); `deleAllSpace` does not see
  the blanks in front of and behind a text (`KeptBehind`).
- `ColumnChecksAgree`: `ChecksAgree`. A byte is the set of its bits and exclusive or the symmetric difference
  (`ByteHasItsBits`, `XorBits`), so check bytes of two texts of one length add up byte by byte (`CheckOfSum`) and
  those of two parts to that of the whole (`CheckOfParts`). `FoldedCheck` goes from group to group; the zeros at the
  end change nothing (`CheckOfZeros`).
- `BcdRoundTrip`: `RoundTrip`. The halves of a byte have no bit in common (`HalvesOfByte`), so that the `|` of one
  generation is the `+` of the other; the half bytes of a text of odd length start at the place its padding leaves
  (`StartOf`, `HalvesOfText`).
- `ExpansionFaithful`: `ExpandsFaithfully`. `ExpandInv` says that what is written is the expansion of the items
  read (`Written`), and that the copying ends with the input or where the next piece does not fit (`Ended`).
  The property itself leaves out a `:-` on a variable that is set but empty (`NoEmptyDefault`).
- `LoginsMixOnlyShort`: `MixedOnlyWhenShort`, for files with any entries, incomplete ones included. Each word in
  the caller's buffers is from the first entry for some option that was asked for; a word is older than the one
  before it exactly when the entry of the earlier word is too short to have it. The invariant is the property
  itself, with the types: a new answer takes the words of one line from the first to its last, and what stays
  behind is older.

What a recursive function computes is proved by induction all the same: the induction theorems of the library take
an operator, which the provers cannot instantiate, but `AllNumbers` of `SequenceLemmas` takes the *set* of the
numbers a fact holds of. It rests on `MinIsLeast`, and that on the well-foundedness of `<`. The values of a
recursion (`RunningExists`, `KeepingExists`, `AccumulatorExists`) are first shown to exist for every length, then
to be unique. For this the bits of a byte are written as a set in `TextTools`, not with the community module
`Bitwise`. `ExpandEnvAssumption` says of the data what holds in C: values and words are texts, and a word is short
enough for the value buffer because it stands in the name buffer, with the name.

Only model-checked: liveness and the fairness of the refinement, which need `ENABLED` (`AcceptedTaskStarts`,
`DestroyReturns`, `ImplementsTaskQueue` as a whole, `PacketAnswered`, `EofReaped`, `SelectCallsReturn`,
`PortServed`, `SentIsReceived`). Every other property of a passing run has its theorem.

## 6. Not modelled

- `strtool.c`: `genRandomStr`, which keeps no state and promises nothing but random letters and digits.
- `tool.c`: `space` (a text of blanks) and the wrappers of `strftime`.
- `tcptool.c`: the functions that set one socket option each, and `thread_sleep`.
- `openLogFile.c`: the text of a line, the debug level, the mark `__LOGERR`; log names without a date.
- `netepoll.c` and `getInit.c`: the option that shows the version, the texts of the settings, signals that are
  ignored.
- `senddata` in `sock.c`: no slot ever gets it as its handler.
- `libbase.h`, `netepoll.h`, `threadpool.h`: declarations.

The model of the loop starts with its listening descriptor in place; `ServerStart` ends where it begins. They
share no variable, and `DescriptorsStay` states what the loop relies on.

## 7. Plan

The order so far: the pool and its abstract queue, the packets, the loop on top of both, then the library by
weight of its hazards (timed calls, log files, functions), then what surrounds them: sockets, the server's start
and end, message queues, texts and settings. Every safety property of a passing run now has its theorem. What is
left are proofs that go with the model: sharper hypotheses where a theorem has one, and the facts behind the
liveness properties, step by step (which step brings a task, a connection or a call nearer to its end); their
`ENABLED` part stays with TLC.
