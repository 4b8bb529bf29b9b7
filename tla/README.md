# ezcfg in TLA+

A verification project for ezcfg (`osdrv/ezcfg/ezcfg-0.1`): the configuration
library **libezcfg** and the daemon and tools **ezcd** of an embedded Linux
board. Paths below are relative to `osdrv/ezcfg/ezcfg-0.1/`; `L/` stands for
`libezcfg/src/`.

The project holds specifications of the parts listed below, TLC configurations
that check them on small instances, and TLAPS proofs, for instances of any
size, about six of them: the library context, the nvram store, the master and
its workers, run control, the protocol workers with the client API, and the
flash.

## 1. Inventory

ezcfg keeps the configuration of a device as name/value entries ("nvram"). A
program creates a *library context* from a JSON text, reads and changes
entries through it, makes lists, sockets, threads and processes that refer to
it, and deletes it. The environment agent `ezcd` is such a program. The
repository also retains, under `L/bak` and in `ezcd/src/ezcd.c`, the threaded
daemon: a master thread that accepts connections, workers that serve them and
a signal thread. Of ezcd the current
`Makefile.am` builds `main.c`, `agent_env.c`, `eznvc.c` and `rc_agent.c`; the
other run-control scripts (`ezcd/src/rcso`, `ezcd/src/pop`), `rc.c` and
`L/bak` are in the repository in the middle of a refactoring. They hold most
of the program's logic and nearly all of its concurrency, so they are modelled
as they stand. Where two pieces do not meet in this commit, section 3 says how
the model connects them.

| Component | State | Operations | Interacts with | What is hard | What makes it correct |
|---|---|---|---|---|---|
| Library context, `L/common/ezcfg.c` | `this_ezcfg`, `ezcfg_ref_counter`, `ezcfg_ref_mutex` | new, del, inc_ref, dec_ref | every object of the library | concurrent new and del, a del that waits, failed construction, pointers kept without a reference | the counter is exact; a context in use is never freed; one context at a time; the mutex comes back |
| nvram store, `L/common/nvram.c` | node array, counters, heap strings, `nvram_mutex` | set, unset, get, match, batch, namespace listing, new, del | context, linked lists, API | array search and moves, blocks shared by accident, allocation failures, limits | bounds, ownership of blocks, exact accounting, reads return what was written |
| meta nvram, `L/common/meta_nvram.c` | one buffer of `name=value` strings and a header | set, unset, get, listing | context, nvram | byte arithmetic, loops that do not advance | buffer well formed, loops end |
| Master and workers, `L/bak/thread/{master,worker}.c`, `ezcd/src/ezcd.c`, `libezcfg/api/src/api-master.c` | socket queue, counters, two mutexes, three condition variables, stop flag | accept, put, get, serve, stop_worker, finish, reload, stop | kernel sockets, signals | lock order, lost wake-ups, timeouts, shutdown | FIFO queue, exact counters, nothing lost or served twice, stop and reload end |
| Agent master and workers, `L/bak/agent` | as above | as above | as above | as above | as above |
| Run control, `ezcd/src/rc.c`, `ezcd/src/rcso`, `ezcd/src/utils` | one System V semaphore, the rc queue number, processes, files, mounts | boot, start, stop, restart, reload of every service | files of `pop`, daemons, nvram | two rc programs at once, daemons that end late, failures in the middle of a script | one instance of a daemon, a reported success is one, nothing half-done is left, everyone gets a turn |
| Generators, `ezcd/src/pop` | configuration files, the gateway description | write one file from nvram | run control, nvram | nvram changes while it is read | a file is complete, agrees with nvram, and keeps the UDNs |
| Documents, `L/bak/{xml,html,css,soap,igrs}`, `L/bak/http/admin` | an array of tags, indices kept by the builders, the request's text | build one page or message, free it | http, nvram, workers | indices that move, an allocation that fails anywhere, text freed by a reset | tags nest and keep their order, no stale index, nothing leaked or used after free, success means complete |
| json, `L/common/{json,binary_tree,stack_list}.c` | a binary tree, a stack, marks, a length | parse, write, list of pairs, reset | context, nvram | an explicit stack, counted lengths, failures anywhere | accepts json and only json, writes what was read, frees once |
| Protocol workers, `L/bak/thread/worker*.c`, `L/bak/agent/agent_worker*.c` | objects of a request, two mutexes | one handler per protocol | master, documents, auth | error answers through several levels, shared http structure | one answer, everything freed, locks given back |
| Client API, `libezcfg/api/src` | semaphores, a connection | nvram, ctrl, ipc, ezctp, agent, uuid calls | the daemon | daemon not yet up, refused or silent, many exits | locks given back, success is the daemon's |
| Flash, `api-ubootenv.c`, `api-firmware.c` | erase blocks, a checksum, partitions | set a variable, upgrade | the boot loader | power lost between blocks, exact fits, partitions that are missing | the environment is readable and as set, parts are in place |
| Linked lists, `L/basic`, `L/common` | nodes, length, owned data | insert, append, remove | everybody | empty and one-element lists | the structure is the sequence it claims |
| Thread, `L/basic/thread/thread.c` | state, `thread_state_mutex` | new, start, stop, del | context | STOPPING is never left (`:411`) | a stopped thread can be deleted |
| Process, `L/basic/process/process.c` | list of children, `process_mutex` | new, del | context, nvram | the mutex is not given back (`:278`), the child after a failed exec (`:234`) | mutex given back |
| sockets, http parser, auth, utilities | buffers | parse, format, send, receive | each other | text handling | inverse operations, bounds |

`PROJECT.json` lists every component with its status, and the hazards of the
code with their lines and the properties aimed at them.

## 2. Plan

1. *(done)* `Nvram`; `EzcfgContext` and its proofs; `SocketQueue` and
   `MasterPool`, which implements it.
2. *(done)* `Script` and the run-control modules `RcCommand`, `RcPop`,
   `RcScript`, `EnvAction`, `RunControl`.
3. *(done)* `XmlTree`, `DocCommand`, `AdminPage`, `SoapMessage`, `Document`;
   `IgdService`, `IgdDescription`.
4. *(done)* `JsonText`.
5. *(done)* `WorkerScript`, `ApiCall`, `Session`; `Flash`.
6. *(done)* Proofs: `PoolSound`, `ConnConserved` and the refinement of
   `SocketQueue` for `MasterPool`; `MemorySafe`, `GetReturnsStored`,
   `InsertKeepsNodes` and `BlocksOwned` for `Nvram`; `GivesBackWhatItTook` and
   `SingleInstance` for `RunControl`; `LocksReturned`, `MemoryOwned`,
   `AnsweredOnce` and `SuccessIsServed` for `Session`; `EnvSound` and
   `FirmwareInPlace` for `Flash`.
7. Proofs left: `TreeSound` for the array of `XmlTree`; `TreeOwned` for
   `JsonText`; `DaemonAsAsked` and `FilesSound` for `RunControl`, with assertions
   like those of `SessionAssertions`.
8. Candidates left: linked lists with owned data and the namespace listing of
   `Nvram`; thread and process life cycles over the context's counter; meta
   nvram.

## 3. Modules

### Nvram

One thread at a time works on the store under `nvram_mutex`; a thread blocked
on the mutex changes nothing and is not represented. (`lock_nvram_mutex()`
retries only on a negative result, which `pthread_mutex_lock()` never has.)

- `node_list`, `node_list_used`, `total_space_used` are the fields of `struct
  nvram`. The strings are pointers into a small heap: `mem` is what a block
  holds, `freed` what was given back, `brk` the blocks handed out. The heap is
  there because `nvram_unset_entry()` leaves a node in the array twice, so two
  nodes can own the same blocks; a name/value map would hide that.
- A read, write or free through a freed or NULL pointer is undefined in C. The
  model sets `ub` and takes no further step; the properties speak about the
  behaviour before that.
- `find_start`, `find_iterate`, `find_return` are the iterations of
  `find_nvram_entry_position()`; the locals are `find`. The actions that follow
  are the branches of `nvram_set_entry()`, `nvram_unset_entry()`,
  `nvram_get_entry_value()`, `nvram_match_entry()` and
  `nvram_match_entry_value()`. `set_no_memory` is a failing `strdup()`;
  in `set_half_memory` one of the two strings of a new node was duplicated, and
  `fail_exit` frees it.
- A request is a list of entries: one entry for the public wrappers, more for
  `ezcfg_common_set_nvram_entries()`, which stops at the first failure.
- Names are numbers ordered as `strcmp()` orders the strings; a value is
  known by its length and identity.
- `size` is the length of a block that was not freed, `old` the blocks that a
  deleted store has left behind. `stored` and `unset_seen` are history variables
  of the properties.

### EzcfgContext

`ezcfg_ref_mutex`, `ezcfg_ref_counter` and `this_ezcfg` are the static
variables of `ezcfg.c`. Each thread has a place `pc` in a call and the locals
`arg`, `obj`, `retry`. A section of the mutex that cannot block is one step;
`ezcfg_del()` sleeps inside its section and holds the mutex over several. The
ASSERTs read `this_ezcfg` outside the mutex, so they are steps of their own:
with `Debug` a false one ends the process (`fault`), without it nothing
happens.

Callers are modelled by what they may name: the thread that `ezcfg_new()`
returned a context to, and the threads that use an object made from it. An
object counts a reference when it is made (`inc_*`) and gives it back when it
is deleted (`dec_*`), as linked lists, sockets and auths do. *Borrowers* are
threads that keep the pointer without a reference, as `struct
ezcfg_socket_agent` does. Two callers that break the pairing
(`process.c:304`, `thread.c:305`) are listed as hazards and belong to the
planned module. `ezcfg_new()` fails before (`"json"`) or after (`"entries"`)
`meta_nvram` exists; in the second case the pointer stays behind and
`ezcfg_del()` frees it again (`dangling`, fault `"double_free"`).

### MasterPool and SocketQueue

The master thread is `mpc`, the signal thread `spc`, a worker `wpc[w]`. The two
mutexes name their holder; a condition variable is the set of threads in its
wait. `pthread_cond_signal()` takes one thread out of the set; the woken thread
then needs the mutex again, and others may come first. Sections in which
nothing can block are one step; `put_socket()`, `master_finish()` and
`ezcfg_master_reload()` are split where they wait for a condition or for the
second mutex.

Connections move from `unborn` through `backlog` (the kernel), `hand` (the
master), the queue and `sp[w]` (a worker) to `served`. When `accept()` fails,
`ezcfg_socket_enable_again()` closes the listening socket and opens it anew, and
the kernel resets what waits there: `BacklogReset` moves it to `dropped`, and so
does the end of the master. `sq_head` and `sq_tail`
are kept unwrapped as in the code. The signal thread acts once
`ezcfg_api_master_start()` has returned, which is after `threads_max` is set;
the master runs, and may queue connections, before that.

Left out: several listening sockets, the sockets of the workers (closing them
in `master_finish()` only ends the service sooner), spurious wake-ups, the
System V semaphore around stop and reload (one user in this process) and the
configuration that reload loads again.

`SocketQueue` is what the queue promises: a bounded FIFO whose elements go to
one worker each, in order. `MasterPool!QueueIsFifo` says that the circular
queue with its wrapping indices implements it, with the used slots in order as
`fifo` and `sp` as `held`.

### Script: code as data

Most of ezcfg is straight-line code: a script or handler calls one function
after another, and what is hard is which failure leads where, who frees what,
and who runs at the same time. Such a function is written as the sequence of
its commands, with the name it has in the source; `Script` has the
combinators (`If`, `IfElse`, `ToEnd`), and a machine executes the sequences
command by command: `RunControl`, `Document` and `Session`. One command is one
step, so the interleavings of two programs and the failure of any command are
those of the code. A condition on something outside the model (an nvram entry,
the result of a program) goes either way each time it is looked at.

### RunControl, RcCommand, RcPop, RcScript, EnvAction

`RcPop` has the generators, `RcScript` the `rc_*` functions, `EnvAction` the
`env_action_*` functions with the utilities they call. `RunControl` is
`rc.c`: an rc program counts itself in the queue, takes the semaphore, runs
its script and gives back what it took. The state is the rest of the machine:
`procs` (per name: running, told to end, killed), `conf` (per file, the version
of nvram it was written from, 0 while empty), `lost` (files that could not be
opened), `world` (mounts, modules and the like). nvram changes at any time
(`nvver`); signalled processes end in their own time.

Assumptions: umount of `/boot` succeeds; a process killed with SIGKILL is gone
within the second the scripts wait; a daemon told to end does; `mount` refuses
a second mount; `semop(+1)` succeeds. `RcAssumption` says that a job is one of
the functions the modules have, with a word of `utils_get_rc_act_type()`; the
proofs need it, because they go through the scripts one by one. `rc_emc2` and `rc_emc2_latency_test` are
left out; the static functions of the wifi scripts are compiled out and are not
modelled.

Seen while modelling, and stated as exceptions or notes: `rc_radvd` never kills
on a restart; `rc_dhisd` looks for `dhisd` and starts `dhid`; `rc_agent` never
opens its second path (`rc_agent.c:133`); `env_action_ezcd` starts without a
guard on boot.

A program that becomes another (`exec`) never comes back to `rc_main()`, and
neither does one that leaves in the middle of its script (`exit`):
`env_action_preboot.c:157` does when `switch_root` cannot be executed, although
the comment before it says "fall through". Both end in the place `gone`, with the
semaphore and the queue number taken. That `utils_boot_partition_is_ready()`
itself restores a missing boot.cfg is left out: a machine with a boot partition
begins with one.

### XmlTree, DocCommand, AdminPage, SoapMessage, Document

`XmlTree` is the array of start and end tags of `xml.c`, with insertion behind
a sibling or as the last child, the shift of what follows, `etag_index`, and
the enlargement. `AdminPage` has the builder and the handler of every page of
the administration, `SoapMessage` the nvram service over soap and igrs.
`Document` executes them: `idx` are the index variables of a builder, each with
the element it named when it was assigned; `heap`, `doc`, `html` and `rules`
are the objects; `intact` are the structures whose text is still there.

Much that may fail is not looked at. `Forgive(kind)` ends such a call: when it
failed, the document lacks a part of that kind, and the builder goes on. The
kinds are "attribute", "header", "text" (the message was not written), "body" (it
was not put into http), "element", "effect" (what the answer says was done was
not) and "page": the page of the index and the redirection report success when
they could not be built, and what is then sent is the request that is still in
http. `MayLack` is what an answer that reports success can lack, from
`SoapMayLack` and `PageMayLack`; `HonestAnswer` says that it lacks nothing else.

### IgdService, IgdDescription

`pop_etc_ezcfg_upnpd_igd1.c` as tasks: each device looks up how many devices
of the next kind there are, and each look is a step during which nvram may
change or the look fail. `IgdService` holds the actions, arguments and state
tables of the services, as data. Friendly names, icons, types and ranges are
left out; that two generated uuids differ is assumed.

### JsonText

The nodes, stack, marks and length of `json.c`, over texts that are sequences
of tokens; white space and spelling are left out. `After` is the grammar the
parser is compared with. One round of each loop is a step. The copies under
`L/basic/json` and `L/bak/json` are not modelled separately.

### WorkerScript, ApiCall, Session

`WorkerScript` has the handlers of every protocol, `ApiCall` the calls of the
API. `Session` executes them for several actors: workers share the mutexes
`auth` and `upnp`, clients the System V semaphores; a client's connection is
given to a worker, or closed, by the master. `own` is what an actor has
allocated, including the text of the request line, which a reset of http frees;
`ret` is the `bool` of `is_authorized()`. Whether AUTH_0_REALM is set is a
condition on nvram, which goes either way (`LookForRealm`); `unset` remembers that
it was not, because no 401 is sent then. `served` says that the worker did what
its client asked for: a worker that reports success has, except for a soap unset,
whose result `build_nvram_unset_response()` does not look at (`Looks`).

In this commit the `switch` of `process_new_connection()` in `worker.c` is
compiled out and `agent_worker.c` initialises `JSON_HTTP` but processes
`NV_JSON_HTTP`; the model connects each protocol to its handler. The bodies of
get, set and unset in `api-nvram.c` are compiled out too, and what is left
returns 0: the scripts `ezcfg_api_nvram_get`, `set` and `unset` are empty. The
bodies are kept as `SoapGet`, `SoapSet` and `SoapUnset`, because they are the
clients of the soap service; `ezcfg_api_nvram_change()` gives the writer a buffer one byte short
(`api-nvram.c:848`), so it always fails. `api-nvram_json.c` does not compile
and is not modelled. Releasing a semaphore and locking a mutex succeed.

### Flash

The environment of the boot loader is `env`: a checksum, represented by the
text it was computed of, and cells. `ezcfg_api_ubootenv_set()` reads, edits a
copy and rewrites block by block; `StopWriting` is a failed block or lost
power. `Laid`, `Stored` and `Whole` say what a text in order holds without the
functions of the code that look into it: entries one after the other, each for
another variable, and a NUL behind them. `FactoryAssumption` is that the text
a box is delivered with is in order; TLC evaluates it.

An image is a sequence of parts, each with a name and a length in blocks, which
need not be those of a partition. `write_part()` erases the partition block by
block and writes what there is of the part: the tail behind a shorter part is
left erased, and of a longer one the rest is left out, without a failure. What a
partition held before a call is `Old`. A partition that `/proc/mtd` does not name
leaves the path of the part before (`api-firmware.c:102`), and the part goes
there; a path that was never set does not open. `FirmwareInPlace` says what holds
in spite of this: where a part may go (`Goes`), and that a success has left its
last part as far as it fits (`LastPartWritten`). The raw
copy takes its later blocks from behind the buffer (`Garbage`,
`api-firmware.c:355`) and then compares a NULL model, so it never succeeds.

`ezcfg_api_ubootenv_set()` takes no lock: that one caller at a time is in the
call (`setter.step = "idle"`) is an assumption, about programs that an operator
starts by hand. `memset()` at `api-ubootenv.c:471` clears four bytes past the
buffer; nothing in the model depends on them.

## 4. Runs

| Run | Checks | Result |
|---|---|---|
| `nvram_store` | `TypeOK`, `MemorySafe`, `GetReturnsStored`, `BlocksOwned`, `InsertKeepsNodes`, `HolderFinishes` | hold, about 550 thousand states |
| `nvram_shared` | `SpaceAccounted` with four nodes | holds, about 9.6 million states |
| `nvram_shift` | `DeleteShifts`, from the comment at `nvram.c:50` | violated |
| `context_release` | `TypeOK`, `RefConservation`, `NoUseAfterFree`, `RetryNeverHelps`, `SingleContext`, `MutexReleased` | hold |
| `context_borrow` | `RefConservation`, debug build, one borrower | holds |
| `pool_safety` | `PoolSound`, `ConnConserved`, `QueueIsFifo` | hold, about 160 thousand states |
| `pool_stop` | `StopEnds` | holds, about 50 thousand states |
| `pool_reload` | `ReloadCompletes`, from `master.c:945` | violated |
| `pool_served` | `QueuedIsServed`, from `master.c:648` | violated |
| `run_control` | `GivesBackWhatItTook`, `SingleInstance`, `DaemonAsAsked`, `FilesSound`, `StartsOnFreshFiles`, `JobsEnd` | hold, about 240 thousand states |
| `documents` | `TreeSound`, `MemoryOwned`, `HonestAnswer`, `DescriptionSound`; `AcceptsJson`, `WrittenAsRead`, `TreeOwned`; `EveryJobEnds`, `CallsEnd` | hold, about 172 thousand states |
| `sessions` | `AnsweredOnce`, `MemoryOwned`, `LocksReturned`, `SuccessIsServed`, `EnvSound`, `FirmwareInPlace`, `CallsReturn` | hold, about 116 thousand states |

Properties named `...Sound`, `...Owned` and the like are conjunctions of named
parts, each with its own comment in its module. Where the code has a known
weakness the property states it as an exception (`Stuck`,
`WaitsForNobody`, `SoapMayLack`, `PageMayLack`, `FilledUp`, `Goes`, the 401 that
is sent twice or not at all, the soap unset), so that the
property says exactly how far the code can be relied on.

What the violated ones show:

- **`nvram_shift`**: the loop of `nvram_unset_entry()` copies `node_list[i+1]`
  to `node_list[i]` in every round. With two or more nodes behind the deleted
  one, the next node is then in the array twice and the last one is cut off.
  The instance needs four nodes: with fewer, the search never finds an entry
  with two nodes behind it.
- **`pool_reload`**: reload and accept take the two mutexes in opposite order.
- **`pool_served`**: a worker whose wait times out leaves without looking at
  the queue and counts as idle until it is gone; a connection queued in
  between gets no thread and waits for the next client.

Seen without a run of their own:

- After a stop the master may wait for ever for room in the queue, holding
  `ls_mutex`: `put_socket()` does not look at the stop flag (`master.c:640`,
  against `master.c:798`, "Stop signal received: somebody called
  ezcfg_master_stop. Quit."), and the workers leave on the flag although
  connections are queued. One worker, a queue of one and three connections
  suffice. `StopEnds` names this case, `WaitsForNobody`, and says that a stop
  hangs in no other way.
- `write_part()` stops at the end of the partition whatever is left of the part
  and returns 0 (`api-firmware.c:274`, where the comment at 254 says "write part
  data to device"), and a part for a partition that does not exist is written
  over the one before it. `FirmwareInPlace` claims no more than that.
- As compiled, get, set and unset of the API return 0 and do nothing
  (`api-nvram.c:561`); ezcd's `nvram get` then prints a buffer nobody has
  written to. `SuccessIsServed` leaves them out.
- `ezcfg_del()` waits for references to be given back while it holds the mutex
  that giving back needs, although `ezcfg.c:329` says "wait a second then try
  again...". `RetryNeverHelps`, checked and proved, is this fact.
- `local_binary_tree_reset()` never sets `up` and stops after the leftmost
  path: the nodes above are not freed (`JsonText`: `FreeStep` ends with
  `freed` a proper subset of the nodes).

The bisection has a second defect that no run is spent on: it lowers `upper`
to `middle - 1` in a half-open interval and inserts at `middle`, so entries
are not kept sorted (`nvram.c:50` says they are) and a stored name may not be
found. `SearchInRange` (a part of `MemorySafe`) and `GetReturnsStored` are stated so that they do not
assume sortedness, and hold in spite of it.

### Bounds

- `nvram_store`: two names, a short and a long value, an array of three nodes
  and seven blocks. The unsorted search puts a name in twice, so the array
  fills and the limit is reached; a value is overwritten, replaced by a longer
  one and shortened again; batches have two entries. Only the number of blocks
  bounds the behaviours: when they are used up `strdup()` fails, as it may at
  any time. `nvram_shift` and `nvram_shared` use four nodes for the reason above;
  `nvram_shared` has three names and nine blocks, which four inserts, an unset
  that leaves a duplicate, and the change or unset of the duplicate need at most.
- `context_release`: three threads, two objects and two addresses, so that a
  freed address is used again while another thread still builds, and an object
  can move between threads that neither create nor delete. `RetryMax` is 2
  instead of 3: the first, the last and no retry are distinct. Failures are
  limited to the first stage, because the second ends a release build at once.
  `context_borrow` has both stages.
- `pool_safety`: five connections through a queue of length two wrap the
  indices twice; three worker structures and a limit of two threads make the
  limit bite; two reloads and a stop. `pool_stop` has a queue of one, which fills
  while both workers are busy, sleep or leave. Connections and workers are symmetric:
  nothing orders them. The liveness runs use no symmetry.
- `run_control`: two rc programs; the families of jobs put together the words
  of one service, and the scripts that share a daemon, a mount or a file. A
  script that nobody else touches is run alone for every word. nvram has two
  versions, so that a file can be older than its script.
- `documents`: every request; an array of 8 slots that grows by 4, so that
  every page but the smallest enlarges it, at different elements; any
  allocation fails. For the description one change of nvram or failed look,
  at any point. Json texts have up to nine tokens (three levels, three siblings),
  are the same with a token missing or replaced, or any sequence of up to three
  tokens (`MCJsonText`); every allocation may fail.
- `sessions`: every protocol and every call alone, and the pairs that share a
  lock; one refused resource per scenario (`MaxTrouble`), because a handler
  leaves at the first. The environment has eight cells in two blocks and two
  variables of length 1 or 3, so that it is filled exactly, and emptied; one of
  the variables is protected. Images have up to two parts, for a
  known partition or not, shorter than it, as long or longer.
- `MaxAlloc`, `MaxBatch`, `MaxReload`, `MaxTrouble`, `MaxVer`, `Conns` are the
  bounds that the program does not have; all are in the guards.
- Components that share no state are checked in one run by letting one move
  while the other is in its initial state (`MCDocument`, `MCSession`).

### Deadlock

`run_control` ends when all jobs are done. `nvram_store`, `nvram_shared` and
`context_borrow` may stop after undefined behaviour or a failed ASSERT,
`pool_safety` contains the deadlock of `pool_reload`, and `pool_stop` the hanging
stop that `StopEnds` names. These runs, and the violation runs that stop for the
same reasons, do not check for deadlock. `context_release`, `documents`
and `sessions` do.

### Fairness

- `Nvram!FairSpec`: the holder of the mutex is a running thread and takes its
  next step. Nothing forces a caller to call.
- `EzcfgContext!FairSpec`: a thread inside `ezcfg_del()` keeps running (weak
  fairness, it never waits for anything but the mutex); objects are deleted in
  the end, and the mutex is fair to a thread that asks for it again and again
  (strong fairness).
- `MasterPool!Fairness`: every thread keeps running; strong fairness stands for
  mutexes that are not granted for ever to others, for `select()` reporting a
  pending connection and for the end of a service. Clients need not connect
  and signals need not arrive.
- `RunControl!Fairness`: an rc program keeps running, also through `semop()`
  once the semaphore is free, and a process that was signalled ends. Nobody
  has to ask for a job.
- `Document`, `IgdDescription`, `JsonText`: a call that was started runs on.
- `Session!Spec`: threads and processes run, the daemon comes up and makes its
  semaphores, and its master attends to a connection or closes it. Without the
  second a client loops on `semget()` for ever, as the code does.

## 5. Proofs

| Module | Theorem | States |
|---|---|---|
| `EzcfgContext_proofs` | `TypeCorrect`, `CounterConserved`, `ObjectsKeepContext`, `WaitIsUseless`, `OneContext` | `TypeOK`, `RefConservation`, `NoUseAfterFree`, `RetryNeverHelps`, `SingleContext` |
| `MasterPool_proofs` | `PoolIsSound`, `ConnectionsConserved`, `QueueImplementsFifo` | `PoolSound`, `ConnConserved`, and `QueueIsFifo`, the refinement of `SocketQueue` |
| `Nvram_proofs` | `TypesCorrect`, `AlwaysMemorySafe`, `GetsAreStored`, `InsertsKeepNodes`, `NoBlockLost` | `TypeOK`, `MemorySafe`, `GetReturnsStored`, `InsertKeepsNodes`, `BlocksOwned` |
| `RunControl_proofs` | `RcGivesBack`, `NeverTwice` | `GivesBackWhatItTook`, `SingleInstance` |
| `Session_proofs`, with `SessionAssertions` and `SessionScripts_proofs` | `LocksAlwaysReturned`, `MemoryAlwaysOwned`, `AlwaysAnsweredOnce`, `SuccessAlwaysServed` | `LocksReturned`, `MemoryOwned`, `AnsweredOnce`, `SuccessIsServed` |
| `Flash_proofs` | `EnvironmentSound`, `UpgradeInPlace` | `EnvSound`, `FirmwareInPlace` |

Each theorem is about the formula that a run checks, for every value of the
constants that satisfies the assumption named in the component's module. TLC
has checked the inductive invariants on the instances of the runs, except the
one of `Session`, which speaks of assertions that exist and cannot be evaluated.
The layout is the same everywhere: one lemma per group of actions with one case
per action, a lemma that the initial states satisfy the invariant, and a last
step by temporal logic.

### EzcfgContext

`EzcfgContext_proofs` proves, for any sets of threads, objects and contexts, any
retry bound and both builds:

- `TypeCorrect`: `Spec => []TypeOK`, borrowers included;
- `CounterConserved`: `Spec => []RefConservation`;
- `ObjectsKeepContext`: `Spec => []NoUseAfterFree`;
- `WaitIsUseless`: `Spec => []RetryNeverHelps`;
- `OneContext`: `Spec => SingleContext`.

The last four assume `Borrowers = {}`. With a borrower `NoUseAfterFree` is
false, and `RefConservation` is false in a release build: a borrower can count
a reference on a context under construction whose construction then fails.
The constants satisfy `ContextAssumption`.

`RefConservation` is not inductive. `IndInv` adds who may be where:

- `MutexHeld`: the mutex is held exactly inside `ezcfg_del()`;
- `AddressOwned`: an address malloc() gave belongs to one thread until it is
  published or freed, so freeing one thread's context is never freeing
  another's;
- `OneOwner`: at most one thread builds, owns or takes down a counted context.
  This is what the counter test of `ezcfg_new()` establishes, and what makes
  the unprotected write of `this_ezcfg` harmless;
- `ObjectsOwned`: a constructor works on an object that is not counted, a
  destructor on one that is, and no two threads on the same;
- `Entitled`: a constructor runs on behalf of the owner or of a user of an
  object, so the context it names is the published one. Without it `del_free`
  could free a context that a constructor is about to count;
- `WaitsForOthers`: a del that has waited still sees a counter above one. It
  gives `RetryNeverHelps`, and shows that a del which fails leaves a published
  context.

The induction has one lemma per function (`CoreNew`, `CoreDelCall`, `CoreDel`,
`CoreRef`), one case per action and one step per part of the invariant. The
counter steps use the cardinality facts of `FiniteSetTheorems`. `Dying` treats
the step in which the process ends.

### MasterPool

Any set of connections, any finite set of workers, any queue length and number
of reloads (`PoolAssumption`). The counters alone are not inductive: that
`num_threads` counts the workers depends on who is between a change of state
and the change of the counter, hence on the mutexes. `IndInv` is

- `TypeOK`, `QueueBounds`, `ThreadsCounted` and `IdleCounted`, the parts of the
  property;
- `Control`: which program points hold which mutex (`MutexesHeld`), that the
  stop flag is in step with the signal thread and the master (`FlagInStep`),
  and that who is in a wait set is at the matching point (`WaitSets`);
- `HandsFull`: the master has a connection exactly while it queues it, and a
  worker exactly while it serves it;
- `SlotsFilled`: the slots between tail and head hold connections.

`DeletedUnused` follows from `Control`. For the connections, `Apart` (no
connection in two places) and `Somewhere` (none in no place) are added; the
cardinality of `Places` follows from both. `dropped` is a place like the others:
it only grows by what waits in the kernel, so nothing that was accepted is in it. In the refinement only three actions
touch the queue or the sockets of the workers, and they map to `Put`, `Get` and
`Close` of `SocketQueue`; the arithmetic of the wrapped indices is in `FifoStep`.

### Nvram

Any names, values and lengths, any size of the array and of the heap
(`NvramAssumption`). The proof does not use sortedness, which the code does not
maintain. `IndInv` is `TypeOK` and

- `HolderInv`: what the phase of the call says about the locals: a search has
  an entry to look for, only a match keeps a first node, and without the mutex
  nothing is kept from the call before;
- `FindInv`: the bisection stays within the nodes in use, and once it says that
  a node was found, that node has the name. The lower end needs no bound of its
  own: a round is only made while `bottom < upper`;
- `NodeInv`: the pointers were handed out, the ones of nodes in use are not
  NULL, names and values never share a block, and two nodes with the same value
  block also have the same name block and the same length. The last part
  is what is left of ownership after an unset has copied a node, and what
  keeps an overwritten value from outgrowing its block in the other copy;
- `ValueFits`, and `PairsStored`: what a node with both strings alive shows was
  set. It is kept by writes through a shared block because of `NodeInv`, and is
  the reason that a get only returns what was set.

`BlocksOwned` is proved with `RestEmpty`, that until an unset the nodes past
the used ones are empty, on top of `IndInv` (`OwnInv`).

### RunControl

Any finite number of rc programs, any families of jobs over the functions of
the modules (`RcAssumption`). `SingleInstance` is about the machine but holds
because of the scripts, so the proof has two halves.

- *The scripts.* A command is `Careful` if it starts a guarded daemon only with
  `start-stop-daemon`, under the name it looks for, and never spawns one
  directly. Every generator, every `rc_*` and every `env_action_*` function is
  a sequence of careful commands, for every word: one lemma per group of
  functions, by what the combinators of `Script` preserve.
- *The machine.* `IndInv` has the types of the rc programs and their places in
  a script (`RcInv`), `GivesBackWhatItTook`, `ProcInv` and `SingleInstance`.
  `ProcInv` says that a program between the look and the start of a guarded
  daemon has seen none and there still is none. Nobody else can have started
  one: starting takes the semaphore, and `GivesBackWhatItTook` says that only
  one program holds it (`Exclusive`). `Moves` lists how a step changes the
  semaphore, the queue number and a program's place; the counting steps follow
  from it.

### Session

Any number of clients and workers, any scenarios of known calls and protocols,
any number of refused resources (`SessionAssumption`). The four properties
speak about an actor whose script has ended, so what is needed is where in its
script an actor is. A script is finite, but there is one for every protocol and
every call, and any resource of it may be refused.

- *The logic* (`SessionAssertions`). A *view* is what an actor knows of itself
  and of its peer: what it owns and holds, its answers and reply, its flags,
  among them whether the client it serves was served. `Does(P, s, Q, E)` says
  that script `s`, begun in a view of `P`, can run every command (no text is
  used that is not there, no lock given back that is not held, no answer sent
  too many), and ends in `Q`, or leaves by a return or a jump where `E` allows
  it. It means that there are assertions, one before each command, that fit
  (`Fits`): every command leads from its assertion to those of the commands it
  may continue with.
  The rules put together the assertions of parts in sequence, in branches and
  in routines.
- *The scripts* (`SessionScripts_proofs`). `RoutineDoes` runs the handler of
  every protocol, from the accepted connection to the closed one, `ApiReturns`
  every call, from its first semaphore to its result: one lemma per function of
  `WorkerScript` and `ApiCall`. The scripts are those that TLC runs.
- *The machine* (`Session_proofs`). `Inv` is `Sound(act, sem)`: an actor
  without a job has nothing (`Resting`); a worker and its client agree who
  serves whom, and a client told "done" was served if its call is `Remote` (`Linked`); a held lock is
  taken, by one actor (`Holding`); and for what an actor has left to do there are
  assertions that fit, the first of which its view satisfies (`Follows`). At the
  end of a script `Follows` gives the final assertion of the job, and with it
  the four properties. There is one lemma per action. An action of one actor
  changes the view of another in two ways only: a served client turns the
  worker's `good` on, and an answer or a close gives a waiting client its reply;
  `RunsDisturbed` shows that no assertion is lost by either.

The properties are not inductive by themselves: whether the handler at its end
has freed its objects depends on each branch taken before. Likewise
`SuccessIsServed` is not a matter of the client alone: the worker sends "done"
only at a point whose assertion has `good`, which means that its client, if it
has one whose call is `Remote`, was served (`Earned`). For `AnsweredOnce` a realm
that is not set counts, in the views, like a refused resource: both are reasons
not to answer, which the property keeps apart and the scripts do not.

### Flash

Any sizes of the environment and of its blocks, any variables and value
lengths, any number of blocks of a partition, any images whose parts have any lengths
(`FlashAssumption`, `FactoryAssumption`). `EnvInv` is

- `EnvTypes`: flash and buffer are texts of the right length;
- `CrcFirst`: the checksum is erased before any cell is changed and is that of
  the new text before any other block is written, so a mixture never has
  the checksum that is there. `NoMixture` rests on it;
- `Written`: the blocks before the current one are the buffer's;
- `InOrder`: unless a write was cut short, the text is `Whole` for what the
  calls have left (`wanted`), and during a call the buffer is, for the values
  after it.

The work is in the edit. `LaidFacts` shows that the scans of the code
(`EndCells`, the search for a name) find the end and the entry that `Laid`
describes; `Copied`, `Appended` and `Removed` show that an edited text is laid
out again, and `EditSound` that it stores what was asked. The two ways a text
goes wrong, filled to the last cell and emptied by unsetting its last entry,
are the exceptions `EnvSound` states. For the upgrade `FwInv` adds `PathFound`,
that a path which is set is that of a part of the image, and `PartSoFar`: the part
being written goes where it may be, its blocks before the current one are in place
and the ones behind its end erased.

### Only model-checked

- Liveness (`HolderFinishes`, `MutexReleased`, `StopEnds`, `JobsEnd`,
  `EveryJobEnds`, `CallsEnd`, `CallsReturn`): fairness and ENABLED are outside
  the prover.
- `SpaceAccounted` of `Nvram`: it is a sum over a set of nodes, and what such a
  fold computes for every set needs induction over data, which is outside the
  prover, too. The same holds for what the recursive functions of `JsonText`
  accept and write, and for the fold that lays out `FactoryEnv`, of which
  `FactoryAssumption` states what is needed.
- `DaemonAsAsked`, `FilesSound` and `StartsOnFreshFiles` of `RunControl`: they
  speak about what earlier commands of the same script have done, so each script
  needs an assertion at each of its commands, as those of `Session` have.
- `Document` and `IgdDescription`: the index variables of a page are related to
  the tags by the page that is built, with the same consequence.

## 6. Not modelled

See the component list in `PROJECT.json`. In short:

- wording and formatting of files and documents, and the parsers of http, soap
  and igrs, whose results are choices in the models that use them;
- meta nvram, with two hazards: the namespace listing continues without moving
  at the first entry outside the namespace (`meta_nvram.c:352`), and removing
  the last entry leaves the terminator to be rebuilt (`:185`);
- lists, threads and processes: `_local_nvram_get_entries_by_ns()` keeps pairs
  it has freed (`nvram.c:489`), `ezcfg_process_new()` returns with its mutex
  locked (`process.c:278`) and gives back a reference it never took (`:304`),
  STOPPING is never left (`thread.c:411`);
- the agent master, a variant of the master thread; shared memory; sockets, ssl
  and upnp bindings; the command-line front ends;
- near copies of a modelled file (`L/basic/json`, `L/bak/json`,
  `L/basic/http`), and third-party and generated code.
