# Verification of scorep-amd

TLA+ models of the code this repository contributes to a Score-P / PAPI / ROCm
measurement stack, with TLC configurations and TLAPS proofs. Paths are relative
to `src/`; every definition that models code is mapped to its lines in
`PROJECT.json`, which also lists the hazards of the code, each with the
properties that would catch it.

1. [The system](#1-the-system)
2. [What makes each component correct](#2-what-makes-each-component-correct)
3. [Modules](#3-modules)
4. [Runs](#4-runs)
5. [Bounds and fairness](#5-bounds-and-fairness)
6. [Proofs](#6-proofs)
7. [The finding, and what the properties set aside](#7-the-finding-and-what-the-properties-set-aside)
8. [Not modelled](#8-not-modelled)
9. [Plan](#9-plan)

## 1. The system

An instrumented application runs under Score-P. Score-P loads a metric plugin
(`plugins/scorep-*`), the plugin asks PAPI for native events, PAPI calls the
components this repository patches in (`patches/rocm_smi`, `patches/coretemp`),
and the rocm_smi component calls a patched `librocm_smi64`
(`patches/rocm_smi_lib`), which reads sysfs, the KFD topology and `/dev/kfd`.

| component | code | state it keeps | operations |
|---|---|---|---|
| metric plugins arocm-smi, arocm2-smi, coretemp | `plugins/*/apapi.c` | `event_list` (one entry per sampled thread: event set, counters, buffer, sample count), `counter_enabled`, `global_num_cntrs`, a mutex | `get_event_info`, `add_counter`, `thread_report` (the sampling thread), `get_all_values`, `enable_counter`, `disable_counter` |
| PAPI rocm_smi component | `patches/rocm_smi/linux-rocm-smi.c` | `initialized` / `disabled` (static), `state` per thread, `rocs_ctx` and `events_id` per event set | init, update_control_state, start, read, write, stop, reset, cleanup, shutdown |
| rocs layer, contexts | `patches/rocm_smi/rocs.c` | `device_mask`, values of events | context open / close / start / stop / read / write / reset |
| rocs layer, event table | `rocs.c`, `htable.h` | event table, hash table of names, device tables, static arrays that merge get and set functions | `rocs_init`, the counting and the filling walk, look-up, access functions, `rocs_shutdown` |
| PAPI coretemp component | `patches/coretemp/linux-coretemp.c` | event table with file descriptors, `is_initialized`, list `root`, per event set `counts`, `active_count`, `active_idx` | init, init_control_state, update_control_state, start, read, stop, shutdown, enumeration |
| rocm_smi_lib, session | `rocm_smi_lib/src/rocm_smi_main.cc`, `rocm_smi.cc` | reference count, devices, maps from devices to KFD nodes and links, descriptor of `/dev/kfd` and its count, notification files | `rsmi_init`, `rsmi_shut_down`, discovery, `rsmi_event_notification_*` |
| rocm_smi_lib, getters and setters | `rocm_smi.cc`, `rocm_smi_device.cc` | none of their own; the overdrive table of the driver | 115 functions of the API |
| rocm_smi_lib, device mutex | `third_party/shared_mutex` | a robust mutex per device in shared memory | init, lock, unlock, recovery, reset, close |
| rocm_smi_lib, gpu metrics | `rocm_smi_gpu_metrics.cc` | one object per version of the table, the device's pointer to it | `rsmi_dev_gpu_metrics_*`, queries of single metrics, log |
| rocm_smi_lib, topology | `rocm_smi_kfd.cc`, `rocm_smi_io_link.cc` | nodes, links, memory banks, processes | `rsmi_topo_*`, `rsmi_compute_process_*` |
| OAM library, Python front end | `patches/rocm_smi_lib/oam`, `.../python_smi_tools` | none of their own | thin wrappers |
| build, run and test scripts, benchmarks | `*.sh`, `runs/`, `patches/*/tests` | none | |

How they interact. Application threads call `add_counter`, the sampling threads
it starts call `PAPI_read`, and the measurement system finally calls
`get_all_values`: plugin threads share `event_list`. PAPI calls the vector
functions of a component with a context per thread and a control state per event
set; it makes one call per thread at a time, but calls of different threads
overlap. The rocm_smi component opens `rocs` contexts, which own devices through
the shared `device_mask`; all contexts share the events and their values. The
event table takes its functions from the iterators of rocm_smi_lib. Processes
that use rocm_smi_lib share the mutexes of the devices and the files of the
driver. The statics of both components outlive `PAPI_shutdown`, and the maps of
rocm_smi_lib outlive `rsmi_shut_down`, so that a second session in one process
starts from what the first left.

## 2. What makes each component correct

| component | correct means | hard because |
|---|---|---|
| plugins | every thread has its own entry; buffers are not overrun; what `get_all_values` returns are the samples taken, all of them, read after the sampler ended; it returns | registering, sampling and collecting overlap; counts are read after the mutex is released; entries without a thread are joined |
| rocs contexts | a device has at most one owner; values of its events are not disturbed by others; counters are stopped, destroyed and given back; PAPI's view agrees with the contexts | reads and starts run without the lock; each driver call may fail half way; state per thread, context per set |
| delayed initialisation | `rocs_init` runs once per session; no one uses tables that are not there; failures undo what was done; calls return | `initialized` and `disabled` are read without the lock; a static vector over several sessions |
| event table | the counting walk and the filling walk agree; a name leads to its event through every resize; what is supported is offered, and is written only as described | two walks with statics of their own; get and set functions merged by position; resizing may fail |
| coretemp | every value returned was read by that call; the event table is never used when missing or too small; descriptors are given back | descriptors are opened on demand without a lock, half-way failures, statics over several sessions |
| device mutex | mutual exclusion of processes, also after one died; one that is alone can start; a start ends | creation is not atomic, time-outs reset the mutex, a killed process leaves it at any step |
| getters, setters | accesses to one device exclude each other; a commit carries the caller's own edits; a success has a result; every return unlocks | many early returns, calls inside calls, recursive locks, several accesses per function |
| gpu metrics | what is delivered is one sample of the device asked, and all fields of the version | one object per version is shared by devices; a read in two parts; three tables per version |
| session, notifications, topology | devices are the GPUs of the system; answers come from present nodes; descriptors are counted and only own files closed; every event is delivered once | maps that outlive a session, cards repartitioned, numbers of descriptors used again, waiting without a lock |

## 3. Modules

| module | models | its state and actions |
|---|---|---|
| `MetricLog` | abstract: a log per entry whose width is settled before its first sample, that grows, is closed once and is answered column by column. `Partial` logs answer blanks for a column they lack, `Spare` answers may end with one row that nobody sampled | |
| `ApapiSampler` | the three plugins: arocm is `HaveDebug` and `FailuresReturn`, arocm2 `HaveDebug` alone, coretemp `FailuresReturn` alone | one control variable per thread: `apc` (add_counter), `spc` (thread_report), `cpc` (get_all_values). A buffer cell is abstracted to the sample and the column it was written for. `members` is how many events PAPI has in a set, which may be fewer than were added; `taken` remembers how many samples were read. `Failing` has the external calls that may fail |
| `DeviceOwnership` | abstract: devices are acquired and released as a whole, and may be lost only by a failure | |
| `RocmSmiContext` | the vector functions of `linux-rocm-smi.c` over the contexts of `rocs.c` | `pc` and `idx` per event set give the call in progress and its loop index; open is one step (it holds `_rocm_smi_lock`), start, stop, close, each access function and each copy are steps of their own. Values are abstracted to who stored them |
| `RocmSmiInit` | delayed initialisation, `rocs_init` / `rocs_shutdown`, `PAPI_shutdown` | the unlocked reads, the two assignments of `fn_exit` and the stages of `rocs_init` with their error paths; `rsmi_dlp` is the handle of the library, which only a shut-down closes |
| `HTable` | `htable.h` | pure: a table is a value (capacity, size, chains); insertion, deletion, look-up and resizing take the allocation that fails in them, the copy of the key included |
| `EventNames` | what `rocs.c` knows of each function: events it makes, parts of names, descriptions, modes | pure |
| `EventTable` | counting, filling, hashing, look-up, access and forgetting of events | one thread (`_rocm_smi_lock`); a step per device in each of the two walks, a step per access, the two steps of the shut-down. `htable_init` may fail, which nobody looks at. What a step does with the list of a device is a recursive function of the place in the list |
| `Coretemp` | the coretemp component | init with its error paths; update_control_state event by event (looking at `fd` and opening are two steps); read and stop event by event; shutdown. A value is abstracted to its age. `retvals` remembers what the initialisations returned |
| `SharedMutex` | `shared_mutex.cc`, `ScopedPthread` | where each process is in `shared_mutex_init`; of the object: there or not, robust or not, owner, state. `pthread_mutex_timedlock` and `pthread_mutex_consistent` may fail, making and mapping the object does not |
| `RsmiOps` | the steps a function of rocm_smi_lib is made of: check, lock, access, call, store | a function is a sequence of steps |
| `RsmiHelpers`, `RsmiIdentity`, `RsmiSensors`, `RsmiClocks`, `RsmiTopology`, `RsmiEvents` | the functions of `rocm_smi.cc`, one definition each, in the order of their checks and accesses | pure |
| `RsmiApi` | the table of the functions by name | |
| `RsmiLocking` | which functions take the mutex before they use the device, which edit the overdrive table | pure, with an assumption that TLC evaluates |
| `RsmiResults` | what the functions do with the result pointer and with a status they look at later: the rules that keep a failure from passing for a success and a success from coming without a result | pure, with an assumption that TLC evaluates: every function follows the rules but `rsmi_dev_memory_usage_get`, `rsmi_dev_brand_get` and `rsmi_dev_activity_avg_mm_get` |
| `RsmiCalls` | processes that run these functions against one device | a stack of frames per process, the recursive robust mutex, the overdrive edits, deaths |
| `GpuMetricsTables` | versions 1.1 to 1.7: structure, rows, public copy | pure |
| `GpuMetrics` | header, choice of the object, read in two parts, query, copy, log | a step per part; a part of a table says from which device and in which call it was read. The partition id of a device may be unreadable, which nobody looks at |
| `KfdNodes` | what `rocm_smi_kfd.cc` and `rocm_smi_io_link.cc` read | pure |
| `RsmiDiscovery` | `RocmSMI::Initialize`: cards, partitions, order, nodes | pure: the walk over the cards is a recursive function of the state it keeps, the list and the nodes left. `WellFormed` is what the kernel shows |
| `RsmiSession` | reference count, maps, Cleanup, `/dev/kfd`, notifications | calls under a mutex are one step; `rsmi_event_notification_get` reads an event a step, file after file, in two passes with `poll` in between |
| `RsmiQueries` | the calls that answer from the maps, and the rest of the process | |
| `MC*` | instances for TLC | |
| `ApapiSamplerProofs`, `RocmSmiContextProofs`, `RocmSmiInitProofs`, `EventTableProofs`, `RsmiCallsProofs`, `GpuMetricsProofs`, `RsmiQueriesProofs` (with those of `SharedMutex`), `CoretempProofs` | theorems and proofs | |

Compositions: `EventTable` runs over `HTable` and `EventNames`; `RsmiQueries`
over `RsmiSession`, `RsmiDiscovery` and `KfdNodes`; `RsmiCalls` over the
modules of functions. Elsewhere a module abstracts its neighbour:
`RocmSmiContext` assumes an initialised component and `RocmSmiInit` has no
contexts (`PAPI_shutdown` requires that no call is in progress, the only point
where the two meet); `RsmiCalls` has devices whose mutex exists, `SharedMutex`
one call in place of all functions; `GpuMetrics` has the mutex of
`RsmiCalls` as a lock.

External code is modelled from how the repository uses it and marked so in the
map: PAPI serialises the calls of a thread, calls only enabled components, keeps
the list of native events it had when an update fails; pthread, malloc, sysfs and
the driver may succeed or fail; the kernel gives the lowest free descriptor and
marks the robust mutex of a dead process.

## 4. Runs

| run | question | properties |
|---|---|---|
| `apapi_coretemp` | coretemp: two threads, two counters each, no failing call: is every answer the log, is no undefined behaviour reached, does `get_all_values` return? | `TypeOK`, `OneEntryPerThread`, `NothingLost`, `NoFault`, `LogSpec` (refinement), `CollectReturns` (liveness) |
| `apapi_failures` | arocm2: every external call may fail, `add_counter` goes on after a failure, PAPI may add the first few events only, `HAVE_DEBUG` counts a row too much, and the tables `EventCodes` and `event_list` are too small: are rows samples, read after the sampler ended, in bounds? | `NoOverrun`, `RowsAreSamples`, `SamplerGone` |
| `rocm_clean` | three event sets of two threads, accesses may fail, stops may fail and be repeated: do PAPI and contexts agree, is nothing left, is nothing destroyed while it runs? | `PapiAgrees`, `NothingLeft`, `StoppedBeforeDestroyed` |
| `rocm_failures` | every call that opens, starts, stops or closes may fail: are devices never shared, are values undisturbed? | `TypeOK`, `DevicesExclusive`, `ValueUndisturbed`, `OwnershipSpec` (refinement) |
| `init_failures` | three threads race for the first access in three sessions, every stage may fail | `UsableWhenOK`, `NothingLeftWhenDown`, `ChecksReturn` (liveness) |
| `coretemp` | two threads, a shared and a private file, three sessions, every call may fail: is what is read fresh, are private files closed, and is a missing or short table only used after the failure that leads to it? | `ReadsReturnSamples`, `TableSafe`, `DescriptorsReturned` |
| `rocs_events` | one or two cards with every mix of merged, split and plain functions, two sessions, allocations and iterators may fail | `TableExact`, `NamesMatchTable`, `SupportedOffered`, `WritesAsDescribed` |
| `rocs_described` | does an access that an event's description promises work? | `DescribedAccessWorks`: **violated**, see section 7 |
| `smi_mutex` | three processes start, call and stop; two may be killed at any step | `Exclusive`, `LoneStarterSucceeds`, `StartersReturn` (liveness) |
| `smi_calls` | one process calls every function with good and bad arguments and failing files, another edits the overdrive table and may be killed | `AccessExclusive`, `CommitsOwnEdits`, `SuccessIsTrue`, `LocksReturned` |
| `gpu_metrics` | two threads, three devices of which two share the object of their version, every version, reads that fail or come up short | `AnswersAreSamples`, `NothingHidden` |
| `smi_session` | two threads nest `rsmi_init` and `rsmi_shut_down` over five systems that are repartitioned in between, one handles notifications | `DevicesAreGpus`, `AnswersFromTopology`, `DescriptorsInUse`, `EventsDelivered`, `FilesOfOthersStay` (action property) |

Each property of a passing run has a mutant in `PROJECT.json`: a plausible bug in
one mapped definition under which TLC finds that property violated. Properties
that are conjunctions (`DevicesAreGpus`, `AnswersFromTopology`,
`DescriptorsInUse`, `AnswersAreSamples`, `SuccessIsTrue`) have named parts.

## 5. Bounds and fairness

- `MaxMetrics`, `NumBufElems`: two counters and six cells give two full rows, so
  that the room test is exercised at its boundary; in `apapi_failures` three
  metrics, seven cells, `NUM_EVENTS = 2` and `EventListCap = 1` leave a rest too
  small for a row and overflow both tables. The runs are of coretemp and of
  arocm2; arocm has the `HAVE_DEBUG` of the one and the returns of the other, and
  is covered by the theorems. Two application threads are enough
  for the races on `event_list`; the theorems of section 6 hold for any number.
  There is one collector: Score-P calls `get_all_values` from one thread.
- `RocmSmiContext`: two devices, one XGMI counter on each, a writable event and
  one without device; event lists that overlap in part, so that an opening is
  refused for one common device. Three sets where two belong to one thread show
  the state kept per thread.
- `MaxSessions` (init, coretemp: 3, event table: 2): the longest chains found
  are a failure, the session that does not notice, and the one that trips.
- `EventTable`: one card with any of 11 groups of functions, or two cards with
  two groups each and all groups, up to two frequencies per clock.
  `MCHash` makes names collide, and the table is resized up and down
  several times. `htable_init` may fail as a whole. Of the names only the first three and the last `MaxBadInsert`
  may find no memory. XGMI counter groups are on one card of the instance. The
  machines of the run satisfy `WaysAgree` and `InOrder` (section 6), an
  assumption of `MCEventTable` that TLC evaluates.
- `SharedMutex`: three processes, two of which may die, once each.
- `RsmiCalls`: process `p` calls each of the functions, `q` a function that
  reads a range, edits and commits. Failing files give one of two statuses. One
  caller passes bad indices and one may ask for trylocks. Both processes run one
  function at a time, again and again.
- `GpuMetrics`: ten assignments of versions to devices, each of 1.1 to 1.7 as
  the shared one, beside one that is supported or 2.0, which has no object. Calls for
  `d1` and `d2`, which share an object, come from one thread (`OneReader`).
- `RsmiQueries`: five systems (whole, split, a container that sees the second
  card, cards with missing identification, a node that lacks a property);
  `MaxRef = 2` stands for `INT32_MAX`, `MaxFd = 3` descriptors, `MaxEvents = 2`,
  `MaxRoom = 2`, `MaxFailures = 1`, `OccWidth` for 2^32. One thread uses
  notifications (`OneListener`). Queries are asked while no notification is prepared, since the
  two share no state.
- Deadlock is checked in `rocm_clean`, `gpu_metrics` and `smi_session`, where an
  application can always go on. The other models stop: a buffer or a session bound is used
  up, every process that may die has died inside, or undefined behaviour was
  reached (`fault`), after which nothing is said.
- Fairness. `ApapiSampler`: weak fairness of each sampling thread and of a
  collector inside a call: the loop of `thread_report` sleeps for a bounded time
  and calls functions that return. `RocmSmiInit`: weak fairness of the steps of
  a call that has begun; the lock needs no strong fairness, since once
  `initialized` is set no thread asks for it. `SharedMutex`: weak fairness of
  the steps of `shared_mutex_init`; the time-out of `pthread_mutex_timedlock`
  makes waiting one of them. `add_counter`, users of a device and everyone else
  owe nothing. The other properties are safety and are checked without fairness.

## 6. Proofs

TLAPS checks the following for all values of the constants that satisfy the
named assumptions of the modules (types and finite lists of events; no bound on
threads, processes, sets, devices, buffer cells, descriptors or sessions). A
theorem that needs more says so in its `ASSUME`; the paragraphs below say why
the code needs it too. Where such a condition is not evident, a run has it as an
assumption of its `MC` module, so TLC shows that some instance meets it.

### The sampling plugins: `ApapiSamplerProofs`

`TypeCorrect`, `NeverOverrun`, `ExclusiveEntries` hold in all three plugins.
`NoOverrun` is not inductive: that the row about to be read fits depends on
`num_cntrs` not growing once sampling has started, although another thread's code
writes it without the mutex. The invariant `IInv` therefore says who is inside
the mutex (`MutexInv`), that entries below `event_list_size` are those with a
thread, one per thread (`ListInv`), which entry the local `id` of a call stands
for (`CallerInv`), that a thread begins no more calls than metrics were accepted
(`CallsInv`), that an entry counts exactly its thread's calls (`CountInv`), and
that sampling starts only with all of them, on an event set that holds no more
(`StartInv`).

| theorem | hypotheses | says |
|---|---|---|
| `ReadAfterJoin` | `SoleCollector` | `SamplerGone`: an answer is read after its sampler was joined |
| `AnswersAreSamples` | `SoleCollector` | `RowsAreSamples`: in each plugin and whatever fails, the rows returned are the rows sampled |
| `EndsForAReason` | `SoleCollector` | `NothingLost`: a sampler that ends during the measurement has no room, no clock or a failed read behind it |
| `ImplementsLog` | `SoleCollector` | `Spec => LogSpec`, the refinement of the abstract log, in each plugin and whatever fails |
| `NeverFaults` | `Clean` | `NoFault`: no undefined behaviour is reached |

All of them have `ColumnAssumption` (`NUM_EVENTS <= 256`): a counter id keeps
its column in eight bits, and the code's `NUM_EVENTS` is 32. One collector
is what Score-P has; two would both clear `counter_enabled` and join.
`RowsAreSamples` and `LogSpec` say per plugin what an answer is. Counter c of a
set that holds the first `members` events was sampled if `c < members`. Where
failures return (arocm, coretemp), no id is handed out for a counter PAPI did
not add, so every value is one `PAPI_read` gave; in arocm2, which goes on, such a
counter has the zeros of `calloc`, and the values of the others stay in their
columns. With `HAVE_DEBUG` (arocm, arocm2) the answer may have one more row than
was sampled; it is the last one, and shows cleared cells or what lies behind the
buffer, nothing of another sample. The argument is that a row is
`num_cntrs + 1` cells however many of them PAPI fills, and that `num_cntrs` and
`members` stand still once there is a sampler, so positions are multiples of the
row, complete rows are never written again, and what is behind them is clear
(`BufferInv`, with `RowsOK`); that where failures return a set is sampled whole
(`WholeInv`); an id issued names a column of a listed entry (`IssuedInv`);
nothing is added once collecting has begun, and entries before the loop index
are joined (`CollectInv`). `Clean` is: no `HAVE_DEBUG`, no call fails but
`PAPI_read`, at most as many metrics and threads as the two tables have room
for. Then every listed entry has been given a thread and that thread a buffer
before collecting begins, and it is joined once (`CleanInv`).

### The contexts: `RocmSmiContextProofs`

`TypeCorrect`, `ExclusiveDevices`, `UndisturbedValues` and `ImplementsOwnership`
(`Spec => OwnershipSpec`) hold with any call failing. The invariant adds that the
calls of a thread follow one another (`SerialInv`), what PAPI thinks of the set a
call works on (`CallInv`), that a running context is the one the thread's state
speaks of (`RunInv`), that a context in use holds exactly the devices of its
events (`MaskInv`), that only a failed close leaves a context behind
(`StaleInv`), and the loop index and array bounds (`IdxInv`, `CountsInv`). The
unlocked copy in `rocs_ctx_read` is safe for events of a device because two
contexts in use have disjoint masks (`Apart`), and only for them. The refinement
maps opening to `Acquire` or `LoseFree`, closing to `Release` or `LoseHeld` and
every other step to a stutter.

`AgreesWithPapi`, `LeavesNothing` and `DestroysStopped` assume `Tame`: accesses
and stops of counters may fail, opening, starting and closing of a context do
not, since their error paths leave a context that PAPI does not know of (section
7). The property that had to be found is `ContextInv`: while a set is active, and
no longer, it has a live context whose state is that of its thread. That needs
`ActiveInv`, that a thread has one active set, since the state is per thread and
the context per set. `UsedInv` gives every marked device and every counter of
the driver an active set, and `StoppedInv` is the loop of `rocs_ctx_stop`: a
context is closed only after each of its stops has worked, so that a stop that
failed is repeated by the next `PAPI_stop`.

### The delayed initialisation: `RocmSmiInitProofs`

`TypeCorrect`, `Once`, `Usable`, `NothingLeft`, `Ready`, `FreedOnce`. The
interesting one is `Usable`: that no caller is told success too early although it
reads `initialized` and `disabled` without the lock. The invariant says that the
lock has one holder, the thread inside (`LockInv`), what that thread has done so
far and what its `errno` says of rocs (`StageInv`), that without a holder an
enabled component is one with rocs up (`EnabledInv`), that a thread stores
`initialized` before it makes `disabled` OK, so that the latter alone implies
rocs is up, that nothing is left while PAPI is down (`DownInv`), that outside
`fn_exit` the library is open only while the component is marked `initialized`,
be it by a `rocs_init` that failed (`HandleInv`), and that in the first
session no table was freed before `rocs_init` has failed (`FirstInv`).

### The event table: `EventTableProofs`

| theorem | hypotheses | says |
|---|---|---|
| `TheTableIsExact` | `WaysAgree` | `TableExact`: in the first session the second walk writes as many events as the first one counted, and none behind the table |
| `TheSupportedIsOffered` | `InOrder` | `SupportedOffered`: what a listed device supports is offered, and what can be set by an event that can be written |
| `WritesAreDescribed` | `InOrder` | `WritesAsDescribed`: an event that writes a device says so, and is of the function called, in every session |
| `FirstWritesAsDescribed` | | the same in the first session, whatever the order of the lists |

The two walks of `rocs_init` ask different questions. The first one asks of the
way from a device to another, the second one of the way back; and only the first
one asks for the bandwidth of a way that cannot be used. `WaysAgree` says that the ways are alike in both
directions, and that no way that can be used comes after one that cannot and
whose bandwidth is refused. Without it the property is false (section 7).
`InOrder` says that the list of a device is in the order in which
`rocm_smi_lib` makes it, sorted by name and then by sensor: the get function
comes before the set function, the first fan before the others, and between two
functions that merge no function stands that merges into another event or none,
except `fan_speed_max_get` and `power_cap_range_get`. The second walk only makes
an event writable that is there when it comes to the set function.

`TableInv` is the invariant: in the first walk the books are those of the
devices behind it (`Counted`); in the second one they are as the first walk left
them for the devices that are done (`Filled`), and at its end nothing is missing
(`Complete`); and what was last written was written through an event that has the
mode for it (`WroteWritable`). The argument:

- The walks of a device are the recursion their definitions state (`CountGo`,
  `AddGo`, `FillGo`, `WaysGo`, `StagesGo`).
- What a function of the list adds is a number of events, which depends on what
  the statics have seen (`EntryStep`, `EntryDone`). The two walks go in lockstep
  over a list: they add as many and see the same (`SameStep`, `ListsAgree`), over
  the ways to the other devices too (`SameWays`).
- The counts of the first walk after each device (`Stages`) only grow, so the
  table has room for what the second walk writes when it is at the same device.
- The statics never forget within a session, and point to an event of the
  function they are for (`SeenRight`), or of the first fan (`FanRight`). So a set
  function that comes after its get function finds the event to make writable,
  and no later function takes that back (`InList`, `FillOffers`).

Two of the properties speak of the first session because the statics outlive the
table: later the merged events are missing. What a static holds then is a code of
a table that is gone, and a set function makes whatever stands there in the new
one writable. `WritesAreDescribed` says that this harms no device, and
`WriteInv` why:

- A device that was walked before adds the least that it can, `LeastBy`; so the
  walk of a later session is at the first place that a device can have, `Start`,
  and ahead of it only once it has come to a device that no walk reached before,
  when an earlier session failed (`Ready`). The slots of a device are seen
  together and device after device (`Whole`, `SlotsSeen`).
- A static points behind the place where, in such a walk, the get function of its
  slot stands on the list (`Led`). If the set function finds an event there, it
  was added by a function between the two, which by `InOrder` is the one that reads
  the largest fan speed or the range of the power cap (`StaleWalk`). The access
  functions of these refuse an event whose mode is not reading, so that nothing
  is written through it: the events that may be written through describe it
  (`Careful`, `Kept`).
- On a device that is walked the first time the statics point to events of this
  session and of their slot (`Fresh`, `FreshWalk`), as in the first one.

### The functions of rocm_smi_lib: `RsmiCallsProofs`

`ReturnsLocks`, `AccessesExclude`, `CommitsOwn`, `SuccessesTrue`, for any number
of processes that call any of the functions and die at any step. What the proofs know of the
functions is `ProgramAssumption` of `RsmiLocking`, a statement about the tables
of programs that no constant changes and that TLC evaluates in `smi_calls`: all
but six take the mutex before they touch a file of the device, directly or in
the functions they call (`LocksFirst`), and only `Setters` edit the overdrive
table, which no function calls. A function that forgot its lock would falsify
the assumption. `LockInv` ties the count of the recursive mutex to what the
frames of its owner hold, through calls within calls and returns out of the
middle of a function. `SafeInv` says that frames without a lock are still at the
part of a program before its first lock, unless the function called is one of
the exceptions. `TableInv` says that a process with edits that are its own took
the mutex in its outermost function and has it still, so that a second process
cannot come to a commit.

`SuccessesTrue` (`SuccessIsTrue`) rests on `ResultAssumption` of `RsmiResults`,
again evaluated by TLC over all programs: a failure of a step that does not
return at once is dealt with before a new status is asked for or success is
returned (`Tidy`), and no way through a program returns success before it stores
the result or hands the pointer to a function that promises one (`Delivers`,
`Later`), for every choice a program leaves open (`Runs`). `TruthInv` carries
this through chains of calls: an idle process has status success; otherwise the
innermost frame is `Upright`, what is left of its program still follows the
rules given its status and what was stored, and each other frame `Waits`, so
that it is upright again whatever the one it called returns. A process whose
outermost function is `rsmi_dev_memory_usage_get` is set aside (section 7).

### The gpu metrics: `GpuMetricsProofs`

`ShowsEverything` (`NothingHidden`) needs no hypothesis. Its core is
`TablesAgree`: for each of the seven versions, the rows and the public copy take
every field of the structure the driver writes; `ShapeInv` then says that a call
that copies is working on the object of its device's version. `ReadersGetSamples`
(`AnswersAreSamples`) assumes `OneReader`: of two threads, none reads a device of
a version that the other reads too, unless both read the same device by
`rsmi_dev_gpu_metrics_info_get`. The code needs that: a device's mutex does not
protect its version's object, and the queries and the log take no mutex at all.
`HoldInv` says that a call of the info function has the mutex of its device
until it returns, `DataInv` what the header, the object and the rows hold at each
point of a call, `GoodAnswer` what was answered with.

### The device mutex: `RsmiQueriesProofs`

`MutexTypeCorrect`, `Exclusion`, `Recovery`, for any number of processes.
`OwnerInv`: a live process between lock and unlock is the one the mutex names,
unless the mutex was overwritten while held; the kernel gives a mutex only of
nobody or of a dead owner (`HeldByLive`), so two live processes cannot both be
named. `AloneInv`: after a reset by a process that is alone, the mutex it has
made anew is free; a mutex it has inherited is still that when it makes it
consistent. These proofs are the last part of the module; they share no
state with the rest of it.

### Sessions, devices and notifications: `RsmiQueriesProofs`

| theorem | hypotheses | says |
|---|---|---|
| `OthersKeepFiles` | `~CallerReinits` | `FilesOfOthersStay`: no step closes a file of the rest of the process |
| `HandleIsCounted` | `~CallerReinits` | `/dev/kfd` is counted once per notification, and stays open for it |
| `DescriptorsAreCounted` | `~CallerReinits`, `OneListener` | `DescriptorsInUse`: the above, and every open descriptor of the library has its use |
| `EventsArrive` | `~CallerReinits`, `OneListener` | `EventsDelivered`: an event raised was delivered, waits, or went with its file; what is in a buffer names its device |
| `DevicesLiveAsCounted` | `~CallerReinits` | `DevicesCounted`, a part of the next |
| `DevicesAreTheGpus` | `~CallerReinits` | `DevicesAreGpus`: in a session every card and partition is a device once, in order, and its own node answers for it |
| `AnswersAreTrue` | `~CallerReinits`, `LinksShown`, `ProcessesShown(K)` | `AnswersFromTopology`: what a session answers about processes and links is true of the system that is there |

`FdInv` is the invariant of the descriptors: types for any data of the devices
(`TypeInv`), that each notification has a file of its own GPU and no two share
one (`FilesInv`), that `/dev/kfd` is counted as often as it is used, and that
without a session its stale number is all there is (`HandleInv`).
`~CallerReinits` says that nobody calls `rsmi_init` again after a preparation
that failed; without it, Cleanup closes a number that may be somebody else's
(section 7), and the theorem is false. `OneListener` says that one thread uses
notifications: `rsmi_event_notification_get` looks at the devices and reads
their files without a mutex, so a second one could stop a notification or end
the session in between. `CountInv` (`refCount` is the number of calls that
are still to be undone) gives that nobody else can end the session while a
thread is inside, and `GetInv` what a call in progress knows that is still true:
the files it polls are those of devices it has not read. `OpenedInv` says when a
failed preparation is behind. `UnreadInv` counts events: raised is taken, lost
and unread together, over all descriptors, by lemmas on `Tally`, a disjoint union
in place of a sum, which needs no induction.

`DevicesAreTheGpus` is about data, and so about `SystemsAssumption`: every
system is `WellFormed`, as the kernel shows cards and nodes, with addresses and
ids of their own, and the first node of a partitioned card at the card's
address. TLC evaluates it on the systems of `smi_session`, the container and
the node that cannot be read among them. The argument has four parts.

- Places. In a finite total order each element has a place of its own and each
  place an element (`Places`), by induction on the size of initial segments.
  `Ascending` and `Sorted` choose the element of a place, so that a sorted list
  has every element once, in order (`SortedFacts`).
- The walk. `Walked` is the recursion its definition states (`WalkGoes`), and
  after the c-th card the list has exactly one entry for each card so far and
  for each further partition of it, while the nodes of the cards to come are all
  still in the map that is walked and erased (`WalkInv`, `WalkEnds`), whatever a
  look-up behind the end of that map erased.
- The GPUs. An entry has the address of a node only if it is of that node's card
  or partition (`EntryOfNode`), and every node with a card has an entry
  (`EntryThere`), so that the devices kept and sorted show each GPU once
  (`MatchedShows`).
- The sessions. `TopoInv` says that the devices show the present system and that
  the maps answer for each with its own node. Initialize lays new entries over
  the old ones (`TopoStarts`), a notification changes no address (`Relabelled`),
  and cards are repartitioned when no device is there.

`AnswersAreTrue` adds what the maps hold beyond the devices (`MapsInv`), because
Cleanup keeps them: nodes of GPUs the library has ever seen, and links it has
ever read. Two hypotheses say what the kernel shows, and TLC evaluates both on
the systems of the run. `LinksShown`: a GPU is linked to a CPU, CPUs can be read,
nodes that cannot be read are numbered behind the others a GPU is linked to, and
repartitioning removes no CPU and no link of one. The third part is needed:
`KFDNode::Initialize` returns at the first node it cannot read, nobody looks at
the error, and the links behind are lost. `ProcessesShown(K)`: for each system, K
is a set of GPUs that has those with a card and grows along `Repartitions`, so
that it bounds what the library may know then; and of these a process uses only
those that are there, since a card is not repartitioned under a process. The
files of a process are numbers, absent or broken, and its occupancies together
far below 2^32 (`FilesAssumption`). The argument:

- Links. `Linked` is the recursion its definition states (`LinksGo`); after k
  links, it has every readable GPU among them and the nearest CPU (`ReachMore`),
  so that a node knows its direct links (`DirectKnown`) and its numbers, with the
  table of links, are those of a path over the nearest CPUs (`PathOverCpus`).
  The table may keep old links, never one between CPUs that is gone
  (`LinksAdded`, `MapsRepartition`).
- Sums. In any order of the GPUs, each of the four sums after k GPUs is the
  cardinality of the union `Tally` makes of their numbers (`SumMore`), and the
  occupancy never wraps, because it is part of what `FilesAssumption` bounds
  (`PartLess`). So the order of the hash set does not show (`SumsTrue`).
- Processes. The nodes that are known and used are those of devices, and each is
  marked with its own (`DevicesNamed`).

### The coretemp component: `CoretempProofs`

`TypeCorrect`, `FreshReads`, `SafeTable`, `DescriptorsGivenBack`. That a read
finds every file of its set open is not what
`_coretemp_update_control_state` tests: it holds because a list grows by one
event at its end, the files of the events before it are open (`UpdateInv`), and
no file closes while a set exists. `ActiveInv` says why a failed update does no
harm: `active_idx` still begins with the events of the set. `SessionInv` ties
open files and sets to an enabled component with a table, `DescriptorInv` counts
the descriptors of a file of one set. `SafeTable` is about what a failed
initialisation leaves to the sessions after it, for any number of them:
`TableSafe` allows a NULL table only right after a session that returned
`PAPI_ENOMEM`, and a table written beyond its end only two sessions after one
that returned `PAPI_ECMP`, with a success in between. `HistoryInv` ties the
statics to that history: a mark without a table is that of a session that failed
while it built its list (`PAPI_ECMP`, no events) or allocated the table
(`PAPI_ENOMEM`), this one or the last (`MarkInv`), and a list without a mark is
left by the session that a failed one has misled (`ListInv`). That a list fits in `active_idx` is the pigeonhole
principle (`ShortLists`): events of a set differ, and the header's bound on
their number is `CoretempAssumption`.

### Only model-checked

Liveness (`CollectReturns`, `ChecksReturn`, `StartersReturn`), which is out of
the prover's reach. `NamesMatchTable`: the hash table is made by folds with an
operator argument over chains and buckets, which are opaque to the provers, and
what it says of resizing depends on the hash function as data.
Induction as such is not what is missing: over the
natural numbers it can be had for a set in place of a predicate, from the
well-founded order on them (`SetInduction`), and functions that are recursive
over an interval can be shown to exist; the walks of the event table and over the
cards, the links of a node and the sums for a process were proved about in this
way. `DescribedAccessWorks` is violated. Not
listed in a run because the theorem says more: `InitializedOnce`, `ReadyAgain`,
`NoDoubleFree`, `HandleCounted`.

## 7. The finding, and what the properties set aside

`rocs_described`: `rocs.c:2588` describes the event of a fan as "Current fan
speed in RPMs (Rotations Per Minute), Read/Write"; when the set function exists
as well the merged event has the mode `ROCS_ACCESS_MODE__RDWR`, and
`access_rsmi_dev_fan_speed` (`rocs.c:3685`) tests for equality with `READ`, so
every read stores `PAPI_ENOSUPP`.

The models also reach the following, which no text of the repository promises to
be otherwise or which a property excludes in its statement. Each has its place in
the hazard list or in the comment of the property.

- `apapi.c:387`: with `HAVE_DEBUG`, which arocm and arocm2 define, the statistics
  line divides by `sample_count` and post-increments it: a division by zero where
  nothing was sampled, and else a row that was never sampled is returned.
  `RowsAreSamples` and `LogSpec` allow that one row; `NoFault` is a property of
  coretemp.
- `apapi.c:300`, `:471`, arocm2 `apapi.c:440`: the result of `calloc` is not
  looked at, a thread that was never created is joined, and a set that PAPI
  filled only in part is read on, so that zeros come back for the counters it
  lacks. `NoFault` is about runs without a failing call; `RowsAreSamples` allows
  these zeros in arocm2.
- `rocs.c:536`, `rocs.c:597`, `rocs.c:641`: the error path of an open keeps a
  pointer to freed memory; the error path of a start stops the event that failed
  instead of those started before; an event without a device is protected by
  nothing between access and copy.
- `linux-rocm-smi.c:122`, `:315`, `rocs.c:1091`: a thread that comes between the
  two assignments is told the component is not initialised; after a failed first
  access the next session can never initialise it; a second session may free the
  device tables twice.
- `rocs.c:1565`: the XGMI group is counted one short of what the filling walk
  adds. `TableExact` speaks of devices without such a group.
- `rocs.c:1587`, `rocs.c:1942`: the first walk leaves the ways of a device at a
  bandwidth that is refused, even that of a device which cannot be reached; the
  second one passes over such a device. If one that can be reached comes after it,
  more events are written than were counted. `WaysAgree` sets such machines
  aside.
- `linux-coretemp.c:530`, `:598`, `:741`: the session after one that returned
  `PAPI_ENOMEM` uses a missing table; the second session after one that returned
  `PAPI_ECMP` copies a list longer than its table. `TableSafe` allows exactly
  these two. Two threads that first add the same event lose a descriptor.
- `rocm_smi_utils.h:225`: `EOWNERDEAD` is not looked at, so that the first
  unlock after a death makes the mutex unusable, and later locks fail unnoticed.
  `AccessExclusive` and `Exclusive` speak of the time before.
- `shared_mutex.cc:61`: `lsof` compares names that never match, so that a
  time-out resets a mutex that is in use. `Exclusive` sets `spoiled` mutexes
  aside.
- `linux-rocm-smi.c:315`: a failed `rocs_init` leaves the library open and
  `initialized` set; no later session can initialise the component or close the
  library.
- `rocs.c:374`: the result of `htable_init` is not looked at; without its buckets
  no name is ever found in that session. `htable.h:328`: a key that cannot be
  copied is hashed all the same; the process ends there.
- `rocm_smi_gpu_metrics.cc:4732`: the status of a read is dropped, and the copy
  delivers an older sample; `:4730`: the status of the partition id is dropped,
  and the copy shows the first partition; `:405`: threads that read two devices of one version
  disturb each other.
- `rocm_smi_main.cc:414`: Cleanup closes `/dev/kfd` and keeps the number, so
  that after a failed preparation a later Cleanup closes somebody else's file
  (with `CallerReinits = TRUE`; the run has `FALSE`).
- `rocm_smi.cc:3388`, `:2248`, `:3746`: when the memory used cannot be read,
  the status of the total is returned in place of its own; a brand without a SKU
  is a success whatever `rsmi_dev_name_get` returned; the average of the
  multi-media activity is stored in the pointer's copy. `SuccessIsTrue` sets
  these three functions aside.
- `rocm_smi_kfd.cc:861`: the loop over the memory banks does not advance after a
  bank that counts; the sum is right where banks are alike.

## 8. Not modelled

Formatting, logging and string helpers; the text of sysfs files beyond what a
check tells apart (a success, or one of the statuses its parser may give); the
values inside a gpu metrics field and version 1.0, and a firmware whose header
gives its table another size than the structure of its version has; failures of
`shm_open`, `ftruncate`, `mmap` and the mutex attributes; the first allocation of
`htable_init`, without which the process ends in `rocs_init`; the text of a
notification (an event is one whose text the parser of
`rsmi_event_notification_get` reads and whose message fits its buffer); the perf_event descriptors
behind a counter handle; the memory of iterator handles; monitors (hwmon) beyond
one access; the enumeration functions of the PAPI components and the event
look-up by code, which change no state; loading the symbols of the library (one
step of `RocmSmiInit`); the rocs variants built with
`ADDENERGY_NO_ROCM_SMI_PATCH` or `NO_PCIE`; the headers of the kernel
(`kfd_ioctl.h`, `amdgpu_drm.h`); the Python front end, the OAM wrappers, the
scripts, the benchmarks; the environment variables of the plugins and of
rocm_smi_lib. `LSEEK` and `READALL` are off in coretemp, as in the source.

## 9. Plan

The plan of the first version (core, contexts, initialisation, coretemp, hash
and event table, shared mutex, session, counters, access modes) is done as far
as section 3 says. What remains, in the order of its use:

| what | why | how |
|---|---|---|
| `HTable` without folds | `NamesMatchTable` is only checked | the hash table as a state machine of its own, so that a step changes one chain |
| `RocmSmiInit` with `RocmSmiContext` over several sessions | the two meet at `PAPI_shutdown` only | one module over both, with `rsmi_init` of `RsmiSession` |
| perf_event descriptors of counters | `RocmSmiContext` assumes the life of a counter | `rocm_smi_counters.cc` as a state machine |
