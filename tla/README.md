# rocSHMEM, modelled and verified in TLA+

rocSHMEM is an OpenSHMEM-like library for GPU kernels: wavefronts call `put`,
`get`, atomics, `quiet`, barriers and collectives themselves. Three backends
carry the calls: **RO** (reverse offload: the GPU writes commands into a ring in
host memory and a CPU thread turns them into MPI calls), **IPC** (loads, stores
and SDMA copies over the fabric of one machine) and **GDA** (the GPU drives the
NIC's send queues). This directory specifies the library's concurrent core in
TLA+, model-checks it with TLC and proves its main safety properties with TLAPS.

Source paths are relative to `src/src/rocm-systems/projects/rocshmem/src/`;
`ro/` stands for `reverse_offload/`, `docs/` for the documentation beside that
directory. PROJECT.json gives, for every definition, the lines it models.

1. [The system](#1-the-system)
2. [The modules](#2-the-modules)
3. [Runs](#3-runs)
4. [Proofs](#4-proofs)
5. [Findings](#5-findings)
6. [Known divergences the runs keep clear of](#6-known-divergences-the-runs-keep-clear-of)
7. [Not modelled, and why](#7-not-modelled-and-why)
8. [Plan](#8-plan)

## 1. The system

| component | state | operations | interacts with | hard behaviour | what makes it correct | modelled |
|---|---|---|---|---|---|---|
| RO command ring: `ro/context_ro_device.cpp`, `queue.cpp`, `block_handle.hpp` | slots with a valid byte, the CPU's `read_index`, each handle's lock, `write_index` and copy of `read_index`, status bytes | reserve, fill, publish, wait for status (GPU); take, clear, advance (CPU) | transport, default context | lanes publish out of order, the index copy is stale, a slot is reused while somebody looks at it | no overrun, no shared slot, nothing lost, delivery in order; a call should wait for its own completion (finding 1) | partly |
| RO MPI transport: `ro/mpi_transport.cpp` | queue `q`, MPI requests, `outstanding` and `waiting_quiet` per context | `insertRequest`, `submitRequestsToMPI`, `progress`, `quiet`, collectives | ring, MPI, other PEs | MPI completes in any order; only the oldest 128 requests are tested; quiets wait on a count | count = requests in flight; a quiet sees all earlier commands complete; each caller notified once | modelled |
| RO default context: `ro/context_ro_tmpl_device.hpp` | pools of status bytes and result words | borrow, publish, poll, return | AtomicWFQueue, ring, transport | flags and words are recycled between waves; a call holds one buffer while it asks for another; all waves share one ring | no flag lost or lent twice, whoever asks is served, no deadlock over the pools | partly |
| RO backend and poll thread: `ro/backend_ro.cpp` | rings, two CPU threads, buffers | create, round-robin poll, teardown | the above | teardown while commands are queued | | partly |
| AtomicWFQueue: `containers/atomic_wf_queue*.hpp` | ring, `head_`, `tail_`, `curr_size_`, two locks | `dequeue`, `enqueue`, host `push` | ABQL mutex, default context | the two ends have different locks and meet in one counter | no element lost, doubled or read early; every wave served | modelled |
| ABQL block mutex: `sync/abql_block_mutex.*` | ticket counter, 32 memory channels | `lock`, `unlock` | containers | more waiters than channels | exclusive, first come first served | modelled |
| FreeList and context pool: `containers/free_list*.hpp` | two linked lists over one array of nodes, lock | `pop_front`, `push_back` | `create_ctx`, `destroy_ctx` of every backend, ionic's fetch buffers | many blocks at once; nodes are recycled | an element has one owner | modelled |
| IPC collectives and barriers: `ipc/context_ipc_device_coll.cpp`, `context_ipc_tmpl_device.hpp` | `barrier_pSync`, `reduce_pSync`, `alltoall_pSync`, `pWrk` in symmetric memory | barriers, broadcast, reduce, reduce-scatter, alltoall, fcollect | teams, IPC copies | flags and work arrays are reused by the next call, with or without a barrier between | no PE leaves early, no flag or block of one call is taken for another's | partly |
| IPC context and copies: `ipc/context_ipc_device.*`, `ipc_policy.hpp`, `sdma_policy.hpp` | peer base addresses, dirty bits | put, get, atomics, quiet | SDMA queues | quiet of several wavefronts | quiet covers its caller's copies | partly |
| IPC backend: `ipc/backend_ipc.cpp` | team pool, context pool | create, `create_new_team`, `team_destroy` | bootstrap, teams | PEs agree on work arrays | one team per slot | partly |
| SDMA queues: `sdma/anvil*` | ring of packets, read, write, cached and committed indices | reserve, pad, place, commit, quiet | IPC copies, the driver | padding at the wrap; stale read index; waves wait for each other | packets whole and in order, nothing overwritten | partly |
| GDA queue pairs: `gda/mlx5`, `gda/bnxt`, `gda/ionic` | send queue, producer and consumer counters, doorbells, completion queue, lock, fetch words | post, ring doorbell, poll, quiet | NIC | narrow counters wrap; doorbells are batched; waves commit in order | each WQE executed once and in order, a quiet waits for its own | modelled |
| GDA backend, contexts, collectives: `gda/*.cpp`, `context_gda_tmpl_device.hpp` | queue pair per PE, pSync arrays | create, collectives, barriers | queue pairs, bootstrap | as IPC, over queues whose puts arrive later | as IPC | partly |
| Teams and tracker: `team*.cpp`, `rocshmem.cpp` | active set, work-array slot, list of teams | split, split_2d, translate, destroy | every backend, bootstrap | members agree on a free slot | one slot for all members, used by no other team | partly |
| Bootstrap: `bootstrap/*` | sockets to root, ring and peers | check-in, ring, allGather, alltoall, barrier | every backend | connection order, timeouts, peers that die | all connect or none; exchanges exact | partly |
| Library interface: `rocshmem.cpp`, `rocshmem_gpu.cpp` | backend pointer | dispatch | all | | | partly |
| GDA NIC topology, Host interface, Memory and symmetric heap, MPI instance, Wavefront coalescer, Memory fabric, Statistics/tracing/environment | | | | start-up, wrappers or stateless | | no (section 7) |

The hazards, each at its line with the properties that watch it, are in PROJECT.json.
They fall in four groups: **reuse** (a slot, flag, word or counter taken down
for its next user while somebody still looks at it), **stale copies** (of a read
index, a consumer counter, a dirty bit), **hand-overs** (valid byte, doorbell,
commit order, locks), **agreement** (PEs that must choose the same thing).

## 2. The modules

| module | models | shown by |
|---|---|---|
| `RoQueue` | the RO ring between wavefronts and the poll thread | `ro_ring`, `ro_status`, `RoQueueProofs` |
| `RoTransport` | `MPITransport` on every PE | `reverse_offload`, `ReverseOffloadProofs` |
| `FifoLock` | abstract first-come-first-served lock | refined by `AbqlMutex`, used by `AtomicWfQueue` |
| `AbqlMutex` | `ABQLBlockMutex` | `reverse_offload`, `ReverseOffloadProofs` |
| `FreeList` | `FreeList` under that mutex (extends `AbqlMutex`) | `reverse_offload`, `ReverseOffloadProofs` |
| `BufferPool` | abstract pool of buffers | refined by `AtomicWfQueue`, used by `DefaultCtx` |
| `AtomicWfQueue` | `AtomicWFQueue`, step by step | `reverse_offload`, `DefaultCtxProofs` |
| `DefaultCtx` | calls on the RO default context, composed with `AtomicWfQueue` | `reverse_offload`, `DefaultCtxProofs` |
| `RoundBarrier` | abstract barrier, round after round | refined by `IpcBarrier`, `GdaBarrier`; used by `IpcCollectives` |
| `IpcBarrier` | `internal_sync` of the IPC backend, both algorithms | `barriers`, `IpcBarrierProofs` |
| `GdaBarrier` | the barrier forms of the GDA backend (extends `IpcBarrier`) | `barriers`, `gda_barrier`, `IpcBarrierProofs` |
| `IpcCollectives`, `GdaCollectives` | the collectives of the two backends on the arrays they share | `collectives`, `ring_phases`, `CollectivesProofs` |
| `SdmaQueue` | one SDMA ring, its producers, the copy engine, quiet | `sdma_ring`, `sdma_quiet`, `SdmaQueueProofs` |
| `GdaNic`, `GdaMlx5`, `GdaIonic`, `GdaBnxt`, `GdaQueuePair` | send queue and NIC; each vendor's queue pair; the dispatch | `gda_qp`, `bnxt_full`, `GdaQueuePairProofs` |
| `Bootstrap`, `Teams` | `TcpBootstrap`; host exchanges, team splits and destruction on top of it | `host_teams`, `TeamsProofs` |
| `TeamPrograms` | which host programs are legal uses of the team calls | `host_teams`, `TeamsProofs` |
| `MC*` | constants of the TLC instances | |

**Composition.** `DefaultCtx` runs the calls over the real steps of
`AtomicWfQueue` for the flags and over `BufferPool` for the words, which the queue
is proved to implement; the queue's two locks are `FifoLock`s, which the
mutex is proved to implement. `FreeList` takes the mutex itself. `RoTransport` takes from
`RoQueue` that commands of a context arrive in order (`InOrder`, proved) and
starts at `insertRequest`; `RoQueue` and `DefaultCtx` reduce the transport to "an
accepted command may be completed later, in any order" (`OwnCallOver`, proved). `RoTransport` gives every
thread a flag of its own to poll; that the poll goes through a slot of the ring is in the other two.
The collectives take their barriers to be `RoundBarrier`s, which `IpcBarrier` is
proved to implement, and what they post to a queue pair to be executed once
and in order (`OnceInOrder`, `QuietMeansDone` of `gda_qp`). `Teams` extends
`Bootstrap`: every split is an exchange over its sockets.

**Common conventions.** One action is one access to memory others see, or one
handler of a single-threaded server. Spinning is an explicit stutter (`Spin`),
so that TLC's deadlock check reports waits for ever that are not spins. Operators marked *Faulty variant* are slips of
the kind the code could contain; the mutants put them in.

### RO: `RoQueue`, `RoTransport`

GPU actions of `RoQueue`: `Start` (a call, any number of lanes active),
`AcquireLock` (the CAS; only the winning swap changes anything),
`RefreshReadIndex` (one turn of `wait_until_space_available`), `Reserve`
(`next_write_slot_o_m_m`: every active lane gets its slot and `write_index`
advances), `ReleaseLock`, then per lane `Fill`, `Publish` (the valid byte),
`PollStatus` / `SeeStatus`, `ResetStatus`; `Return` joins the lanes. CPU:
`InsertRequest`, `ClearValid`, `IncrementReadIndex` are the three steps of
`Queue::process`. `write_index` and `read_index` are 64-bit, start at zero and do
not wrap in any run of the program: naturals. A slot keeps the `status` of its
last blocking command, as the code does.

`RoTransport`, per PE: the FIFO `queue` (`q` and `q_wgid`), `requests`, `outstanding`,
`waiting_quiet`. One `Submit` is one turn of `submitRequestsToMPI` with all the
command's handler does: the requests pushed (`Posts`), the count, `quiet` at
once or later. One `Progress` is one call of `progress` whose `MPI_Testsome`
found the set `done` complete: any subset of those MPI has finished among the
oldest `Window`. MPI is external: a point-to-point request may complete at any
time, a collective one after every PE has posted its own.

### Containers: `AbqlMutex`, `FreeList`, `AtomicWfQueue`, `DefaultCtx`

`AbqlMutex` has the three memory operations of a lock pass: `GrabTicket`,
`TakeTurn` (the last read of the spin), `SignalNext`. `FreeList` adds the list
operations between them, node by node. `AtomicWfQueue` splits `dequeue` and
`enqueue` at every access another wave can see: `TakeHead` / `SubtractSize` and
`WriteTail` / `AddSize` are separate, since only `curr_size_` connects the two
ends. `Free`, the refinement mapping, is what a dequeuer can still take.
`DefaultCtx` follows a call through `TakeRet` and `AskStatus` (the word, then the
flag), `Publish` (`RoQueue`'s reserve, fill and publish in one step, waiting for room in the
ring), `SeeStatus` and `ResetStatus`, both on the flag that stands in the *slot*
(`Polled`), `GiveStatus` of the flag it was lent, and `GiveRet`. A nonblocking call
(`PublishNbi`) passes no status: it touches no pool and leaves the status field of its slot
as it was. `TakeCommand` is the poll thread, `Answer` the transport. What a result word
holds is left out: by `OwnCompletion` (finding 1) the poll before the read proves nothing.

### Barriers and collectives

`IpcBarrier`: `Arrive`, `SeeArrival`, `ResetArrival`, `Announce`, `SeeRelease`,
`ClearRelease`, one per access to a pSync; PEs are ranks in the team.
`GdaBarrier` adds the thread form, the work-group form (wavefronts of PE 0 share
the members between two `__syncthreads`) and the counter form; a nonblocking put
is in `flying` until `Deliver`, and carries the value read at the post (it is
inline). Which form runs is chosen in the initial state, at every size.

`IpcCollectives`: a value is the *set* of contributions summed, so that a
block missing, taken twice or of another call shows. `PutWork`, `PutFlag`,
`SeeFlag`, `AddWork` are the direct algorithm; `RingPut`, `RingPutFlag`,
`RingSeeFlag`, `RingAdd` the two loops of the ring; `ThreadPut`, `ThreadAdd`,
`ThreadSee`, `ThreadReset` the alltoall of one lane per peer; `LinearPut` the
linear alltoall, fcollect and broadcast. `GdaCollectives` extends it: what is
posted waits in `qps` until `Execute`, which reads the source *then*; a source may be
reused by its owner once the call has returned, and `Read` gives nothing from then on.

### `SdmaQueue`

`LoadWptr`, `CheckCachedIndex`, `LoadReadIndex`, `StoreReadIndex`, `Reserve` (the CAS) of
`ReserveQueueSpace`; `PlacePacket` (padding and packet);
`Turn`, `RingDoorbell`, `Commit`, `StoreMaxWrite`, `MarkDirty` of
`submitPacket` and its caller; `ReadDirty`, `TakeDirty`, `LoadTarget`, `ReachTarget` of the
quiet; `Consume` is the engine, external. Units of the ring are packets'
granules: only where a packet ends relative to the ring's end matters.

### GDA queue pairs

Positions count from the creation of the queue pair; where the code or the NIC
has 16 or 24 bits, the reader takes the remainder modulo `W`. `Starts` lets a
run begin near the wrap. `GdaNic` holds the send queue, the doorbell and the
collapsed completion entry; `Execute` runs the WQE that *is in the slot*, so that
one overwritten too early is executed wrongly and seen by `OnceInOrder`. Each
vendor's module has its posting, polling and quiet, with its lock.

### `Bootstrap`, `Teams`

Connections with bounded buffers (`Buf`), listen backlogs, the root thread and
each rank's thread. A rank that times out while connecting or finds a peer's socket closed
ends its process (`Aborts`), the root thread with rank 0's. Exchanges are lists of
sends and receives per rank. `Teams` has the host's program: exchanges, splits
(membership, the exchange of bitmasks, the lowest common free slot), splits in two
dimensions, destructions.

## 3. Runs

| run | question | instance |
|---|---|---|
| `ro_ring` | overrun, slot ownership, order, the flag handed to the CPU, delivery of every reservation | 2 waves × 2 lanes, 2 and 1 calls, each blocking or not, 3 slots: the ring is gone round twice, waves ask for less, as much and more than is free, the index copy gets stale, slots are reused while lanes poll through them |
| `reverse_offload`, list of contexts | exclusion, `FifoLock`, no node or element lost or doubled | 4 callers on 3 channels, 2 passes each, 2 elements: channels are shared and reused, the list runs empty |
| `reverse_offload`, default context | queue implements `BufferPool`, nobody waits while a flag is free, no deadlock over the pools and the ring | 3 waves, 2 buffers, ring of 2, PUT/NBI/G, 3 calls in all: both pools run empty, queue and ring wrap |
| `reverse_offload`, transport | counts, quiet, notification, collectives, termination | 2 PEs, 3 threads on 2 contexts, programs of up to 3 commands, window 2: requests wait behind the window; all pairs of collectives with requests in flight |
| `barriers` | implements `RoundBarrier`, fresh flags, everyone leaves | 5 PEs, 3 rounds on one array, forms ipc (flags, counter), thread, work-group of 2 waves; the counter form of GDA one round |
| `sdma_ring` | overrun, whole packets, order, everything made and returned | 3 waves on 2 contexts, ring of 5, packets of 2: the packet at the end of each lap needs padding; two laps; three race for room |
| `gda_qp` | every WQE once and in order, quiet, fetch results, return | 2 waves, queue of 4, counters modulo 16 from 0 and from 13, all vendors; queue and counters wrap (bnxt is never filled, see section 5) |
| `collectives` | destinations exact, flags never lost, return | 3 PEs, 5 programs of IPC and 4 of GDA collectives, 2–3 calls each on one team |
| `host_teams` | all or none connect, exchanges exact, agreement on slots, 2d grids, everyone ends | 3 ranks, buffers of 1, with and without timeouts, 2 free slots, 5 programs, one of which splits without a common slot and goes on with exchanges of all and of some |
| `ro_status`, `sdma_quiet`, `bnxt_full`, `gda_barrier`, `ring_phases` | the code against its documents, section 5 | smallest instance that shows it |

`MCReverseOffload` puts three parts that share no state into one run: a behaviour draws one
and leaves the others in their initial states, in which each has nothing it must do
(no caller need begin, the transport has a program without calls). Each part's properties
and fairness are those of its module, so the run says of each what a run of its own would.

The bounds on calls (`MaxCalls`, `MaxLocks`, `MaxLength`, `MaxRounds`, `MaxAtomic`,
the programs) only stop clients from calling for ever. They are enough because the structures are
periodic in ring size, channel count, pool size or array, and every run goes round
more than once. Three PEs are the least for which a ring has a
neighbour that is not also the other neighbour; with five, members of a barrier that
are still leaving meet others that are already in the next.
In bounded models a final step (`Finished`) or stutter marks the end.

**What the less obvious properties say.** `NoOverrun`: free space is computed
from a copy of the read index that only ever lags; no lag makes a wave reserve a
slot the reader has not consumed. `EveryReservationInserted`: the wave that
waits for space holds the lock, and what it waits for belongs to lanes that
have left it. `OnePlace`, `ActsAsPool`: two locks and one counter never double or
lose a buffer; `PoolServes`: nor leave anyone asking while buffers are free. `CallersFlag`: however often a slot
is reused while a lane polls through it, the CPU was given the flag of the lane whose command it took. `NobodyStopped`: holding a word while waiting for a
flag, or a flag while waiting for a slot, cannot deadlock, since flags are borrowed last and returned
first: if no wave polls for ever (one may, finding 1), every call returns. `AllOrNone`, `EveryoneEnds`: a rank that
ends leaves nobody waiting in an earlier call, whether a timeout ended it or a split without a common slot.
`OutstandingCounts`, `QuietCompletes`: the count stays exact whatever set of
requests one pass finds complete. `ImplementsBarrier`: the arrays have no round
numbers, yet no PE takes a signal of one round for one of another.
`Exposed`: the engine never finds a gap or a leftover behind the doorbell.
`SeenBeforeReset`: a PE takes a flag down only after it has seen it, so none raised for the next
call is lost. `OneSlot`: PEs that agree by exchanging bitmasks never give two teams
the same work arrays, at any of their members.

**Fairness.** Weak fairness on a step stands for: the poll and progress threads
loop for the backend's lifetime; a resident wavefront, and a host thread, keeps
executing; MPI, the copy engine and the NIC complete what they can; time passes
(a timeout may or may not be configured). No wave is obliged to begin a call unless the
run's programs say so: then all PEs make their collectives, as the interface
requires. The CAS lock of the RO block handle gets no fairness: `RoQueue`
promises delivery of what is reserved, not that a wave ever reserves. The
queue pairs' spin locks are given strong fairness (a lock that is free again and
again is got in the end), since hardware arbitrates them; nothing in the code
queues the waiters, so a return from `gda_qp` is only as certain as that.

Every property of a passing run has a mutant (a faulty variant of a mapped definition) under
which TLC reports the property violated.

## 4. Proofs

Eight modules hold the theorems; each `EXTENDS` the module it is about. The
assumptions are the named `ASSUME`s of the modules, which TLC evaluates in every
run. Nothing bounds the constants but these: the theorems hold for any
waves, lanes, PEs, programs, ring and pool sizes.

`RoQueueProofs`. `TypeCorrect`; `LockExclusive` (between acquire and release there is
at most one wave of a handle, and the lock bit is set while there is one);
`NeverOverrun`, `FreshSlots`, `DeliveredInOrder`, for a ring with one handle
(`Handles = {h}`), which is necessary (section 6). None of the three is
inductive: `RingInv` adds where the CPU is (`CpuInv`), where each unpublished
lane's index lies (`LaneInv`: between `readIndex` and `hWriteIndex`, no two
alike) and what a valid slot holds (`SlotInv`: a command of the window that maps
to this slot and that no lane still owns). The window never exceeds the ring, so
two indices in it never share a slot (`WindowLemma`, Euclidean division).
`CallersFlagHandedOver` (`CallersFlag`), for any number of blocking waves: a lane is the only
one to hold its index (`WaveInv`), a valid slot holds the flag of the lane whose index it carries (`FilledInv`),
and what a lane that polls has published is in its slot until the CPU has taken it (`WaitInv`). That the lane then
sees its own flag does not follow, and is false (finding 1).

`ReverseOffloadProofs`, the free list. `LockTypes`, `LockIsExclusive`, `LockIsFair`. Tickets in
line are distinct (`TicketsUnique`), no channel holds a ticket past that of any
caller in line (`TurnsBehindLine`), and the owner's channel still holds its ticket
(`OwnersTurn`): only the earliest caller can find its own ticket, also
when others spin on the same channel. `LockIsQueue`: so the lock implements
`FifoLock`, less its fairness; a caller's place is the number of earlier ones, and the
places of N callers are 1 to N (`LineInv`). `ListConserves`: under that lock the free list
keeps its nodes and elements. A list is the least set that is closed under `next`; a node has
one predecessor at most and the two heads none (`Straight`), so that what follows the
head is the list without it (`ChainRest`) and a node hung on the tail adds just itself
(`ChainEnd`). A `push_back` never finds the unused list empty, as the code takes for
granted: with every node live, as many elements as there are would be in the list, and
the caller holds one more (`NodeToReuse`).

In the same module, the transport. `TransportTypes`, `CountsAreExact`. Stamps are unique and
below the next, so requests pushed are new and the cardinality adds up; requests
are finite and what a pass completes is a subset, so the count never goes below zero.
`NoCallReturnsEarly`, `QuietsComplete`: `CallInv` says per
PE: what has been issued and by whom; that `queue` holds each thread's commands in
the order of issue, newer than any taken from it (`Ordered`); that a request that
will notify is the only one of its command (`InFlight`); who waits in a quiet and
who is blocked on what. A quiet is answered when the count is zero, and the
count is exact: so nothing of the context is in flight, and by `Ordered` nothing
its thread issued before is still queued. `CollectivesMeet` (`EveryoneEntered`) holds for programs
in which one thread of a PE makes the collectives (`OneCaller`): MPI pairs the
collectives of PEs by order of posting, and with two callers in a PE that is not the
order of either's calls. `Entering`: a submitted call that synchronises
has the last collective of its PE in flight, or every PE has posted that one.

`IpcBarrierProofs`. `IsBarrier` (the specification implements `RoundBarrier`),
`FlagsAreFresh`, `BarrierTypes`. The invariant follows the releases PE 0 has given
each member: a member is *finishing* the round of its last release, or *ahead* of
it by one with its arrival pending on PE 0's array or already taken. PE 0's flags, or its
counter by cardinality, are exactly the pending arrivals (`FlagInv`, `CountInv`); PE 0
moves on to releasing when all have been taken, whence `EveryoneIn`,
which makes the step out of the barrier a `Leave` of the abstract one.
`AllFormsAreBarriers`, `AllFlagsAreFresh`: the same of `GdaBarrier`'s specification, in which
any of the forms may run, with any number of wavefronts and any stride (`FormInv`). In
the GDA forms a release may be on its way, and then nothing else is on its way to that
member (`GdaFinishing`, `FlyingInv`); an arrival may be lost and a release be
wrong or go to nobody, so the counter only bounds the pending arrivals from below
(`GdaCountInv`) and such a member waits on without ever being counted again. The
wavefronts' `Share`s are disjoint and cover the members (`Shares`), and no two
releases of a round go to one PE (`TargetsDiffer`). So what the counter form
(`gda_barrier`) and the work-group form with a stride of two or more (section 6) do
wrong can only keep PEs in the barrier: nobody leaves too early.

`SdmaQueueProofs`. `TypeCorrect`, `NeverOverrun`, `OnlyWholePackets`. `IInv`: the
indices form a chain (`Chain`); an index a wave has polled is at most the
engine's (`Polled`); reservations of different waves are disjoint (`Apart`) and
one that has not been handed on lies past the doorbell; the doorbell stands at
`committedWptr` or at the end of the one reservation in turn (`Turns`); what is
behind it is written (`Written`). That less than a ring is reserved makes every unit
of the window a slot of its own. `CopiesInOrder`, on top of `IInv`: units of the window past a packet
hold later calls of its wave (`Sorted`), what has been executed comes before
what is in the window (`Behind`), and what a wave has exposed is bounded by what
has returned, plus the call under way (`Issued`).

`GdaQueuePairProofs`. `Mlx5InOrder`, `Mlx5QuietMeansDone`, `Mlx5OwnResult`: the run's
properties when the provider is mlx5. `IInv`: one wavefront holds the lock; the
doorbell lies between what has been executed and what has been posted; fewer than
the queue's depth lie between what is reported and what is posted, so that
the 16-bit difference a poller computes is the true one (`AvailableExact`) and the
slots of unexecuted positions are not overwritten. `QInv` adds where a call's WQEs
are (`Placed`: at as many consecutive positions as it has lanes) and that those of a
wavefront whose quiet is over are reported (`Covered`). `Mlx5OwnResult` is
about every behaviour: result words are given out in a circle by `fetching_atomic_idx`, which
nothing in the code keeps from going once round while a fetch is under way; a fetch reads its
own results unless it has been `Lapped` so (`OwnUnlessLapped`). The run's four words never lap a
fetch of its two waves, so there `OwnResult` holds as it stands.

In the same module, for ionic: `IonicInOrder`, `IonicQuietMeansDone`, `IonicOwnResult`
(`OwnResult` itself: ionic's words come from a free list). Nobody holds a lock while it writes, and the
doorbell may be rung for positions whose WQEs are not yet stored. Wavefronts that
have not stored hold `Disjoint` ranges of positions; the color keeps the NIC from
executing the WQE of the lap before (`Slots`: the slot of a position in the window
holds its WQE or that of the lap before). `Bounded` says that what is reserved
beyond the queue is at most the lanes of the wavefronts waiting for that room: hence
the signs of the counters' differences are right (`WaitFinds`) under
`IonicAssumption`: depth plus `WF_SIZE` per resident wavefront is at most half the
counters' range. The code tests bit 23 of 24-bit differences in the quiet and bit
31 in `commit_sq`, so that leaves 8 million slots less the depth. Result buffers:
those in the free list and those held are `Apart`, only a fetch under way has WQEs
still to be executed that write words (`Writers`), and these write its own (`FetchKept`).

`DefaultCtxProofs`. `FlagsInOnePlace`, `FlagsArePool`, over all
steps of the queue, whichever flags the waves poll. `QueueInv`: each end has one owner at most (`Locks`); the ring holds
`Occupied` = `curr_size_`, less the dequeuer between its steps, plus the enqueuer
between its steps; occupied slots hold distinct buffers and `tail_` is right behind
them (`Sizes`, `Distinct`); a held buffer is not in the ring (`Apart`), and every
buffer is somewhere (`Everywhere`). That an enqueuer finds room is a pigeonhole
argument: the buffer it holds is not one of the `Occupied` distinct ones (`Room`).
`FlagsArePool` is
the safety part of the refinement of `BufferPool`: what the pool holds is the ring less
what the counter does not show yet; the one dequeuer is first in line (`LineInv`), so
reading the head is the abstract `Take`, counting a written element `Give`, queueing
for the lock `Ask`, and every other step is a stutter.

`TeamsProofs`. `ExchangesExact`, `SlotsAgree`, `RowsAndColumns`, `NobodyLeftBehind`, for
any number of ranks, any capacity of a socket and any set of programs that use the team
calls as OpenSHMEM lets them. `TeamPrograms` says what that is (`LegalPrograms`): a
program begins with the exchange of addresses that the library makes itself; groups have
no rank twice; the parent of a split is the world or a team not destroyed yet, the new
team lies inside it, and none of its members has as many teams as there are slots. `RowsAndColumns` asks
more: that the splits along axes are those of one `split_2d`
of the world (`GridPrograms`; it may follow any calls). `MCTeams` has an `ASSUME` by
which TLC checks that the run's programs are such (`HostProgramsAreLegal`).

The argument. A legal program has a layout `S` (the team each split makes, with the
least slot free at all its members) and hence a `Plan`: its exchanges, each with its group
and the bitmask every member puts in. A rank's place is its call and its step in the plan.
`Carries`: each connection holds, in order, the sends of the plan that its owner has made and
the peer has not received, with the block each is to carry. Sends and receives of a plan
on a connection correspond one to one and come in the same order (`SendIsPaired`, `PairsInOrder`), so
that what is at the head is what the receiver wants (`HeadIsWanted`), even if the sender is
calls ahead. `Holds`: the blocks a rank has are those of its steps so far. `Setup` says the same
of the start: where the root thread is, what has been accepted, that every rank's
`next` and `prev` are its neighbours; nobody starts an exchange of a later call before all
have their ring (`AllIn`). `Books`: a rank's teams and bitmask are those of the layout at its
call; so the bitmasks exchanged are the plan's, and all members take the plan's slot. For
rows and columns a PE's place is divided with remainder by the width (`GridPlaces`). Ends: a
rank is `Broken` off by a timeout while connecting, which cannot happen once somebody has left the
first exchange (`AllIn`); or its split finds no slot (`Slotless`), which may happen in any split of
a program and leaves the members of later exchanges without a peer. `Stranded` says who may end so: a rank
without a slot, or one in a call after that of such a rank. Whoever waits in an exchange for a rank
that has ended waits in a call after the one it ended in, since it had taken all steps of its earlier calls
(`StrandedThrough`), and so is past a split without a slot (`NotStrandedPeer`).

`CollectivesProofs`. `CallsExact` (`Exact`) and `FlagsSeenBeforeReset` (`SeenBeforeReset`)
for the IPC backend: teams of any size from two on, any sequence of its calls (`IpcProgram`),
any number of segments of a ring and of chunks of a reduce-scatter, under two conditions stated in
each theorem. `OnePhaseReductions`: a reduce fits one phase, direct or ring. A longer one begins with a ring whose reset may
take down a flag of the next phase; `ring_phases` shows one that never returns (finding 5),
so the condition cannot be dropped. `OneUseOfFlags`: a program does not use `alltoall_pSync` both by
lanes and as the flags of a barrier. There the code has nothing to keep the uses apart (section 6), but the barrier here is `RoundBarrier` with state of
its own, so the clash would not show: the condition keeps the theorems from saying more than the
model can tell. `MCCollectives` has TLC check that the run's IPC
sequences are such programs (`SequencesSafe`). `IpcCallsAlone`: with such programs the
module of both backends, which the run checks, does what `IpcCollectives` does.

The argument (`CollectivesInductive`, thirteen conjuncts). `Lockstep`: two PEs are in
the same part of the same call, or one is a part ahead, and the other then at the barrier
between the parts or, in the alltoall by lanes, past its add for it. So at any time what is
`Live` in a PE's arrays comes from PEs in one part. `LaneFlags`: a counter of the lanes holds the
parities of the calls its writer has added for and its owner not yet reset. Direct:
`DirectOrder` (a flag that has been noticed is of this part), `DirectArrays` (the flag is up and the block
is there from then on), `DirectSums` (whose blocks have been added). Ring: iterations are
counted through all segments; `RingOrder` says that a PE has not seen more flags than
the PE *d* places back has raised, plus *d* - 1. Round the whole ring that means that nobody
overwrites a slot of `pWrk` or a flag its successor has still to see; `RingArrays` says what is in
them, and `RingSums` that a cell holds the contributions of an arc of the ring (`Arc`)
that grows by one with each addition, or the total. What nobody has raised is down
(`FlagsDown`), so that a reset loses nothing. `PlainCells` and `PhasesDone` say that
what is complete stays so.

**Model-checked only**: liveness under fairness, everywhere (outside what the
proof system can show); the bnxt queue pair (whose full queue is finding
`bnxt_full`); `Exact` and `SeenBeforeReset` for the calls of the GDA backend.

## 5. Findings

Each has a run whose single property states the document's words, and TLC's
shortest trace shows the disagreement.

1. `ro_status` (`OwnCompletion`), `ro/context_ro_device.cpp:737`. A blocking call polls and clears
   its status byte through the slot of its command (`queue_element->status`, lines 737, 740), which the next
   command may have taken: the call then waits for, and takes down, another's flag. With two waves
   of one lane on two slots TLC shows a call that goes on before its own command is complete. Its own flag
   stays up and answers its next call at once; the call whose flag was taken down polls for ever.
   `ro/context_ro_device.cpp:733`: "Blocking requires the CPU to complete the operation."
   `ro/backend_ro.hpp:345`: "There is a separate status variable for each work-item in a RO Context".
2. `sdma_quiet` (`QuietDrains`), `sdma_policy.hpp:127`. The quiet clears the
   context's dirty bits *before* it drains the queues. A second wavefront of the
   context that calls quiet meanwhile finds no bit (`ipc_policy.hpp:465`) and returns
   with its own copies still in the ring. The comment at `sdma_policy.hpp:123`:
   "Wait for all SDMA completions across all PEs and channels." The fence of
   `putmem_signal` over SDMA relies on the same bits.
3. `bnxt_full` (`QuietMeansDone`), `gda/bnxt/queue_pair_bnxt.cpp:207`. Available
   slots are computed as `(tail - head)` modulo the depth, so a queue in which every
   WQE is outstanding looks empty, and nothing keeps posts from filling it: a
   quiet returns at once. `docs/api/memory_ordering.rst`: "This routine completes
   all previous operations posted to this context." The passing run keeps bnxt
   below that; mlx5 and ionic are filled in it.
4. `gda_barrier` (`EveryoneLeaves`), `gda/context_gda_device_coll.cpp:138`. The counter
   form (64 PEs and more) keeps the arrivals, the source of the releases and the last
   reset in one word. PE 0 stores zero there when its releases are complete, when
   a released member may already have added its arrival at the next barrier:
   it is lost, and PE 0 waits for ever. `docs/api/coll.rst:22`: "The caller is
   blocked until the barrier is resolved and all updates local and remote are
   completed." The passing run calls this form once.
5. `ring_phases` (`CallsReturn`), `ipc/context_ipc_tmpl_device.hpp:330`. A reduce whose elements do not fit whole
   segments of the ring is made in phases (`:365-391`) with nothing between them. At the end of a ring a PE
   stores `ROCSHMEM_SYNC_VALUE` in all its flags, when its predecessor may have raised the first flag of
   the next phase: the flag is lost and all wait for ever. `docs/api/coll.rst:264`: "This
   routine  performs an allreduce operation across PEs in the team."

## 6. Known divergences the runs keep clear of

Seen while modelling; each has no run of its own, and the passing runs' programs or
constants avoid it, as said.

| where | what | how the runs avoid it |
|---|---|---|
| `ro/context_ro_device.cpp:722` | `team_comm` is not stored for `RO_NET_BARRIER`; the transport uses what the slot held | `RoQueue` has it so (`StoresComm`), `ro_ring` makes no barriers |
| `ro/block_handle.hpp:74` | the default context's handle and that of context 0 have one ring and separate indices (with a TODO) | one handle |
| `ro/context_ro_tmpl_device.hpp:174` | a fetching call returns its word to the pool before it reads it | `DefaultCtx` ends the call with the return of the word |
| `ro/mpi_transport.cpp:288` | `MPI_Ibarrier` is posted before the PE's own requests are complete (`docs/api/coll.rst:22`) | `EveryoneEntered` is about entering |
| `ipc/context_ipc_tmpl_device.hpp:640`; `gda/context_gda_tmpl_device.hpp:1012` | an alltoall by lanes and an alltoall or fcollect by barrier, in either order (over GDA: any alltoall, then an fcollect) use one array in two ways with nothing between | not combined in a program (`OneUseOfFlags`) |
| `ipc/context_ipc_tmpl_device.hpp:177`, `:635` | flags are indexed by world rank | the world team |
| `ipc/context_ipc_tmpl_device.hpp:614` | more lanes than a wavefront with more than 64 PEs | 3 PEs |
| `gda/context_gda_device_coll.cpp:94` | wavefront `w` starts its releases at `PE_start + stride + w`, not at `PE_start + stride * (1 + w)`: with `Stride = 2` TLC finds members that never leave | stride 1 |
| `gda/context_gda_device_coll.cpp:366` | the put form of broadcast is not quieted before PE 0 releases the members, who may return before their data arrive (`docs/api/coll.rst:180`) | the get form of larger worlds |
| `gda/context_gda_tmpl_device.hpp:810` | the copying alltoallv (not the default) leaves its staging buffer to the next call | last call of its program |
| `gda/context_gda_tmpl_device.hpp` (alltoallv) | its control messages share `pWrk` with reductions | order of the calls |
| `rocshmem.cpp:749` | a member that already has all the teams it can have returns -1 from a split without joining the exchange; the other members wait for it for ever. One program at every host can get there, when one PE is in more teams than the others | no PE of `host_teams` exceeds its maximum (`LegalSplit`) |
| `gda/mlx5/queue_pair_mlx5.cpp:350` | result words go round unchecked while a fetch is under way | at most two waves fetch, four words; `Mlx5OwnResult` says what holds beyond |
| `rocshmem_gpu.cpp:445` | `rocshmem_wg_ctx_create` reports failure in thread 0 only | library interface is not modelled |
| `context_tmpl_device.hpp:241` | `wait_until_*` with a `status` array returns the first *excluded* index (`docs/api/pt2pt_sync.rst:35`, `:41`) | point-to-point sync is not modelled |

## 7. Not modelled, and why

- **Memory ordering**: fences, HDP flush, cache bypass. Steps are atomic and
  sequentially consistent. `notify` before `sfence`
  (`ro/mpi_transport.cpp:648`) lies outside what these models can tell.
- **A torn slot**: valid byte and body are copied by one `memcpy`
  (`ro/queue.cpp:77`); the copy is one step here. The unlocked `q.empty()` of
  the progress thread is a race inside `std::deque`.
- **RO teardown** (`worker_thread_exit` stops both threads at once) and RO alltoall
  and fcollect, which end when the caller's own puts are complete
  (`ro/mpi_transport.cpp:459-475`): the order is in `RoTransport`, the data are not.
- **Addresses, sizes, datatypes, strides of data**: a block is a model value;
  what is in the right place is decided by who wrote it, for whom and in which call.
- **Broadcast by gets over IPC** leaves the readiness of the source to the caller;
  **tile collectives** are copies without protocol state. Broadcast by puts over GDA: section 6.
- **GDA connection set-up, NIC topology, memory fabric, MPI instance, Memory and
  heap** (dlmalloc is vendored): read or set up once at start, or wrappers.
  **Host interface**: blocking MPI one-sided calls, one after another.
  **Wavefront coalescer**: a pure function of the lanes' arguments, off by default.
  **Statistics, tracing, environment**: no protocol.
- **Library interface**: thousands of lines of dispatch
  (`rocshmem_gpu.cpp`, the headers of `include/`) in which each routine calls one
  method of the context; only the team calls keep state. This, the allocator and the
  data types account for most of the source no definition maps to.
- **Point-to-point synchronization** (`wait_until`, `test`): loops over one word with no state.
- Widths: 64-bit indices start at zero and do not wrap in a program's life; the
  16- and 24-bit counters of the queue pairs are modelled with their wrap.

## 8. Plan

Done: the RO path from wavefront to MPI, the containers, the barriers and the
collectives of IPC and GDA, the SDMA rings, the queue pairs of three vendors,
bootstrap and teams; proofs of what the RO path, the mutex and the free list, the
barriers, the SDMA ring, the queue of the default context, the queue pairs of two vendors, the
collectives of IPC, bootstrap and teams promise. Next, in order:

1. A run for the member that is at its maximum of teams (section 6), and a barrier of the collectives
   on `alltoall_pSync` itself, so that the mix of its two uses shows.
2. `RoQueue` with a slot copied in two steps, and the teardown of the backend.
3. The broadcast forms and team-relative indexing of the collectives, as the code settles them.
4. Point-to-point synchronization and signals over IPC and SDMA.
