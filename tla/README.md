# TLA+ models of the DPDK primitives exposed by `dpdk_wrapper.h`

The repository's source is one header, `src/nix/pkgs/dpdk-wrapper/src/dpdk_wrapper.h`.
It declares about 600 `*_w` functions. Each one is a non-inlined copy of a DPDK
`static inline` function or macro, so that a foreign-function binding can reach it.
The header adds no logic: every `foo_w` forwards to `foo` with the same arguments and
returns its result unchanged (spec §1, §8). So the behaviour a caller of these
declarations gets is the behaviour of the DPDK primitive behind each one. That is what
these modules model.

Each definition is mapped in `PROJECT.json` to the declarations whose behaviour it
stands for. The header holds only declarations, so the algorithm of each primitive is
written from DPDK's implementation of it. For example, the ring comes from
`__rte_ring_do_enqueue_elem`, `__rte_ring_move_prod_head` and `__rte_ring_update_tail`
in `rte_ring_elem_pvt.h` and `rte_ring_c11_pvt.h`. The README names the DPDK function
beside each action.

## 1. Inventory

| Component | Declarations (lines) | State it keeps | Operations | Hard behaviour |
|---|---|---|---|---|
| Ring, default mode | 430-437, 510-562, 631-679 | prod/cons head and tail (u32), object table | enqueue/dequeue × {mp,sp,generic} × {bulk,burst,single} × {elem,ptr}; count, free_count, full, empty, size, capacity, sync type | lock-free MPMC, CAS retry, in-order tail publication, u32 wrap |
| Ring, HTS mode | 438-471 | head+tail packed in one 64-bit word | mp_hts/mc_hts bulk/burst | serialised head/tail move |
| Ring, RTS mode | 472-509 | head and tail each with an update counter; htd_max | mp_rts/mc_rts bulk/burst, get/set htd_max | relaxed tail, head-tail distance bound |
| Ring peek / zero-copy | 563-630 | as HTS/ST | *_start / *_finish | two-phase call protocol |
| Spinlock, recursive spinlock | 371-386 | locked flag; owner, count | init, lock, unlock, trylock, is_locked, *_tm | mutual exclusion, re-entry |
| Ticket lock, recursive | 1020-1028 | current, next (u16); owner, count | init, lock, unlock, trylock, is_locked | FIFO order |
| RW lock | 418-429 | reader count + writer bits | read/write lock, trylock, unlock | writer wait, starvation |
| MCS lock | 986-989 | tail pointer, per-thread node | lock, unlock, trylock, is_locked | successor hand-off |
| Phase-fair lock | 990-994 | rin/rout/win/wout counters | read/write lock/unlock | phase alternation |
| Seqcount / seqlock | 998-1007 | sequence number (+ lock) | read_begin, read_retry, write_begin/end, write_lock/unlock | reader retry on torn reads |
| RCU QSBR | 959-967 | token, per-thread counters, online mask | online, offline, lock, unlock, start, quiescent, check | grace periods |
| Mempool | 685-721 | backing ring, per-lcore caches | get/put (bulk, generic), cache flush, full, empty | cache overflow/underflow |
| Mbuf | 733-804, 816-817 | refcnt (u16), data_off, data_len, pkt_len, next, attached | alloc, free, free_seg, prefree_seg, refcnt update, attach/detach, chain, prepend/append/adj/trim, linearize | shared buffers, refcount races |
| Bitmap | 818-830 | two-level bit arrays, scan cursor | init, set, clear, get, scan, reset | scan order |
| Stack | 1008-1015 | objects, length | push, pop (n, all or nothing), count, free_count | capacity |
| FBK hash | 944-958 | buckets of (key, value) | add, delete, lookup, clear | full bucket |
| Meters | 883-903 | token buckets, last update time | colour-blind/aware checks (srTCM, trTCM, RFC 4115) | bucket refill edges |
| Atomics, bit ops, reciprocal, checksums, IPv6 masks, timespec | 305-350, 387-417, 730-732, 831-882, 995-997, 1029-1033 | none (pure) | arithmetic | fixed-width wrap, zero inputs |
| Not for a model checker | 229-301, 351-364, 680-684, 722-729, 805-815, 904-943, 968-985, 1016-1019 | none, or device/driver state | errno, enums, cycles, strings, memcpy, prefetch, ethdev bursts, hashes, MMIO | I/O |

The components share no state with each other through this header. They interact only
through DPDK's own layering: a mempool keeps its free objects in a ring, an mbuf is a
mempool object, and the `_tm` locks fall back to the plain lock. The hard behaviour is
inside each component: threads on different lcores call the same ring, lock or pool
concurrently, with nothing but atomic loads, stores and CAS between them.

Correctness of each component:

- **Ring.** No slot is written and read at once. Objects come out once each, in FIFO
  order, and never more than the capacity are held. This is refinement to a bounded
  FIFO. Every call returns.
- **Locks.** At most one owner, or readers without a writer. FIFO hand-off for the
  ticket and MCS locks, whose waiters each eventually get the lock; a spinlock only
  guarantees that some waiter does.
- **Seqlock.** A read that is not retried saw a consistent snapshot.
- **RCU.** After `check` returns true, every reader online at `start` has passed a
  quiescent state, so an object retired before `start` can be freed. This holds with
  one writer and fails with two (run `qsbr_writers`).
- **Mempool and mbuf.** Objects are conserved: each one is in exactly one place. A
  buffer goes back to its pool only when its last reference is dropped.

`PROJECT.json` lists all components and the hazards found, each at its line.

## 2. Plan

The modules are listed in order. The core comes first.

1. `RingQueue` (abstract), `Ring`, `MCRing`: the default-mode ring. **Done** (§3).
2. `RingHTS`, `RingRTS`: the other two sync modes. **Done** (§3).
3. `RingCount`: the `count`/`free_count`/`full`/`empty` queries as two-load
   observer steps. **Done** (§3). Not done: a run with two threads on the `sp_` path,
   which breaks the `sp_` contract and shows nothing about the code.
4. `RingPeek`: the `_start`/`_finish` protocol on ST and HTS rings. **Done** (§3).
5. `Lock` (abstract mutual exclusion), then `SpinLock` (with recursive), `TicketLock`
   and `McsLock`, each refining `Lock`, composed in `Locks`. **Done** (§3).
6. `RWLock`, `PFLock`, refining an abstract reader-writer lock. `SeqLock`, with a reader
   whose snapshot is checked against the writer's history. **Done** (§3).
7. `Qsbr`: the grace-period guarantee, with one writer and with two. **Done** (§3).
8. `Mempool`, composing `RingQueue` as its backing store with per-lcore caches. `Mbuf`,
   composed with `Mempool`.
9. Pure operators: `BitOps` with reciprocal division. **Done** (§3). Checksums and meter
   bucket arithmetic are not done.
   Each is checked against a reference definition over all inputs of a reduced width.
10. `Stack`, `FbkHash`, `Bitmap`.

## 3. What is modelled and checked

### `RingQueue` — the contract of the ring wrappers

This module is abstract. It has a queue `q` of objects, the count `sent[p]` of objects
each producer has enqueued, and the sequence `got[c]` each consumer has dequeued. An
object is `<<p, k>>`, the k-th object of producer p, so every object is distinct.
- `Enqueue(p, n)` appends n objects if they fit in `Capacity`.
- `Dequeue(c, n)` removes the n oldest objects and appends them to `got[c]`.

A call that moves nothing is a stutter.

### `RingArith` — index arithmetic shared by every sync mode

The constants `Size`, `Capacity` (from `Size/2` to `Size - 1`, as `rte_ring_create`
allows with and without `RING_F_EXACT_SZ`) and `IndexBits`. It defines:
- `Dist(a, b)`, the unsigned difference `b - a` at `IndexBits` bits;
- `SlotOf(i)`, which is `i & mask`;
- `FreeEntries` and `Entries`, the counts each head move computes;
- `CutN`, the FIXED/VARIABLE cut of n.

`Behaviours(n)` takes a call of one object as FIXED only, because a burst of one and a
bulk of one behave alike. This removes duplicate states and no behaviours.

### `Ring` — `__rte_ring_do_enqueue_elem` / `__rte_ring_do_dequeue_elem`

State:
- `prodHead`, `prodTail`, `consHead`, `consTail` are `r->prod.*` and `r->cons.*`.
  They are unsigned integers of `IndexBits` bits.
- `slots` is the object table. A slot is `index & mask`.
- Each thread has its call's locals: `pc`, `oldHead` (`*old_head`), `want` (n asked
  for), `behav` (FIXED for bulk and single-object calls, VARIABLE for bursts) and `cnt`
  (n settled on). A consumer also has `buf`, the objects it copied out.
- `sent` and `got` record what callers handed in and got back.

Each action is one shared-memory access of the code:

| Action | Code |
|---|---|
| `EnqueueCall` / `DequeueCall` | call entry; `*old_head = d->head` |
| `ProdLoadTail` / `ConsLoadTail` | loop body of `__rte_ring_move_{prod,cons}_head`: load the other tail, compute `free_entries = capacity + cons_tail - old_head` (or `entries = prod_tail - old_head`), cut n, return 0 if n = 0 |
| `ProdClaim` / `ConsClaim` | `d->head = new_head` for ST; CAS for MT, which on failure reloads `old_head` and loops |
| `ProdCopy` / `ConsCopy` | `__rte_ring_{enqueue,dequeue}_elems` |
| `ProdUpdateTail` / `ConsUpdateTail` | `__rte_ring_update_tail`: MT waits until `tail == old_head` (`rte_wait_until_equal_32`), then stores `new_head`, and the call returns |

Locals are reset when a call returns, because they are dead in the code. The
`free_space` and `available` out-parameters are not modelled. No property here reads
them.

Properties:
- `TypeOK`. It includes that a consumer only ever holds objects a producer enqueued,
  never a slot's stale contents.
- `NoSlotRace`. No two threads copy the same slot. No producer copies into a slot
  between `cons.tail` and `prod.tail`.
- `ReturnedVisible`. An enqueue call that has returned has made its objects
  dequeueable: each is between `cons.tail` and `prod.tail`, or a consumer has it.
- `RingQueueSpec`. This is `RingQueue!Spec` under the mapping
  `q <- slots from cons.head to prod.tail` and
  `got <- got \o (objects claimed but not yet returned)`.
- `CallsReturn`. Every call returns.

Fairness: weak fairness on each thread's steps inside a call, and none on starting a
call. DPDK's data-plane threads are pinned lcores that are not descheduled for good.
That is the only assumption under which a tail wait is released, and DPDK documents it.

### `RingHTS` — the `mp_hts` / `mc_hts` wrappers

In HTS mode each end is one 64-bit word `{head, tail}` (`union __rte_ring_hts_pos`).
The state is the same as in `Ring`, except that a thread's local `op` is
`opHead`/`opTail`.

| Action | Code |
|---|---|
| `Call` | call entry; `op.raw = load of d->ht.raw` |
| `HeadWait` | `__rte_ring_hts_head_wait`: while `op.head != op.tail`, pause and reload `op` |
| `LoadTail` | load the other end's tail, compute free entries or entries, cut n, return 0 if n = 0 |
| `Claim` | CAS of the whole word from `op` to `{op.head + n, op.tail}`; on failure `op` is the current word and the loop starts over at the head wait |
| `ProdCopy` / `ConsCopy` | copy objects in or out |
| `ProdUpdateTail` / `ConsUpdateTail` | `__rte_ring_hts_update_tail`: store `tail = old_tail + n` with no wait, and return |

Producers and consumers are one set `Threads`, and every action except the copies is
written once for both ends, through `EndHead(t)` and `EndTail(t)`.

Properties:
- `TypeOK`.
- `SerialEnds`. A thread between its CAS and its tail store is the only one of its end
  in flight, and the end's word is exactly `{its new head, its old head}`. This is the
  serialisation HTS exists for.
- `NoSlotRace`, `ReturnedVisible`, `RingQueueSpec`, `CallsReturn`, as in `Ring`.

### `RingRTS` — the `mp_rts` / `mc_rts` wrappers and `htd_max`

In RTS mode each end has a head and a tail. Each is a 64-bit word `{cnt, pos}`
(`union __rte_ring_rts_poscnt`), kept as records `head[e]` and `tail[e]` for the ends
`"prod"` and `"cons"`. `htd[e]` is `htd_max`. Each thread's locals are `oh` for the head
move, `ot` and `h` for the tail update, and the locals of `Ring`.

| Action | Code |
|---|---|
| `Call` | call entry; `oh = load of head` |
| `HeadWait` | `__rte_ring_rts_head_wait`: while `oh.pos - tail.pos > htd_max`, reload `oh` |
| `LoadTail` | load the other end's tail pos, compute free entries or entries, cut n, return 0 if n = 0 |
| `Claim` | CAS of the head from `oh` to `{oh.cnt + 1, oh.pos + n}`; on failure `oh` is reloaded and the loop restarts at the head wait |
| `ProdCopy` / `ConsCopy` | copy objects in or out |
| `LoadOldTail`, `LoadHead`, `TailCas` | `__rte_ring_rts_update_tail`: `ot = tail`; loop { `h = head`; `nt = {ot.cnt + 1, h.pos if ot.cnt + 1 = h.cnt else ot.pos}` } until the CAS of the tail from `ot` to `nt` succeeds |
| `SetHtdMax` | `rte_ring_set_{prod,cons}_htd_max`: a store, at any time |

`Init` starts `htd_max` at a value from `InitHtd`. `rte_ring_init` sets `capacity / 8`,
which is 0 for the small capacities checked here. With 0, no two calls of one end are
ever in flight, so the safety run starts from a ring whose `htd_max` the application
has set to 1.

Properties:
- `TailCounts`. At each end `head.cnt - tail.cnt` is the number of calls between their
  head CAS and their tail CAS. When there are none, `tail.pos = head.pos`.
- `NoSlotRace`, `CallsReturn`, as in `Ring`.
- `RingQueueSpec`. The mapping takes each call to happen at its head CAS:
  - `q` runs from `cons.head` to `prod.head`, a claimed slot counting as the object about
    to be copied into it;
  - `sent` counts the calls in flight.

  The `Ring` mapping (a call happens at its tail store) does not work here. A tail
  update can publish the objects of several calls at once.
- `ReturnedVisible` fails on this ring (run `ring_rts_visible`). It holds on the other
  two.

### `RingPeek` — the `_start` / `_finish` (peek and zero-copy) wrappers

A peek call is two calls. `_start` moves the head and returns n. For a dequeue it also
copies the objects out. `_finish(m)` then publishes `m` of them and gives the rest back.
For an enqueue it copies the objects in first. Peek works on an ST or an HTS end only
(`ProdSync`, `ConsSync`). State: `prodHead`, `prodTail`, `consHead`, `consTail`,
`slots`; per thread `opHead`/`opTail` (the loaded word), `cnt` (n the start returned),
`fin` (the n the finish publishes), `want`, `behav`, `buf`, `sent`, `got`.

| Action | Code |
|---|---|
| `Start` | entry of any `_start` wrapper, n in `1..MaxBurst`, FIXED or VARIABLE |
| `HeadWait` | HTS only: spin, reloading the word, until head = tail |
| `LoadTail` | free entries or entries against the other end's tail; n cut; 0 returns |
| `Claim` | HTS: CAS of the `{head, tail}` word; on failure, back to the head wait |
| `StoreHead` | ST: plain store of the head |
| `ConsCopy` | a dequeue start copies out; the start returns |
| `Finish(t, m)` | `get_tail`: `num = m` if `head - tail >= m`, else 0; an enqueue copies `num` objects in |
| `Publish` | `set_head_tail`: `head = tail = tail + num`, one store; the finish returns |

The zc variants differ only in who copies the objects, so they are the same actions.

Properties:
- `PeekExclusive`. While a start is open (after its head move, before its finish
  returns) it is the only open call at its end. The end's head is its new head and the
  end's tail its old head, which is what `get_tail` and `set_head_tail` rely on.
- `NoSlotRace`, as in `Ring`.
- `RingQueueSpec`. A call takes effect at its finish: `q` runs from `cons.tail` to
  `prod.tail`.
- `CallsReturnUnlessCancelling`. Every start and every finish returns in every
  behaviour where threads eventually stop finishing with 0. Plain `CallsReturn` does
  not hold on HTS. A thread that keeps starting and cancelling can hold its end open at
  every reload of another thread's head wait, because the head wait is not fair.

### `Lock`, `SpinLock`, `TicketLock`, `McsLock`, `Locks` — the lock wrappers

`Lock` is the contract: an owner or `Nil`, and a nesting `depth`. `Acquire(t)` is
allowed when the lock is free or already `t`'s. `Release(t)` only by the owner, and
the last one frees the lock. Each algorithm module keeps the words the code keeps,
one step per shared-memory access, with a per-thread `pc`. Each is shown to implement
`Lock` through a refinement mapping (`Abs == INSTANCE Lock WITH ...`, checked as
`LockSpec`):

- `SpinLock`: `locked`, `user`, `count`. The recursive calls check `user` and nest,
  or take the embedded spinlock: `Cas`, on failure `Spin` until `locked = 0` and retry;
  `TryCas` once. Unlock decrements `count` and at 0 clears `user` and stores
  `locked = 0`. The mapping is `holder = IF count > 0 THEN user ELSE Nil`,
  `depth = count`. The `_tm` calls are this path, taken when there is no hardware
  transactional memory.
- `TicketLock`: `current` and `next`, `TicketBits` wide (16 in the code), and the
  recursive `user` and `count`. `Take` is the `fetch_add` on `next`, `Wait` the
  wait for `current = me`. `TryLoad` loads the word and gives up unless
  `next = current`, and `TryCas` CASes the whole word. The unlock is `LoadCur`
  followed by `StoreCur` (`current = i + 1`, wrapping). The mapping is as for the
  spinlock.
- `McsLock`: the tail `tail` and a node `{qnext, qlocked}` per thread. `Lock`,
  `InitNext`, `Xchg`, `Link`, `Wait` are the lock's steps. `Unlock` loads
  `me->next`. `UnlockCas` CASes the tail back to NULL, and on failure `WaitNext`
  waits for the successor to link itself. `Handoff` stores `next->locked = 0`. The
  owner is the thread between its return from lock or trylock and the store that
  frees the lock. Two owners map to a value that is no state of `Lock`, so
  `LockSpec` fails.

`Locks` composes the three objects over the same threads. A thread calls into one
object only while it is in no call or critical section of another. The objects share
no word, so the composition checks them side by side, with each one's steps
interleaved with the others'.

Fairness. A thread inside a call keeps taking steps: weak fairness on `Step(t)`. The
code spins and never blocks, so the step stays enabled, or is enabled again as soon
as the awaited store happens. A thread between calls may stay there. A critical
section ends, but a recursive owner may nest and unnest any number of times. So the
owner's *last* unlock (`Leave`) gets strong fairness: it is enabled only at depth 1,
and without it an owner cycling between depth 1 and 2 would starve every waiter.
With these assumptions the spinlock guarantees only that *some* waiter gets through.
Its CAS race has no order, so `SpinProgress` is stated for the lock, not per thread.
The ticket and MCS locks serve waiters in arrival order, and `StarvationFree` is
stated per thread.

Properties:
- `TicketQueue` (invariant): the tickets held by threads are exactly `current ..
  next - 1` modulo `2^TicketBits`, one per thread. It breaks if a trylock CAS hands
  out a ticket already held, or an unlock serves the wrong ticket.
- `LockSpecs`: the three refinements.
- `SpinProgress`, `StarvationFree`, as above.

Runs `locks` and `locks_live` use two threads and nesting depth 2. `locks` uses 2-bit
ticket halves, which wrap every fourth ticket. `locks_live` uses 1-bit halves, which
wrap every second ticket. Two threads never hold more than two tickets, so 1-bit
halves keep the tickets distinct. The product of the three objects is what limits the
bounds: three threads do not finish in reasonable time. Two threads still reach every
race in the calls:
- a CAS lost to the other thread;
- a trylock whose CAS sees a taken ticket;
- the MCS unlock against a successor that has exchanged the tail but not yet linked.

### `RWContract`, `RWLock`, `PFLock`, `SeqLock`, `RWLocks` — the reader-writer wrappers

`RWContract` is the contract of `rte_rwlock_t` and `rte_pflock_t`: a set of
`readers` and a `writer` or `Nil`. `AcquireRead` needs no writer, `AcquireWrite`
needs no writer and no reader, and each release is by a holder. The algorithm modules
keep the code's words, one step per atomic access, with a per-thread `pc`:

- `RWLock`: the word `cnt`, with `READ` (4) per reader, `WRITE` (2) and `WAIT` (1).
  - `read_lock`: `RSpin` waits for `cnt & MASK = 0`, then `RAdd` does the `fetch_add`.
    If a writer raced in, `RBack` subtracts `READ` again and the loop starts over.
  - `read_trylock`: `RTryLoad` returns busy if a writer is inside or waiting, then
    `RTryAdd` and on a race `RTryBack`.
  - `write_lock`: `WLoad` reads the word. `WCas` CASes it from the loaded value to
    `WRITE`; on failure the word is kept in `x`. `WOr` sets `WAIT` unless it is set
    already. `WSpin` waits for `cnt <= WAIT`.
  - `write_trylock`: `WTryLoad` and `WTryCas` (to `x + WRITE`).
  - The unlocks are the `fetch_sub`s `RUnlock` and `WUnlock`.
  The CAS is `compare_exchange_weak`. It is taken as strong: a spurious failure is
  the same as a failure against an unchanged word, and the loop starts over. The
  `_tm` calls run this path when there is no hardware transactional memory.
- `PFLock`: `rd.in`, `rd.out`, `wr.in`, `wr.out`.
  - Readers add `RINC` to `rd.in` (`ReadLock`). If the writer bits were set, they
    wait until those bits change (`RWait`). `ReadUnlock` adds to `rd.out`.
  - A writer takes a ticket on `wr.in` (`WriteLock`) and waits for `wr.out`
    (`WWait`). `WAdd` announces itself in `rd.in` with `PRES` and the parity of its
    ticket, and `WDrain` waits for `rd.out` to reach the `rd.in` it read.
  - `WriteUnlock` clears the writer bits; `WOut` advances `wr.out`.
  - `RINC` is 4, not `0x100`: the bits between are never set. The reader count is
    `RdBits` wide, the tickets `WrBits` wide, and both wrap.
- `SeqLock`: `sn` (`SnBits` wide), the writers' spinlock `lock`, and two data words
  `da`, `db`.
  - The reader is the documented loop `read_begin`; loads; `read_retry`.
  - The writer is `write_lock` (the spinlock in one step, as its `Lock` contract
    says; then `sn + 1`), two stores, and `write_unlock` (`sn + 1`, unlock).
  - The `rte_seqcount_*` functions are the parts `WBegin`, `WEnd`, `ReadBegin` and
    `ReadRetry`.

The refinement mapping of both lock modules is `readers = the threads in "rcs"`,
`writer = the thread in "wcs"`. Two writers map to a value that is no state of the
contract, so `RWSpec` fails. `RWLocks` composes the three objects over the same
threads, as `Locks` does.

Fairness. A thread inside a call or critical section keeps taking steps: weak
fairness on each module's `Step(t)`. The code spins, so a waiting step is enabled
again as soon as the awaited store happens. No lock here is recursive, so weak
fairness is enough.

Properties (run `rwlocks`):
- `LockWords` (invariant):
  - `cnt / READ` is the number of readers inside or between their `fetch_add` and
    their back-out.
  - The `WRITE` bit is set exactly while a writer is inside.
  - `rd.in - rd.out` (modulo the width, writer bits aside) counts the readers past
    their `fetch_add`.
  - The writer bits are those of the one announced writer.
- `SnapshotConsistent` (invariant): a read that `read_retry` accepts has `da = db`,
  both from the same write.
- `RWSpecs`: the two refinements.
- `RWProgress`: while some thread waits in the rwlock, eventually some thread holds
  it. It is not per thread: writers race on the CAS, and `WAIT` turns new readers away.
- `PhaseFair`: every waiting reader and every waiting writer of the phase-fair lock
  eventually gets in.

Bounds. The run uses two threads, which reach every race in the calls:
- a reader's `fetch_add` against a writer's CAS, and the back-outs;
- a writer's CAS failing against a reader;
- a reader waiting through a write phase;
- a seqlock reader overlapping a write at each of its steps.

`RdBits` 2 and `WrBits` 2 make both pflock words wrap. `SnBits` 3 from `InitSn` 6
wraps `sn`. With `MaxWrites` 2, `2 * MaxWrites < 2^SnBits`, so `sn` never laps a
reader: that would need 2^31 writes during one read in the code (a hazard listed
with no property). Three threads make the composition's liveness check too slow: the phase-fair
lock alone takes minutes with three.

### `Qsbr` — the `rte_rcu_qsbr_*` wrappers (lines 959-967)

A QSBR variable has a `token` (starting at 1), an `acked_token` (`acked`, starting
at 0) and one counter `cnt[r]` per registered reader, 0 while the reader is offline.
The model registers every reader, so `check_all` and `check_selective` scan the same
set. A writer follows the documented pattern. It replaces the shared pointer `ptr`
(`Retire`), calls `start` and queues the old object with the returned token in
`pend[w]`. Later it calls `check` on the oldest queued token and frees that object
when `check` returns 1. Objects are numbered, `freed` is the set given back, and
`hold[r]` is the object a reader dereferenced.

| Action | Code |
|---|---|
| `Online`, `OnlineStore` | `thread_online`: `t = load(token)`, then `store(cnt, t)`; two steps |
| `Offline` | `thread_offline`: `store(cnt, 0)` |
| `Lock`, `Unlock` | `lock`/`unlock` (counters only in debug builds) around the caller's dereference of `ptr` |
| `Quiescent`, `QuiescentStore` | `quiescent`: `t = load(token)`, then `store(cnt, t)` if it differs |
| `Retire`, `Start` | the caller swaps `ptr`; `start`: `add_fetch(token, 1)`, the object queued with it |
| `Check` | `check(t, wait)`: `t <= acked_token` returns 1 at once, else the scan starts at reader 1 |
| `ScanBusy` | a reader with `c != 0 && c < t` and `wait` false: `check` returns 0 |
| `Scan` | a reader offline or at `t`: keep the least `c != 0`, go to the next reader. With `wait`, a reader behind `t` is reloaded until it is not, which is no step |
| `AckStore` | store the least counter into `acked_token` unless every reader was offline |
| `Free` | `check` returned 1: free the oldest queued object |

The writer can `start` several grace periods before checking the first one. Then a
later `check` finds its token already under `acked_token` and takes the fast path.
`MaxObjs` bounds the objects: 4 objects give 3 grace periods. Tokens never exceed
`MaxObjs`, and counters are uint64 in the code and never wrap, so the model has no
wrap.

Fairness. Calls in progress finish, read-side sections end, and a writer with queued
objects keeps calling `check`: weak fairness on each thread's steps (`RStep`,
`WStep`). The library requires every online reader to report quiescent states
periodically. A reader may lock between reports, so `Quiescent` is only
intermittently enabled and gets strong fairness. Offline and online are up to the
application, so they get no fairness.

Properties:
- `NoUseAfterFree`: no reader holds a freed object.
- `GraceEnds`: an object a writer has queued is eventually freed.

`qsbr_writers` gives the library's "start and check are multi-thread safe" two writers,
and `NoUseAfterFree` fails in 16 states:
1. Reader r1 calls `thread_online` and loads token 1.
2. Writer w1 retires object 1. Its `start` returns 2.
3. w1's `check(2)` scans r1, which is still offline.
4. r1 stores counter 1 and dereferences object 2.
5. Writer w2 retires object 2. Its `start` returns 3.
6. Reader r2 comes online with counter 3.
7. w1's scan sees r2 at 3 and stores `acked_token = 3`.
8. w2's `check(3)` takes the fast path. Object 2 is freed while r1, with counter 1,
   holds it.

Each check is right about its own token. The shared `acked_token` is not: it records
the least counter a scan saw, and a reader that came online behind the scan is not
counted. With one writer this cannot happen, because each later token is only checked
after the earlier `acked_token` store. The `qsbr` run shows this even when starts are
batched.

### `RingCount` — `rte_ring_count`, `free_count`, `full`, `empty` (lines 653-656)

Each query loads `prod.tail` and then `cons.tail`, two separate loads. `count` is
`(prod_tail - cons_tail) & mask`, clamped to the capacity. `free_count` is
`capacity - count`, `full` is `free_count == 0`, and `empty` is
`cons_tail == prod_tail` from the same two loads. `RingCount` extends `RingHTS` with an
observer thread. `QueryLoadProd` loads `prod.tail` and records the objects then in the
ring (`qSeen`). `QueryReturn` loads `cons.tail` and returns. The three counting queries
compute from one count, so one query stands for all four. `prod.tail` is the same word
in every sync mode, so the HTS ring (the cheapest to check) hosts it. The observer gets
no fairness, and the ring threads keep theirs.

`CountBounds` (an action property) holds when a query returns:
- `count` is at least the number of objects present at both loads, and at most the
  capacity;
- `free_count` is at most the capacity minus those objects;
- `empty` is true only if no object stayed.

Nothing tighter holds. When dequeues move `cons.tail` past the loaded `prod.tail`,
`(prod_tail - cons_tail) & mask` is garbage. TLC reaches a count above 0 on an empty
ring, and a count that only the clamp keeps at the capacity. Without the clamp,
`free_count` wraps to a huge unsigned value (the mutant).

### `BitOps` — bit operations and reciprocal division (387-417, 730-732, 995)

These functions keep no state. Each behaviour is one call, recorded in `last` as the
function, the width, the argument and the returned value. `n` stands for 32 or 64 bits,
and `W32 = 6` and `W64 = 8` are checked over every word. Operators follow DPDK's code:
- `Combinems1b` is the `x |= x >> 1; ... x |= x >> n/2` cascade.
- `Alignpow2` is `x--`, combine, `x + 1` in uintN_t.
- `Alignprevpow2` is `x - (x >> 1)` of the combined value.
- `Fls` is `x ? n - clz(x) : 0`.
- `BsfSafe` tests `v == 0` before `ctz`.
- `Log2` is `v ? bsf(align(v)) : 0`.
- `ReciprocalValue` and `ReciprocalDivide` follow `rte_reciprocal.c/.h`, with the
  64-bit intermediate product and `R.m` stored in uint32_t.
- The relaxed bit operations are a load and a store of `*addr`. They are not atomic,
  and their documentation says so.
- The constant byte swaps use 2-bit bytes.

`__builtin_clz/ctz` of 0 is undefined in C, so `Clz` and `Ctz` return a set of outcomes
there (`0..n`, which includes the `n` that lzcnt/tzcnt give). Callers of `clz`, `ctz` and
`bsf` pass `v != 0`, as their contract requires.

Properties, each checked against a reference written from the documentation:
- `PowerOfTwoOps`. Combine sets every bit below the top one. Align gives the least power
  of two ≥ x, or 0 for x = 0 and for x above the top power, where `x + 1` wraps.
  Prevpow2 gives the greatest power ≤ x. `is_power_of_2` is true exactly for powers of
  two.
- `BitScanExact`. `bsf_safe` and `fls` never pass on the undefined builtin result.
- `ReciprocalExact`. `divide(a, value(d)) = a / d` for all 6-bit `a` and all `d != 0`.
- `Log2Exact`. The rounded-up log2 for every v up to the top power of two. Above it,
  `rte_align32pow2` wraps to 0 and `rte_log2_u32` returns `bsf(0)`, which is undefined.
  The documentation promises the rounded-up log2 for every v, so for v > 2^31 the code
  and its documentation disagree. That range is listed as a hazard, not checked here.

### Runs

| Run | Config | Bounds | Shows |
|---|---|---|---|
| `ring_mpmc_live` | `MCRingLive.cfg` | 2 MP producers, 2 MC consumers, Size 4, Capacity 2, 3-bit indices from 6, 2 objects per producer, n ≤ 2, no symmetry | `TypeOK`, `NoSlotRace`, `ReturnedVisible`, `RingQueueSpec` with CAS contention at both ends, out-of-order copy completion, full and empty rings, FIXED and VARIABLE calls and an index wrap, and `CallsReturn` (≈364k states, about 140 s) |
| `ring_index_aba` | `MCRingABA.cfg` | 2-bit indices, Size 4, Capacity 3, n ≤ 2, 4 objects per producer, single-consumer end | **violation** of `NoSlotRace`, explained below |
| `ring_hts` | `MCRingHTS.cfg` | 2 HTS producers racing on one end, 1 HTS consumer (the other end runs the same actions), Size 4, Capacity 2, 3-bit indices from 6, 2 objects per producer, n ≤ 2, plus the `RingCount` observer, no symmetry | `TypeOK`, `SerialEnds`, `NoSlotRace`, `ReturnedVisible`, `RingQueueSpec`, `CallsReturn`, `CountBounds` (≈112k states, about 30 s) |
| `ring_rts` | `MCRingRTS.cfg` | 2 RTS producers, 1 RTS consumer, Size 4, Capacity 2, 3-bit pos from 6 and cnt from 7, `htd_max` starting at 1 and set to 0 while calls run, 2 objects per producer, n ≤ 2, no symmetry | `TypeOK`, `TailCounts`, `NoSlotRace`, `RingQueueSpec` with two producer calls in flight and out-of-order finishes, and `CallsReturn` (≈217k states, about 110 s) |
| `ring_rts_visible` | `MCRingRTSVisible.cfg` | as `ring_rts`, 1 consumer, 1 object per producer | **violation** of `ReturnedVisible`: p1 returns while p2, which claimed after it, is still copying |
| `ring_peek_live` | `MCRingPeekLive.cfg` | 2 HTS producers racing through contended head waits, 1 ST consumer (the HTS consumer end runs the same actions), 2 objects per producer, any finish m ≤ n, no symmetry | `TypeOK`, `PeekExclusive`, `NoSlotRace`, `RingQueueSpec` on the ST path, and `CallsReturnUnlessCancelling` |
| `locks` | `MCLocks.cfg` | 2 threads, 3 lock objects, depth 2, 2-bit ticket halves | `TypeOK`, `TicketQueue`, `LockSpecs` |
| `locks_live` | `MCLocksLive.cfg` | 2 threads, depth 2, 1-bit ticket halves, no symmetry | `SpinProgress`, `StarvationFree` |
| `rwlocks` | `MCRWLocks.cfg` | 2 threads, rwlock + pflock (2-bit reader count, 2-bit tickets) + seqlock (3-bit sn from 6, 2 writes), no symmetry | `TypeOK`, `LockWords`, `SnapshotConsistent`, `RWSpecs`, `RWProgress`, `PhaseFair` (≈174k states, about 100 s) |
| `qsbr` | `MCQsbr.cfg` | 2 readers, 1 writer, 4 objects (3 retired, so tokens 1..4), no symmetry | `TypeOK`, `NoUseAfterFree`, `GraceEnds` with batched starts, the `acked_token` fast path, blocking and polling checks (≈49k states, about 30 s) |
| `qsbr_writers` | `MCQsbrWriters.cfg` | 2 readers, 2 writers, 3 objects | **violation** of `NoUseAfterFree`, explained under `Qsbr` |
| `bitops` | `MCBitOps.cfg` | every 6-bit and 8-bit word, every bit number, 4/8/16-bit words for the byte swaps, every 6-bit dividend and divisor | `PowerOfTwoOps`, `BitScanExact`, `ReciprocalExact`, `Log2Exact` (≈86k states, a few seconds) |

Why the bounds are enough. Both ends of `ring_mpmc_live` are MT, with two threads each. The ST branch of `Ring` is the `ProdST \/` (`ConsST \/`) disjunct of the CAS condition in the claim and of the tail wait. It is a plain store with no wait, and no run uses it; `ring_peek_live` runs an ST end of the peek API. Every branch of the head move happens: CAS success and
failure, n cut to 0, n cut to the free count. Producers finish copying out of claim order,
so the tail wait is exercised. Consumers race for the same objects. The ring fills and
empties. The indices pass from `2^IndexBits - 1` to 0. In the passing runs fewer than
`2^IndexBits` objects pass through the ring. So no head laps the whole index period
while another thread holds an old copy of it, just as 2^32 enqueues cannot happen
inside one stalled call in practice.

`ring_index_aba` removes that bound, with 2-bit indices over 4 slots of capacity 3
and calls of up to 2 objects. TLC's trace:
1. p2 enters an enqueue of 2 and loads `prod.head` = 0 as `old_head`.
2. p1 enqueues 2 objects (indices 0 and 1).
3. p2 loads `cons.tail` = 0 and computes 3 free entries from its stale `old_head`.
4. p1 claims 2 more (indices 2 and 3), and its CAS wraps `prod.head` to 0.
5. The consumer dequeues index 0.
6. p2's CAS on `prod.head` compares 0 with 0 and succeeds (ABA). It claims indices 4
   and 5, which are slots 0 and 1. Slot 1 still holds p1's unconsumed second object,
   and p2's copy overwrites it.

The stalled call itself overwrites, because it claims more slots than the one spare slot. With 32-bit indices this needs 2^32 enqueues during one stall.
The HTS mode does not close this window. Its CAS compares the whole `{head, tail}` word,
but the word is loaded after the head wait, when head = tail. After a full lap the word
has the same value again. RTS does not close it either. Its head word adds a counter of
head moves, but with one-object calls the counter and the index wrap together. Both
follow from the CAS step of `RingHTS` and `RingRTS`, which compares nothing else; only
the default mode is given a run. The violation needs a thread stalled for 2^32
operations of the others, so it is reported as a gap in the stated guarantee, not
as a practical bug.

Each property of a passing run has a mutant in `PROJECT.json` that TLC must catch:
- operands of `entries` swapped;
- tail published without waiting;
- free entries counted against the size, not the capacity;
- failed CAS retried without reloading the head;
- free entries computed from `cons.head`;
- HTS: head wait passed without head = tail;
- HTS: head wait spinning on a stale copy of the word;
- HTS: a failed CAS retried without the head wait;
- RTS: the tail cnt caught up with the head cnt instead of incremented;
- RTS: the tail pos moved to the head pos by every finisher;
- RTS: the head wait spinning on a stale `oh`;
- peek: the head wait passed without head = tail;
- peek: the head wait spinning on a stale word;
- peek: the finish publishing what the start claimed instead of `num`;
- peek: a start counting against the other end's head instead of its tail;
- ticket lock: current stored without the 16-bit wrap;
- ticket lock: the trylock CAS comparing only the current half;
- recursive spinlock: every unlock releasing, whatever the count;
- recursive spinlock: the owner cleared without storing `locked = 0`;
- MCS lock: a failed unlock CAS returning without handing over;
- rwlock: the read trylock not backing out its `READ` after a raced writer;
- rwlock: the writer testing only the `WRITE` bit, not the readers;
- pflock: `rd.out` counted without the 16-bit wrap;
- pflock: the writer announcing itself without its phase bit;
- seqlock: `read_retry` not rejecting an odd begin sequence;
- QSBR: `start` returning the token before the increment (fetch_add);
- QSBR: the scan passing a reader only when strictly past `t`;
- QSBR: `acked_token` stored even when every reader was offline;
- ring queries: `rte_ring_count` without the clamp to the capacity;
- bit ops: `rte_align32pow2` without the `x--`;
- bit ops: `rte_bsf32_safe` without the zero test;
- bit ops: `rte_reciprocal_value` without the `++m` round-up;
- bit ops: `rte_log2_u32` without the zero test.

`ring_rts_visible` is a real difference between the sync modes. An RTS enqueue returns
as soon as its own tail CAS succeeds. If a call that claimed after it is still copying,
`tail.pos` stays where it was. So a consumer that is told "I enqueued x" can find the
ring empty until the other call ends. On the default ring the tail wait, and on HTS
the head wait, rule this out. `ReturnedVisible` holds in `ring_mpmc_live` and `ring_hts`.

## 4. Not modelled, and why

See the `components` list in `PROJECT.json`. The following are out of scope:
- device and driver I/O (ethdev bursts, MMIO, flow metadata);
- CPU hints and byte copies (prefetch, memcpy, pause);
- hardware counters and clocks;
- string helpers;
- pure hash functions, which have no state and no property beyond equality with
  DPDK's own tables;
- `rte_errno_get` and the offload enums, which are constant re-exports.

Not modelled yet (the mempool, meter and FBK hash hazards are listed in `PROJECT.json`):
- the mempool with per-lcore caches;
- the mbuf reference counts and chains;
- the stack, the bitmap and the FBK hash;
- the meters;
- the checksums and IPv6 helpers;
- the timecounter.

Each would be a module of its own, with its own configuration. The atomics are each one
atomic step, already used as the CAS, fetch_add and store steps of the ring, lock and
QSBR models. `rte_reciprocal_divide_u64` is not modelled. Its multiplier comes from
`rte_reciprocal_value_u64`, a 128-by-64-bit division with its own rounding, which this
project does not model.
