# Verification of cachelog

TLA+ specifications of cachelog: a concurrent key-value map with a write log and
a bounded clean cache (`src/`), and the deterministic core state machine its
maintainers keep beside it (`cachelog-core/`). TLC checks the specifications on
small instances; TLAPS proves the safety results about the core, both dirty logs, the
map, its scans and the application around it for every instance, and that the map,
in the harness of its conformance tests, agrees with the core after every call but two
kinds, which the tests avoid.
Paths below are those of the repository.

## 1. The system

| Part | State | Operations |
|---|---|---|
| Core, `cachelog-core/src/model.rs` | visible references, dirty and clean records, the history of writes, the queue, the durable store, flushed ids, the two id counters, the crash and bad-read flags | `writer_write`, `flusher_flush_next`, `flusher_drop`, `cache_insert`, `cache_drop_record`, `cache_cleanup_visible`, `reader_step`, `crash`, all by `apply_step`; `check_invariants` |
| Map, `src/map.rs` | the visible index (an `scc::HashMap`), the FIFO of clean entries, `clean_count`, `next_cache`, and a dirty log | `insert_dirty` (= `upsert_dirty`), `insert_clean_if_absent`, `evict_clean`, `cleanup_stale_visible`, `flush_batch`, `mark_flushed`, reads, prefix scans, lengths |
| Dirty log, `src/dirty_mode.rs` | shipped build: `next_id`, a kanal channel, `pending_len`, the batch in flight under a mutex. `loom` build: the id, the queue and the batch under one mutex | `append`, `flush_batch`, `mark_flushed`, `len` |
| Batch, `src/entry.rs` | a sequence of records | `len`, `last_id` |
| Bounded queue, `src/sync.rs` | a FIFO of at least one place | `push`, `pop` |
| Application | the durable store of the live map | persists a batch, then marks it; on a miss reads the store, then inserts clean |
| Comparison form, `cachelog-core/src/model.rs` and `model-cachelog/src/lib.rs` | none: computed from a state | `ComparableState::from`, `apply_flushed` |
| Conformance harness, tests of `src/map.rs` | a live map, a core, the ids of the batch in flight | `insert_dirty`, `insert_clean_from_durable`, `evict_clean`, `flush_batch`, `mark_flushed`, each ending in `assert_matches_model` |
| Trace driver and CLI, `model-cachelog/` | a state file | `apply-step`, `check-state`, `replay-trace` |

How they interact. `CacheLogMap` owns one dirty log. `insert_dirty` appends to it
and then publishes the record in the index; `mark_flushed` retires the batch in
the log and then removes the entries of its records from the index. Clean
entries are put in the index, counted, and pushed on the FIFO, which makes room
by removing the oldest entry from the index. There is no lock across these
steps: the index locks one bucket for one operation, the log's mutex guards the
batch in flight only, and the counters are relaxed atomics. The core is what the
map is meant to do when its operations run one at a time; conformance tests
compare the two.

What is hard here.
- Append and publication, retirement and removal, insertion and counting are
  separate steps, and other threads' calls fall between them.
- Ids are given in one order and records sent in another.
- References outlive what they refer to: FIFO slots, batches held across
  another flusher's mark, references read by `cleanup_stale_visible`, clean
  references of the core whose record has been dropped.
- A batch is recognised by its length and last id only.
- Two loops (a drain, the making of room) have to end against other threads.
- A crash loses the cache at any step, and a new process counts its ids from 0
  over a store that earlier ones have written.
- The core is what tests, tools and proofs are about; the map is what runs. That
  they agree is tested on seven sequences of calls.

What makes each part correct.
- Core: reads return the last write until a crash; the durable store is the
  flushed prefix of the writes and never goes back; the cache is invisible.
- Dirty log: nothing is lost, repeated, or retired by a mark of another batch;
  each writer's order is kept; everything appended is eventually retired.
- Map: dirty wins; no stale reference removes a newer entry; a queued write is
  readable; the clean cache is bounded and its counter means something; calls
  return.

## 2. The modules

| Module | Models | Kind |
|---|---|---|
| `WriteBehind` | nothing: what a write-behind store promises | abstract |
| `CacheLogCore` | `model.rs`, one action per step, `check_invariants` | detailed |
| `CacheLogCoreReads` | what an application reads through the core; properties, the inductive invariant, the refinement | properties |
| `CacheLogCoreProofs` | proofs about the two above and `CacheLogComparable` | TLAPS |
| `OrderedLog` | nothing: a FIFO log with batches | abstract |
| `FlushBatches` | `FlushBatch`, the comparison in `mark_flushed` | operators |
| `DirtyLog` | the shipped dirty log, several steps per call | detailed |
| `DirtyLogMutex` | the `loom` build, a step per call | detailed |
| `CacheLogMap` | the map's calls, interleaved; includes `OrderedLog` as `Dirty` | detailed |
| `CacheLogSystem` | the map in the README's loop: a store, a flusher that persists and marks, fills from the store, reads | composed |
| `CacheLogScan` | the map with a prefix scan running over its index | composed |
| `CacheLogConformance` | the conformance harness: the map and the core side by side, and their comparison | composed |
| `CacheLogComparable` | `ComparableState`, the two replays of the log | operators |
| `CacheLogStateFile` | the command line's `check-state` and `apply-step`: the core from any state that is accepted | specification |
| `ProofLemmas` | nothing: facts on sequences, counts and wrapping sums | TLAPS |
| `DirtyLogMutexProofs`, `DirtyLogProofs` | proofs about the two dirty logs | TLAPS |
| `CacheLogMapProofs` | proofs about the map, for any callers, and when each key has one writer | TLAPS |
| `CacheLogScanProofs` | proofs about prefix scans | TLAPS |
| `CacheLogSystemProofs` | proofs about the map in its application, over restarts | TLAPS |
| `CacheLogConformanceProofs` | proofs about the harness: the map and the core agree | TLAPS |
| `MC*` | instances for TLC | |

`CacheLogCore`. The variables are the fields of `ModelState`, under their names.
Each action is a whole method: they run on `&mut self`, so nothing comes between
its parts. A method that returns without a change (crashed, bound reached,
nothing queued, ...) is a stuttering step. `MaxWrite` and `MaxCache` are
`max_write` and `max_cache` of `ModelConfig`, which the code itself has. The
`BadReference` guard, the ten invariants and the replay of `apply_flushed` (in
closed form) are written from the code.

`CacheLogCoreReads` adds what the core is for: `ReadThrough(k)` follows the
visible reference, and reads the durable store where there is none or where it
leads to no record. `ImplementsWriteBehind` maps the core to `WriteBehind`:
`current` is what reads return, `backlog` the records of `dirty_q`. Everything but
a write, a flush and a crash has to be a stuttering step there.

`DirtyLog`. A call is one step for each operation on shared state: `append` is
`TakeId` (fetch_add), `Send`, `CountSent` (fetch_add); `flush_batch` is `FlushAgain`
(a batch is in flight), or `FlushStart` (takes the mutex), `FlushPop` and
`FlushUncount` for each record, `FlushDone`; `len` is `LenInflight` and `LenLoad`.
`mark_flushed` is one step, it runs under the mutex and reads nothing else. Each
flusher marks the batch the last `flush_batch` gave it, at any later time and as
often as it likes. `pending_len` is a machine word (`% CountModulus`).
`retired` is history. The channel is external (kanal): `send` and `try_recv` are
the atomic ends of an unbounded FIFO.

`CacheLogMap`. `op[t]` is the call thread `t` is in: its program counter and the
locals it still needs. Operations on the index are atomic for a key, since scc
runs them under the bucket's lock; what the code does after the entry is
released (counting, pushing) is a later step. The dirty log is `OrderedLog`, which
both of its builds are shown to implement; the id is taken in a step before the
record is appended, as in the shipped build. In the loom build the two are one,
which only removes behaviours. `publish_dirty_record` decrements the counter while
it holds the entry and is one step. Ids stand for values. `leaked` is history.
Which thread makes which calls (`WriteKeys`, `Calls`) is a parameter, so that a run
can state under which discipline a property holds.

`CacheLogSystem` extends `CacheLogMap` with what the application does between its
calls: `TakeBatch` (flush_batch), `Persist` one record of the batch at a time,
`Mark` (mark_flushed) when all are persisted; persisting may fail before any record,
`TakeBatch` then returns the same batch, and it is persisted from its first record
(`retrying`); `Fetch` a value from the store and
`Fill` (insert_clean_if_absent) with it; `ReadMiss` and, in a later step,
`ReadStore`. The map's own steps interleave with all of them. The store is
external, atomic for one key. The number of a write stands for its value, so that a stale
value is told from a fresh one. A crash leaves the store and nothing else, so
that a property of `store` in every state is a property of every crash. `Restart`
is a new process on that store: an empty map whose ids begin at 0, while
`before` counts the writes of the earlier runs, so that `Written(id)` tells the
writes of different runs apart, and `found` is what the run started from.

`CacheLogScan` extends `CacheLogMap` with one scan. `iter_sync` of scc is external:
it passes each key's place once, at any moment, visits what is there under the
bucket's lock, and may visit an entry again after a resize. The three public
scans differ in what they hand to the reader only. `began` is history.

`CacheLogConformance` has an instance of `CacheLogMap` with one thread, the harness,
next to the variables of the core. A call of the harness is the map's steps, one
after another; the `ModelStep`s the harness then applies to the core wait in `todo`.
When both are at rest (`Quiet`) the harness asserts (`AssertsPass`); it makes its next
call if that passes (`Ready`), and otherwise the test is over (`Panicked`, a stuttering
step). Calls come in any order and with any arguments, and two of them, which the seven
tests never make, end the test:
- `insert_clean_from_durable` of a key that has an entry. The harness asserts only that the
  value is durable. `insert_clean_if_absent` takes a cache id before it looks at the entry
  (`src/map.rs:282`), `cache_insert` of the core does not (`cachelog-core/src/model.rs:400`),
  and `assert_eq!` of the two `next_cache` fails (`src/map.rs:746`).
- `mark_flushed` with nothing in flight, while writes are pending. It calls `flush_batch` of
  the map to get its batch, which is then a new one and not `self.inflight`
  (`src/map.rs:589`). `MarkNothing` stands for this and for the mark of an empty batch, which
  passes.

`misuse` is history: which of the two the last call was, if any. Deadlock is checked: a
step in `todo` the core cannot take would be one. `RoomAssumption` has the clean capacity
no smaller than the number of clean ids, as the harness has (64 of each): the FIFO then
never evicts, which the core has no step for. `MaxWrite` and `MaxCache` are the core's
`max_write` and `max_cache`; the map has no such bound, and what a write or a fill beyond them
does (the core ignores it, so an assertion fails) is not modelled. `WidthAssumption` has the
counter of clean entries wide enough for the fills there are; `ValueIsWriteId` gives each
write a value of its own, which loses nothing: both sides only copy values.
`ConfInv` says how far map and core may be apart in each phase of a call; the proofs rest
on it (section 5).

`CacheLogComparable` is about the forms a core state is compared in. `Comparable` keys
its maps by the id a record carries and leaves out what is absent. `Replayed` is the
replay of `apply_flushed`, step by step; `apply_flushed_at` the search from the end in
`cachelog-core/src/proofs.rs`.

`CacheLogStateFile` has the actions of the core and another initial condition: any
state of the right shape that `check_invariants` accepts, as `check-state` and
`apply-step` take it from a file and as the contracts of the methods assume.

## 3. The runs

Passing runs:

| Run | What it asks | States |
|---|---|---|
| `core` | the ten code invariants, coherent reads, write order of the log, the durable store only moves forward, `IInv`, refinement of `WriteBehind`; the comparison form loses nothing, and the two replays agree | 99,662 |
| `dirty_log` | accounting of ids and of the counter, program order, `len` at rest, stale marks, `IInv`, refinement of `OrderedLog`; every append is eventually retired | 124,612 |
| `dirty_log_mutex` | the loom build: stale marks, `IInv` (order of ids with it), refinement of `OrderedLog` | 2,493 |
| `map` | two threads, every call between them: counter accounting, the bound of the clean cache, `IInv` (FIFO tracking with it), what may remove an entry, and the return of insertions | 528,000 |
| `system` | one writer per key, one flushing and filling thread, a process that stops and starts again: completed writes stay readable, reads do not go back, the store follows the log; `SysInv` | 688,000 |
| `scan` | one writer per key: a queued, published write is readable; prefix scans while the index changes: limit, no queued write missed, nothing stale; `OneWriterInv` and `ScanInv` | 2 million |
| `conformance` | any calls of the harness, in any order until an assertion fails: map and core agree after each call but a fill of a key that has an entry and a mark that finds a new batch, and then differ in one thing; a flush returns the head of the core's queue, a mark finds it there; `ConfInv` | 105,000 (keys symmetric) |

`IInv` (of each module), `OneWriterInv`, `ScanInv`, `SysInv` and `ConfInv` are the inductive invariants of
section 5; each `IInv` has the module's type invariant as its first part.
Runs that end in a counterexample are the findings of section 6.

Bounds. `core`: two keys, two values, four writes (two per key, so that an old
write of a key can be flushed, cached and overwritten while another key
interferes), two cache ids (a copy that dangles while a newer one is made).
`dirty_log`: two writers of three records (two from one of them, for program
order), two flushers (stale and repeated marks), limits 0, 1 and 2 (the empty
batch, batches of equal length, batches that differ in length). `map`: two threads that both write one key and
fill, while one of them cleans up and flushes and the other evicts; two keys, a FIFO
of one place, two writes and three clean insertions: one to fill the place and two
that then make room at once, while entries are removed or replaced under a thread
that holds a reference to them. The second term of the bound in `CleanCacheBounded`
(a thread between a pop and a removal) takes a third key to be reached; with three
keys and no writers the same instance passes as well (33,000 states), with both it
is too large to be run each time.
`system` has two writers with a key each, three writes, batches of one and of up to
three records, and two fills, so that a fill meets an older copy, a write in progress and
an eviction. Three records are what it takes for a batch that is persisted again to
leave a store that is no prefix of the log: two of one key and, after them, one of the
other. Its three writes are those of all runs together, and a run that has
taken an id may end at any step, so that there are up to four runs.
`scan` has two writers with a key each, two flushers,
a third key without the prefix, two writes (a newer write of a key whose older one
is in flight, or one of each key), one fill, and limits 0 (returns at once), 1
(reached) and 3 (more than there is to find). `conformance` has three keys, four
writes (three queued behind one in flight, or a key written again while flushed and
cached), three fills, and limits 0 (the empty batch), 1 and 2, so that a batch is smaller
than the queue.
`contract` has the smallest state in which the contract fails: two keys, one value,
one write id and one cache id; the state files are enumerated.
`CountModulus` is 8: larger than any count in the instance, so that a wrap is
always visible as a wrong value and never as a right one. In `system` the two writers may
be exchanged together with their keys (`Exchange`), which halves the states: the two have
the same calls, and no property tells them apart. In `conformance` the three keys may be
exchanged (`MCSymmetry`): every key has the same calls. Neither run has a liveness property.
Otherwise keys, values and threads are not declared symmetric.

Deadlock is checked in the runs `dirty_log`, `dirty_log_mutex`, `map`, `system`,
`scan` and `conformance`; flushers can always call. It is not in `core`, where a
crash ends the run, nor where a run has no flusher and stops at its bounds.

Fairness. `DirtyLog!FairSpec`: a call that began goes on (weak fairness of its
steps; threads are not starved), and each flusher keeps asking for at least one
record and marking its batch, as the README's loop does. `FlushStart` has strong
fairness because the mutex and the batch in flight may be taken in turn by the other
flusher again and again; parking_lot's mutex is eventually fair.
`CacheLogMap!FairSpec`: a thread in a call goes on, nothing else. That
`insert_clean_if_absent` returns relies on the bound on the number of calls as
well: a thread can be overtaken only by another insertion, each of which takes
one place, so with unboundedly many overtaking insertions no call is guaranteed
to return. That is lock-freedom, as the code has it.

## 4. Properties

Each is stated above its definition. The ones that carry most:
`ReadThroughCoherent` (core: what a read returns against the history of writes),
`ImplementsWriteBehind`, `DurableNeverRegresses`; `EachIdOnce`, `ProgramOrder`,
`PendingLenAccounts`, `MarkRetiresWhatWasHeld`, `ImplementsOrderedLog`,
`EventuallyRetired` (log); `DirtyEntryStays`, `CleanEntryStays`,
`ReadableUntilRetired`, `CleanCountAccounts`, `CleanEntriesTracked`,
`CleanCacheBounded`, `EnqueueReturns` (map); `CompletedWritesReadable`, `StoreFollowsLog`,
`ReadsNeverGoBack` (application); `AssertMatchesModel` (map against core);
`ComparisonIsExact`, `ReplaysAgree` (the forms states are compared in).

`MarkRetiresWhatWasHeld` deserves a word: `mark_flushed` compares lengths and last
ids, and that is enough only because ids are unique and a record is in one batch
only. Comparing lengths alone is refuted by the run.

`ReadableUntilRetired` speaks of the newest *published* write of a key: while the next
one is appended and on its way, the one before has to stay readable. It needs one
writer per key, and no `cleanup_stale_visible`;
without the first it is false (finding `queued_hidden`), and the second removes
whatever entry it read, dirty or not.

### What the application has to do

The map persists nothing; whether reads are coherent depends on its caller. Under
the discipline of run `system` (each key has one writer; one thread flushes,
persists in the order of the batch, marks, and also does the fills; nobody calls
`cleanup_stale_visible`) completed writes stay readable until
the process stops, and what is durable then is readable in the next one
(`CompletedWritesReadable`), what is readable does not go back
(`ReadsNeverGoBack`), and a crash leaves for each key what a prefix of the log writes,
with all that was marked (`StoreFollowsLog`).

It is the same prefix for all keys only while no batch is being persisted a second
time. `flush_batch` gives a batch that was not marked again, whole: when persisting failed
after its last record or in the middle, the retry writes the older records first. With the
batch `a=0, a=1, b=2` persisted once and then up to its first record again, the store has
`a=0` and `b=2`, which no prefix of the log leaves. (`StoreFollowsLog` without the
condition on `retrying` is refuted by run `system`, and not before batches of three.) An
application that needs its store to be a point in the log after a crash has to persist a
batch atomically, or go on where it stopped. Reads do not notice: until the batch is
marked, its writes are visible in the map or superseded there.

Each part of the discipline is needed; changing `MCCacheLogSystem` accordingly shows it:
- a second flusher gets the batch in flight again, and may persist it after the
  first has marked it and persisted a newer write: `StoreFollowsLog` fails;
- a thread that fills but does not flush may insert a value it read from the store
  before a newer write came, was flushed and marked: `ReadsNeverGoBack` fails;
- two writers of one key: `CompletedWritesReadable` fails (finding `queued_hidden`).

And even so, a read that missed and goes to the store later may return a write
that is persisted but not yet published by `insert_dirty`, after which the next
read still finds the entry of the write before. Such two-step reads are never
older than what was complete when they began, which `CompletedWritesReadable`
includes; that they are monotonic is not claimed.

Every checked property has a mutant: an operator marked "(mutant)" next to the one
it replaces, a plausible error in that line of the code, under which the property
fails in the same run.

## 5. What is proved

All of it for every value of the constants. Assumptions, each named in its module:
bounds are natural numbers, limits are sets of them, `Capacity` and `CountModulus` are
at least 1, `NoValue` is not a value, `WriteKeys` gives each thread a set of keys, and
there are finitely many threads, which the counts of threads in
`PendingLenAccounts` and `CleanCountAccounts` need in order to mean anything.
`CacheLogConformance` has two more: `Capacity` is at least `MaxCache` and `CountModulus`
more than that (section 2).
`OneWriterInvariance` and `Readable` of the map, the theorems on scans but `WithinLimit`,
and `CacheLogSystemProofs` assume more, in the theorem:
`OneWriterPerKey` (no key is written by two threads) and `NoCleanup` (nobody calls
`cleanup_stale_visible`); the last also `OneLoop` (one thread flushes and fills). All are
about the callers; the instances of runs `scan` and `system` satisfy them (`MCCacheLogScan` and
`MCCacheLogSystem` assert it), and without them the statements are
false (section 4, finding `queued_hidden`).

### The core: `CacheLogCoreProofs`

- `TypeCorrect`: `Spec => []TypeOK`.
- `Invariance`: `Spec => []IInv`.
- `ReportCorrect`, `ReadsCoherent`, `LogCorrect`: the invariants of run `core`.
- `DurableForward`: the durable store never goes back.
- `Refinement`: `Spec => ImplementsWriteBehind`.
- `Exact`: `Spec => []ComparisonIsExact`, the comparison form loses nothing.
- `ReplaysEqual`: `Spec => []ReplaysAgree`, the two replays of the log agree.

The argument. The ten conditions of the code are not inductive: they allow a
clean copy that differs from the durable value, a queued write whose key shows
nothing, or a durable value that is not the last flushed one. `IInv` replaces them
by what makes them true. The log is exactly 0, 1, 2, ... split between flushed and
queued (`LogIsWriteOrder`), so "flushed" is "below `Len(flushed)`". The history has
every write (`HistoryComplete`) and the cache holds all that are not flushed
(`StoreAgreesWithHistory`). A dirty reference is its key's last write
(`VisibleDirtyIsLast`), a key with a queued write has one (`QueuedIsVisible`), the
durable value is the last flushed write (`DurableIsLastFlushed`) and a clean
reference leads to the durable value or dangles (`CleanIsDurable`). The step that
needs them together is the flush: it changes the durable value under possible clean
copies, and the key it writes has a queued write, hence a dirty reference and
no clean copy. Each action preserves `IInv` by a lemma of its own, and the
refinement has a lemma per action, resting on `ReadValue` (a read returns the
write its dirty reference names, or the durable value). The comparison form is keyed
by the ids that records carry: it is exact because each record is at the place of its
id (`HistoryComplete` for the writes, `CachePlaces` for the clean copies), so that no
two records share a key of the map.

`ReplaysEqual` is about recursive functions of the length of the log, and needs
induction. The induction theorems of the library take the hypothesis as an operator,
which the provers here cannot instantiate; `SetInduction` takes it as a set of numbers
instead, and is proved by the least number outside the set, which the well-foundedness of
`<` provides. With it: the recursive functions exist (`ReplayExists`, `SearchExists`), so
that their equations may be used; the replay from the start leaves at a key the last
record of the log that writes it (`ReplayApplies`), so does the search from the end
(`SearchApplies`), and there is one such record at most (`AppliedUnique`). That the durable
store is this replay of the flushed ids is then the code's own
`durable_matches_flushed`, whose closed form `AppliedTo` is (`ReportCorrect`).

### The dirty logs: `DirtyLogMutexProofs`, `DirtyLogProofs`

- Both: `TypeCorrect`, `Invariance` (`IInv`), `StaleMarks` (`MarkRetiresWhatWasHeld`) and
  `Refinement` (`ImplementsOrderedLog`).
- Loom build: `WriteOrder` (`LogInWriteOrder`).
- Shipped build: `IdsOnce` (`EachIdOnce`), `WriterOrder` (`ProgramOrder`),
  `CountAccounts` (`PendingLenAccounts`), `QuietLen` (`QuietLenExact`).

The argument. `mark_flushed` compares a length and a last id. That this recognises the
batch is not a property of one state's queue: the batch a caller holds may be gone
since long. `HeldBatchKnown` says what is left of the possibilities: a held batch is the
one in flight, or its last record is retired. As no id is twice in the log, a held
batch of the second kind ends in another id than the one in flight, and the mark
fails. In the loom build uniqueness comes from `LogInWriteOrder`; in the shipped build
from `EachIdOnce`, which is inductive only with what is known of the ids on their way to
the channel (`UnsentAhead`: all different, none in the log, each past what its writer
has sent), which also gives `ProgramOrder`. `LockHeld` says who drains: while a flusher
has records popped and not yet installed, it has the mutex and no batch is in flight, so
that the log is retired, in-flight, drained and pending records in this order and each
step moves a record over one boundary (`MoveHead` and `SplitAt` of `ProofLemmas`) or adds
one at the end. The refinement maps the pending records of `OrderedLog` to the drained
ones followed by the channel: a drain takes effect when its batch is installed. The
counter's proof counts threads between two steps (`Cardinality` lemmas of `ProofLemmas`)
and never subtracts: `(a - b) % m` is handled by `Wrap` lemmas.

### The map: `CacheLogMapProofs`

For any threads, whatever they call: `TypeCorrect`, `Invariance` (`IInv`),
`CountAccounts` (`CleanCountAccounts`), `EntriesTracked` (`CleanEntriesTracked`),
`CacheBounded` (`CleanCacheBounded`), `DirtyStays` (`DirtyEntryStays`), `CleanStays`
(`CleanEntryStays`).

The argument has two halves. The clean cache: `CleanCountAccounts` and
`CleanEntriesTracked` are inductive with the types, but the history variable `leaked`
has to stay in its type, for which `CleanIdsSpent` counts what became of every clean id
taken: a call still looking for a vacant entry, a visible entry, or a leaked one. It
also says that finitely many entries are clean, although keys may be infinitely many.
`CleanCacheBounded` follows and needs no induction of its own: each clean entry has a
slot of the FIFO or a thread that pushes or drops it (`CleanEntriesTracked`), no two
entries have the same one, and the FIFO has at most `Capacity` slots. The dirty
entries: `DirtyEntryStays` says that an entry goes only when its record is retired, while
`mark_flushed` removes the entries of a batch long after retiring it; `HeldBatchKnown`
carries "retired" along with what is left to unpublish, and rests on `WriteIdsOnce` for
the same reason as in the logs. `IndexSteps` lists every step that can change an entry;
the two action properties are a case each.

### One writer per key: the rest of `CacheLogMapProofs`

`OneWriterInvariance` (`OneWriterInv`) and `Readable` (`ReadableUntilRetired`). The write a
thread appends or publishes is the newest of its key, since no other thread writes the
key and ids grow (`KeysInOrder`). A queued, published write is shown by its key's
entry, or a newer queued and published one is (`QueuedShown`; this form, rather than
`ReadableUntilRetired` itself, is inductive without asking for the largest of a
set), and a dirty entry is never older than any published write of its key
(`VisibleNewest`). The step that needs the order is `mark_flushed`: what it unpublishes is
retired, and what is newer in the log is not, so it never takes the shown one of a key
that still has a write queued (`EntryStays`).

### Scans: `CacheLogScanProofs`

`WithinLimit` (`ScanWithinLimit`) with any calls beside the scan; `ScanInvariance`
(`ScanInv`), `FindsQueuedWrites` and `ReportsFresh` under `OneWriterPerKey` and `NoCleanup`.
The map under a scan is the map alone (`ScanIsRead`), so the theorems above hold of it.
A write complete when the scan began stays in the log, published (`BeganPublished`, by
`LogGrows`), so that at the place of its key the scan sees it, a newer one, or, once it is
retired, anything (`AtPlace`); what is passed and not reported was not queued any more, and
never is again (`PassedReported`).

### The application: `CacheLogSystemProofs`

Under `OneWriterPerKey`, `NoCleanup` and `OneLoop`: `AppInvariance` (`IInv`, `OneWriterInv` and
`SysInv` together), `WritesReadable` (`CompletedWritesReadable`), `FollowsLog`
(`StoreFollowsLog`), `NeverGoBack` (`ReadsNeverGoBack`).

The argument. The map does not know of the store, so its invariants are kept by every
step but a restart, which sets all variables of the map at once: `Started` is how a run
begins, the first one and every later one, and implies the three invariants
(`StartedInv`); a restart leads there because the store then holds nothing that the earlier
runs did not write (`RestartStarts`). Within a run, `SysInv` says where the store is.
`StoreInPlace`: what is left to persist is the end of the batch in flight, and each key's
value is that of the last write up to there (`LastOf`), or, on a retry, of some place
between there and the end of the batch; so persisting the next record moves the place by
one (`PersistInPlace`), taking a batch again moves it back to the start of the batch
(`TakeInPlace`), and a mark finds the whole batch in place (`OneAtATime` says that the one thread of the
loop marks when nothing is left to persist). `CopiesFresh`: a value on its way
into the clean cache is the store's, since only the thread that fills can persist, and
a visible clean entry is no older than any completed write and no newer than the store. The
retry is the hard case there: it does write an older value over a newer one, but only while
the key shows a dirty entry, and so no clean one: a record persisted while its key shows
none is the newest of its key and not published yet (`PersistNewer`). Whoever misses the map then finds every
completed write retired (`CompletedRetired`) and so in the store (`StoreCurrent`);
`MissedRetired` keeps that for a read that has missed and not yet looked. `NeverGoBack` is
a case for each way an entry can change (`EntrySteps`).

The largest id of a set is a `CHOOSE` in the model; that it exists is proved from the
well-foundedness of `<` on `Nat` (`Greatest`), which needs no induction over data.

### The map against the core: `CacheLogConformanceProofs`

`ConfInvariance` (`ConfInv`), `Matches` (`AssertMatchesModel`), `MarkFollows`
(`MarkFollowsQueue`), `FlushReturns` (`FlushReturnsQueue`), `CoreFollows` (`ConfSpec => Spec`,
the core's): for any keys, limits and bounds. The calls of the harness come in any order and
with any arguments, until an assertion fails; `Matches` says that one fails after two calls
only (section 2), and what then differs: after the fill the map's `next_cache` is one more
than the core's, after the mark the batch in flight is not the empty one the harness
remembers, and everything else is the same.

The argument. The comparison holds at rest only; within a call the live map is ahead, and
then the core catches up, a `ModelStep` at a time. `ConfInv` says by how much. Most of it
does not depend on where the call is: the live log has the ids 0, 1, 2, ... and the core
wrote the same records (`SameHistory`); the harness holds the batch in flight
(`BatchHeld`); the clean records are the visible clean entries, but for the one being
forgotten (`SameClean`); the live counter is off by the call in progress (`CleanAccounts`). The
rest is one of four phases. `Marking(n)`: n steps of a mark are left, so the core has
flushed `n \div 2` records fewer than the live map retired, and dropped
`(n + 1) \div 2` fewer, while the live index lacks the entries of what is unpublished so
far; `Marking(0)` is rest. `Writing(k)`, `Filling(k)`: the live map has taken an id the core
has not, and shows the entry or not yet. `Forgetting(id)`: an evicted or replaced clean
copy is dropped and its reference cleaned up. Each call and each step of the live map or
the core moves from one phase to the next, by a lemma of its own; a write over a clean
copy goes on as `Forgetting`, and every phase ends at rest (`BackToRest`). All of this is
`InStep`, which a mark that finds a new batch keeps as well, since only the harness's memory
of the batch is then wrong (`BatchHeld`). A fill of a key that has an entry leads out of it, to
`Behind`: its one phase is `Refused(k)`, in which the map has taken an id that the core never
will, and no call follows, since the assertions fail at its end (`ReadyInStep`: a call is made
only `InStep`, and with no batch the harness does not know).

The core moves by its own `Next` or stutters (`CoreMoves`, theorem `CoreFollows`), so `IInv` of the core and
`CacheAtPlace` hold throughout, and the proofs lean on them: that the mark's next id is at
the head of the queue is `LogIsWriteOrder` with the count of `Marking` (`MarkHead`), and that
the records agree is `HistoryComplete` with `SameHistory`. The least obvious part is the
queue: a batch in flight has left the live channel and is still queued in the core, so
`QueuesAgree` compares in-flight and pending together. The live map never makes room in its
FIFO (`FifoHasRoom`, from `RoomAssumption`: each slot has spent a clean id), so that `LiveTypeOK`
has none of the calls that would.

### Only model-checked

- Liveness (`EventuallyRetired`, `EnqueueReturns`): temporal proofs under fairness are out
  of the prover's reach.
- The statements of the runs that end in a counterexample, which are false.

## 6. Findings

| Run | The code | Says otherwise |
|---|---|---|
| `clean_count_drift` | `cleanup_stale_visible` removes clean entries and leaves them counted | `tests/loom_support.rs:105-108` |
| `orphan_dirty` | a write published after its record was retired stays dirty for ever | `tests/loom_support.rs:167-171` |
| `dirty_log_order` | concurrent appends are drained in the order they were sent, not in that of their ids | `README.md:43` |
| `queued_hidden` | two writers of one key: the newer write can be hidden while it is queued | `README.md:5`, `README.md:48-50` |
| `contract` | `writer_write` leaves a state outside the ten invariants from one within them: `inv` does not say that `next_write` is unused | `README.md:62-63`, `cachelog-core/src/model.rs:326-329`, `cachelog-core/src/proofs.rs:316-328` |

The second and the third do not show in the loom tests as they stand: the loom
build takes the id and queues the record in one step, and no test flushes between
an append and its publication.

`contract` is about the contracts, and about state files, not about a run of the
core from its initial state: `IInv` is what the contracts would have to assume, and
section 5 proves it inductive. The loss of a record that a dirty reference names
is one of several ways; `cache_insert` has the same gap with `next_cache`.

Seen while modelling, without a run of its own: the first write id is 0
(`src/dirty_mode.rs:172`), so that `assert!(write_id != 0)` of `examples/basic.rs:7`
fails. And the two calls of the conformance harness that its own assertions reject
(section 2): the fill shows a real difference between map and core, a clean id spent on
nothing, of which nothing but the next ids depends; the mark one of the harness's memory only.

## 7. What is not modelled

- Several scans at once (they change nothing another one sees).
- What an application does on a restart to recover writes that were queued: the map
  keeps nothing, and they are lost.
- Values of the live map, hashing, capacities that are only hints
  (`visible_capacity`, `dirty_log_capacity`).
- Memory ordering: the atomics are counters, no other data is published through
  them, and the rest is behind locks or the channel.
- Panics and poisoning: `len` adds two counters, and when the first has wrapped
  below zero a debug build panics there; the model has the release build.
- The test-only shadow queue of the log (it holds what the channel holds whenever
  the harness, its only user, looks).
- Of the trace driver: parsing of JSON and ITF text and with it `from_spec`, which builds
  the comparison form from a state of a trace, the table from action names to steps, the
  emission of traces and the external validator. `replay-trace` is
  `CacheLogCore` from `Init`.
- Of the Creusot proofs: the logical functions that restate functions of `model.rs`.
- Calls of the conformance harness beyond the ids its core has room for (64 writes, 64
  fills): the core ignores them, the map does not.
- What a `len` answers that meets a drain: it reads the batch in flight before the counter,
  so what is drained in between is in neither. `QuietLenExact` is about the others.
- The PlusCal models of the repository, which specify the core once more; benchmarks
  and the example, which only call the map.

## 8. Plan

Done, in this order: `CacheLogCore` with its reads and `WriteBehind`; `OrderedLog`,
`DirtyLog`, `DirtyLogMutex`; `CacheLogMap`; the proofs about the core;
`CacheLogSystem` and `CacheLogScan`; `CacheLogConformance`, `CacheLogComparable`,
`CacheLogStateFile`, and the restart in `CacheLogSystem`; the proofs about both dirty
logs, the map, one writer per key, scans, the comparison form, the application, the two
replays, and the map against the core.

Open:
1. `CacheLogSystem`, seen from its store, as a refinement of `WriteBehind` while no batch
   is persisted again.
2. The acceptance of traces by the specification in `model-cachelog/formal/`.
