------------------------------ MODULE DirtyLog ------------------------------
(***************************************************************************)
(* OrderedFifoDirty of dirty_mode.rs as it ships (the build without the    *)
(* `loom` feature): an atomic id counter, an unbounded kanal channel, an   *)
(* atomic count of what is in the channel, and a mutex around the batch in *)
(* flight.  Nothing but that mutex makes two steps one: an append is three *)
(* steps, a flush_batch pops its records one by one while appends go on,   *)
(* and len reads the batch and the counter at different moments.           *)
(*                                                                         *)
(* Writers call append; flushers call flush_batch and mark_flushed in any  *)
(* order, keeping the batch the last flush_batch returned; observers call  *)
(* len.  A section of code that runs under the mutex and changes nothing   *)
(* else that an action reads outside it is one step.                       *)
(***************************************************************************)
EXTENDS FlushBatches, FiniteSets

CONSTANTS
  Writer, Flusher, Observer,   \* threads, by the calls they make
  Limit,        \* the limits flush_batch is called with
  MaxWrite,     \* bound: how many records are appended in a behaviour
  CountModulus  \* 2^w for the width w of pending_len

ASSUME MaxWriteAssumption == MaxWrite \in Nat
ASSUME LimitAssumption == Limit \subseteq Nat
ASSUME CountModulusAssumption == CountModulus \in Nat \ {0}
ASSUME ThreadAssumption ==
  /\ Writer \cap Flusher = {}
  /\ Writer \cap Observer = {}
  /\ Flusher \cap Observer = {}
ASSUME FiniteThreadsAssumption == IsFiniteSet(Writer) /\ IsFiniteSet(Flusher)

VARIABLES
  next_id,
  channel,        \* tx and rx
  pending_len,
  inflight,
  lock,           \* who holds the mutex across steps: {} or {flusher}
  writer,         \* writer[w]: its pc, and the id it was given
  flusher,        \* flusher[f]: its pc, its call's locals, its last batch
  observer,       \* observer[o]: its pc, and the length of the batch it read
  retired         \* history: the records of the retired batches, in order

vars == <<next_id, channel, pending_len, inflight, lock, writer, flusher,
          observer, retired>>

WriteId == 0 .. MaxWrite - 1

\* A dirty record; its writer stands for the key and value, which the log
\* stores and never looks at.
DirtyRecord == [id : WriteId, by : Writer]

\* (mutant) a counter that is not a machine word
Unbounded(n) == n
\* (mutant) a decrement that saturates at zero
Saturated(n) == IF n < 0 THEN 0 ELSE n % CountModulus

\* fetch_add and fetch_sub on pending_len wrap.
Wrap(n) == n % CountModulus

\* (mutant) the record goes in front of the others
Prepend(records, r) == <<r>> \o records

\* send on the channel, and push on the batch being built
Push(records, r) == Append(records, r)

Init ==
  /\ next_id = 0
  /\ channel = <<>>
  /\ pending_len = 0
  /\ inflight = NoBatch
  /\ lock = {}
  /\ writer = [w \in Writer |-> [pc |-> "idle", id |-> NoId]]
  /\ flusher = [f \in Flusher |->
       [pc |-> "idle", limit |-> 0, entries |-> <<>>, held |-> <<>>]]
  /\ observer = [o \in Observer |-> [pc |-> "idle", inflight_len |-> 0]]
  /\ retired = <<>>

(***************************************************************************)
(* append: take an id, send the record, count it.                          *)
(***************************************************************************)
TakeId(w) ==
  /\ writer[w].pc = "idle"
  /\ next_id < MaxWrite
  /\ next_id' = next_id + 1
  /\ writer' = [writer EXCEPT ![w] = [pc |-> "send", id |-> next_id]]
  /\ UNCHANGED <<channel, pending_len, inflight, lock, flusher, observer, retired>>

Send(w) ==
  /\ writer[w].pc = "send"
  /\ channel' = Push(channel, [id |-> writer[w].id, by |-> w])
  /\ writer' = [writer EXCEPT ![w].pc = "count"]
  /\ UNCHANGED <<next_id, pending_len, inflight, lock, flusher, observer, retired>>

CountSent(w) ==
  /\ writer[w].pc = "count"
  /\ pending_len' = Wrap(pending_len + 1)
  /\ writer' = [writer EXCEPT ![w] = [pc |-> "idle", id |-> NoId]]
  /\ UNCHANGED <<next_id, channel, inflight, lock, flusher, observer, retired>>

(***************************************************************************)
(* flush_batch: return the batch in flight, or drain the channel into a    *)
(* new one under the mutex.                                                *)
(***************************************************************************)
FlushAgain(f) ==
  /\ flusher[f].pc = "idle"
  /\ lock = {}
  /\ inflight.some
  /\ flusher' = [flusher EXCEPT ![f].held = inflight.batch]
  /\ UNCHANGED <<next_id, channel, pending_len, inflight, lock, writer,
                 observer, retired>>

\* (mutant) a batch in flight is replaced by the next one
AlwaysDrain == TRUE

MayDrain == ~inflight.some

FlushStart(f, limit) ==
  /\ flusher[f].pc = "idle"
  /\ lock = {}
  /\ MayDrain
  /\ lock' = {f}
  /\ flusher' = [flusher EXCEPT ![f].pc = "drain", ![f].limit = limit]
  /\ UNCHANGED <<next_id, channel, pending_len, inflight, writer, observer,
                 retired>>

\* (mutant) the drain stops one record short of the limit
WantsOneLess(f) == Len(flusher[f].entries) + 1 < flusher[f].limit

WantsMore(f) == Len(flusher[f].entries) < flusher[f].limit

FlushPop(f) ==
  /\ flusher[f].pc = "drain"
  /\ WantsMore(f)
  /\ channel # <<>>
  /\ channel' = Tail(channel)
  /\ flusher' = [flusher EXCEPT
       ![f].pc = "uncount", ![f].entries = Push(@, Head(channel))]
  /\ UNCHANGED <<next_id, pending_len, inflight, lock, writer, observer, retired>>

FlushUncount(f) ==
  /\ flusher[f].pc = "uncount"
  /\ pending_len' = Wrap(pending_len - 1)
  /\ flusher' = [flusher EXCEPT ![f].pc = "drain"]
  /\ UNCHANGED <<next_id, channel, inflight, lock, writer, observer, retired>>

FlushDone(f) ==
  /\ flusher[f].pc = "drain"
  /\ ~WantsMore(f) \/ channel = <<>>
  /\ inflight' = Installed(inflight, flusher[f].entries)
  /\ lock' = {}
  /\ flusher' = [flusher EXCEPT ![f] =
       [pc |-> "idle", limit |-> 0, entries |-> <<>>, held |-> @.entries]]
  /\ UNCHANGED <<next_id, channel, pending_len, writer, observer, retired>>

(***************************************************************************)
(* mark_flushed with the last batch returned; a batch that is not the one  *)
(* in flight is answered with 0 and changes nothing.                       *)
(***************************************************************************)
MarkFlushed(f) ==
  /\ flusher[f].pc = "idle"
  /\ lock = {}
  /\ inflight.some
  /\ SameBatch(inflight.batch, flusher[f].held)
  /\ inflight' = NoBatch
  /\ retired' = retired \o inflight.batch
  /\ UNCHANGED <<next_id, channel, pending_len, lock, writer, flusher, observer>>

(***************************************************************************)
(* len: the length of the batch in flight under the mutex, then the        *)
(* counter without it.                                                     *)
(***************************************************************************)
LenInflight(o) ==
  /\ observer[o].pc = "idle"
  /\ lock = {}
  /\ observer' = [observer EXCEPT ![o] =
       [pc |-> "load", inflight_len |-> Len(Entries(inflight))]]
  /\ UNCHANGED <<next_id, channel, pending_len, inflight, lock, writer,
                 flusher, retired>>

\* (mutant) the batch in flight is not counted
PendingOnly(o) == pending_len

\* What len returns when it loads the counter now; the addition of a release
\* build wraps (that of a debug build panics where it would).
LenAnswer(o) == Wrap(pending_len + observer[o].inflight_len)

LenLoad(o) ==
  /\ observer[o].pc = "load"
  /\ observer' = [observer EXCEPT ![o] = [pc |-> "idle", inflight_len |-> 0]]
  /\ UNCHANGED <<next_id, channel, pending_len, inflight, lock, writer,
                 flusher, retired>>

AppendStep(w) == TakeId(w) \/ Send(w) \/ CountSent(w)

DrainStep(f) == FlushPop(f) \/ FlushUncount(f) \/ FlushDone(f)

Next ==
  \/ \E w \in Writer : AppendStep(w)
  \/ \E f \in Flusher :
       \/ FlushAgain(f)
       \/ \E limit \in Limit : FlushStart(f, limit)
       \/ DrainStep(f)
       \/ MarkFlushed(f)
  \/ \E o \in Observer : LenInflight(o) \/ LenLoad(o)

Spec == Init /\ [][Next]_vars

(***************************************************************************)
(* Fairness: a call that has begun goes on (the scheduler does not starve  *)
(* a thread), and each flusher, as the README asks of it, keeps asking for *)
(* a batch of at least one record and marking the batch it was given.      *)
(***************************************************************************)
Fairness ==
  /\ \A w \in Writer : WF_vars(Send(w)) /\ WF_vars(CountSent(w))
  /\ \A f \in Flusher :
       /\ WF_vars(DrainStep(f))
       /\ WF_vars(FlushAgain(f))
       /\ SF_vars(\E limit \in Limit \ {0} : FlushStart(f, limit))
       /\ WF_vars(MarkFlushed(f))

FairSpec == Spec /\ Fairness

(***************************************************************************)
(* Properties.                                                             *)
(***************************************************************************)

\* The records a flusher has popped and not yet put in flight.
Draining == IF lock = {} THEN <<>> ELSE flusher[CHOOSE f \in lock : TRUE].entries

\* Every record sent so far, in the order of the channel.
Log == retired \o Entries(inflight) \o Draining \o channel

\* Each variable keeps its type; pending_len stays a machine word.
TypeOK ==
  /\ next_id \in 0 .. MaxWrite
  /\ channel \in Seq(DirtyRecord)
  /\ pending_len \in 0 .. CountModulus - 1
  /\ inflight = NoBatch \/ inflight \in [some : {TRUE}, batch : Seq(DirtyRecord) \ {<<>>}]
  /\ lock \subseteq Flusher
  /\ writer \in [Writer -> [pc : {"idle", "send", "count"}, id : WriteId \cup {NoId}]]
  /\ flusher \in [Flusher -> [pc : {"idle", "drain", "uncount"}, limit : Nat,
                  entries : Seq(DirtyRecord), held : Seq(DirtyRecord)]]
  /\ observer \in [Observer -> [pc : {"idle", "load"}, inflight_len : Nat]]
  /\ retired \in Seq(DirtyRecord)

\* The counter, which sends and pops update after the fact and in any order,
\* is off by exactly the updates still to come, modulo the word: a pop
\* counted before the send it pops wraps below zero and comes back.
PendingLenAccounts ==
  pending_len = Wrap(Len(channel)
                     + Cardinality({f \in Flusher : flusher[f].pc = "uncount"})
                     - Cardinality({w \in Writer : writer[w].pc = "count"}))

\* The ids of the writers that have not sent their record yet.
UnsentIds == {writer[w].id : w \in {u \in Writer : writer[u].pc = "send"}}

\* Every id handed out is in exactly one place: with the writer that has not
\* sent it yet, or once in the log (channel, drain, batch or retired).
EachIdOnce ==
  /\ \A i, j \in DOMAIN Log : i # j => Log[i].id # Log[j].id
  /\ {Log[i].id : i \in DOMAIN Log} = (0 .. next_id - 1) \ UnsentIds

\* The records of one writer stay in the order that writer appended them,
\* through the channel, the drain and the batches.
ProgramOrder ==
  \A i, j \in DOMAIN Log :
    i < j /\ Log[i].by = Log[j].by => Log[i].id < Log[j].id

\* A flusher has the mutex exactly while it drains; there is then no batch in
\* flight, and what it has drained is empty when it does not.
LockHeld ==
  /\ lock = {} \/ \E f \in Flusher : lock = {f}
  /\ \A f \in Flusher :
       IF flusher[f].pc = "idle"
       THEN lock # {f} /\ flusher[f].entries = <<>>
       ELSE lock = {f} /\ inflight = NoBatch

\* The ids on their way to the channel are all different, and each is past
\* the records its writer has sent.
UnsentAhead ==
  \A w \in Writer : writer[w].pc = "send" =>
    /\ writer[w].id \in 0 .. next_id - 1
    /\ \A u \in Writer \ {w} :
         writer[u].pc = "send" => writer[u].id # writer[w].id
    /\ \A i \in DOMAIN Log : Log[i].by = w => Log[i].id < writer[w].id

\* A batch a flusher still holds is the one in flight, or it is retired as
\* far as its last record.
HeldBatchKnown ==
  \A f \in Flusher :
    \/ flusher[f].held = <<>>
    \/ inflight.some /\ flusher[f].held = inflight.batch
    \/ \E i \in DOMAIN retired : retired[i].id = last_id(flusher[f].held)

\* What the steps preserve together: who holds the mutex, where each id is,
\* and which batches can still be marked.
IInv ==
  /\ TypeOK
  /\ LockHeld
  /\ UnsentAhead
  /\ EachIdOnce
  /\ ProgramOrder
  /\ PendingLenAccounts
  /\ HeldBatchKnown

\* mark_flushed retires the batch the caller holds and no other, although it
\* compares only lengths and last ids: a stale or repeated mark, with the
\* next batch already in flight, changes nothing.
MarkRetiresWhatWasHeld ==
  [][\A f \in Flusher :
       MarkFlushed(f) => flusher[f].held = inflight.batch]_vars

\* A len call that meets no other call half-way, and whose batch did not
\* change length under it, counts the pending and in-flight records exactly.
QuietLenExact ==
  \A o \in Observer :
    /\ observer[o].pc = "load"
    /\ observer[o].inflight_len = Len(Entries(inflight))
    /\ \A w \in Writer : writer[w].pc # "count"
    /\ \A f \in Flusher : flusher[f].pc = "idle"
    => LenAnswer(o) = Wrap(Len(channel) + Len(Entries(inflight)))

\* An append that got its id is eventually in a retired batch, if the
\* flushers keep flushing and marking.
EventuallyRetired ==
  \A w \in Writer, id \in WriteId :
    (writer[w].pc = "send" /\ writer[w].id = id)
      ~> (\E i \in DOMAIN retired : retired[i] = [id |-> id, by |-> w])

\* README.md: "flush_batch + mark_flushed drain the log in write order".
DrainsInWriteOrder ==
  \A i, j \in DOMAIN retired : i < j => retired[i].id < retired[j].id

(***************************************************************************)
(* The refinement: a drain takes effect when its batch is put in flight.   *)
(***************************************************************************)
pendingView == Draining \o channel
inflightView == Entries(inflight)

OL == INSTANCE OrderedLog
        WITH Rec <- DirtyRecord, pending <- pendingView, inflight <- inflightView

\* The lock-free appends and the record-by-record drain are a FIFO log with
\* atomic appends, batches and retirements.
ImplementsOrderedLog == OL!Spec
=============================================================================
