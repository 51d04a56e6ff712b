--------------------------- MODULE CacheLogSystem ---------------------------
(***************************************************************************)
(* CacheLogMap in the application README.md describes: a flusher takes a   *)
(* batch, persists its records one by one and marks it; when persisting    *)
(* fails it takes the batch again, and persists it from its first record.  *)
(* Keys are filled back into the clean cache from the durable store; reads *)
(* that miss go to the store.  The store and the loop are the              *)
(* application's (external), the calls are those of CacheLogMap, still     *)
(* interleaved step by step.                                               *)
(*                                                                         *)
(* The process may stop at any step, and start again with a new map on the *)
(* store it left: ids then begin at 0 again.  The value of a write is its  *)
(* number among the writes of all runs, so that a store or a clean entry   *)
(* says which write it has.                                                *)
(***************************************************************************)
EXTENDS CacheLogMap

VARIABLES
  store,          \* store[k]: the write whose value is durable, or NoId
  found,          \* found[k]: what store[k] was when this run started
  before,         \* how many writes earlier runs have made
  to_persist,     \* to_persist[t]: what t has yet to persist of held[t]
  retrying,       \* retrying[t]: t persists a batch that it took before
  fetched,        \* fetched[t]: what t read from the store to fill with
  copied,         \* copied[id]: the value of the clean record id
  missed          \* the read that missed the map and goes to the store

runVars == <<found, before>>
appVars == <<store, runVars, to_persist, retrying, fetched, copied, missed>>
sysVars == <<vars, appVars>>

\* The value of the write id of this run.
Written(id) == before + id

Nothing == [some |-> FALSE]
Fetched(k) == [some |-> TRUE, key |-> k, value |-> store[k]]

SysInit ==
  /\ Init
  /\ store = [k \in Key |-> NoId]
  /\ found = store
  /\ before = 0
  /\ to_persist = [t \in Thread |-> <<>>]
  /\ retrying = [t \in Thread |-> FALSE]
  /\ fetched = [t \in Thread |-> Nothing]
  /\ copied = [id \in CacheId |-> NoId]
  /\ missed = Nothing

\* t is between two steps of the application's loop.
Free(t) == op[t].pc = "idle" /\ to_persist[t] = <<>> /\ ~fetched[t].some

(***************************************************************************)
(* The flusher's loop.                                                     *)
(***************************************************************************)
\* Also when persisting has failed and the rest of the batch is given up.
TakeBatch(t) ==
  /\ ~fetched[t].some
  /\ \/ FlushAgain(t) /\ retrying' = [retrying EXCEPT ![t] = TRUE]
     \/ /\ FlushNothing(t) \/ \E limit \in Limit : FlushNew(t, limit)
        /\ retrying' = [retrying EXCEPT ![t] = FALSE]
  /\ to_persist' = [to_persist EXCEPT ![t] = held'[t]]
  /\ UNCHANGED <<store, runVars, fetched, copied, missed>>

\* (mutant) the batch is persisted from its end
NewestFirst(records) ==
  [entry |-> records[Len(records)], rest |-> SubSeq(records, 1, Len(records) - 1)]

\* FlushBatch::iter, in order
NextEntry(records) == [entry |-> Head(records), rest |-> Tail(records)]

Persist(t) ==
  LET next == NextEntry(to_persist[t]) IN
  /\ to_persist[t] # <<>>
  /\ store' = [store EXCEPT ![next.entry.key] = Written(next.entry.id)]
  /\ to_persist' = [to_persist EXCEPT ![t] = next.rest]
  /\ retrying' = [retrying EXCEPT ![t] = @ /\ next.rest # <<>>]
  /\ UNCHANGED <<vars, runVars, fetched, copied, missed>>

Mark(t) ==
  /\ Free(t)
  /\ MarkFlushed(t)
  /\ UNCHANGED appVars

(***************************************************************************)
(* Filling: read the store, then insert_clean_if_absent.                   *)
(***************************************************************************)
Fetch(t, k) ==
  /\ Free(t)
  /\ "fill" \in Calls[t]
  /\ next_cache < MaxCache
  /\ store[k] # NoId
  /\ fetched' = [fetched EXCEPT ![t] = Fetched(k)]
  /\ UNCHANGED <<vars, store, runVars, to_persist, retrying, copied, missed>>

Fill(t) ==
  /\ fetched[t].some
  /\ TakeCacheId(t, fetched[t].key)
  /\ copied' = [copied EXCEPT ![next_cache] = fetched[t].value]
  /\ fetched' = [fetched EXCEPT ![t] = Nothing]
  /\ UNCHANGED <<store, runVars, to_persist, retrying, missed>>

(***************************************************************************)
(* Reading: read(k), and after a miss, in a second step, the store.  The   *)
(* floor of the read is the last write that was complete when it began.    *)
(* A read that hits is one step that changes nothing; one reader is enough *)
(* because readers change nothing that another one sees.                   *)
(***************************************************************************)
\* The writes of k in this run whose insert_dirty has returned.
Completed(k) ==
  {Written(record.id) : record \in {r \in RecordOf(Dirty!Appended) :
                             r.key = k /\ Published(r)}}

Floor(k) ==
  LET ids == Completed(k) \cup {found[k]}
  IN  CHOOSE id \in ids : \A other \in ids : other <= id

ReadMiss(k) ==
  /\ ~missed.some
  /\ visible[k] = NoRef
  /\ missed' = [some |-> TRUE, key |-> k, floor |-> Floor(k)]
  /\ UNCHANGED <<vars, store, runVars, to_persist, retrying, fetched, copied>>

ReadStore ==
  /\ missed.some
  /\ missed' = Nothing
  /\ UNCHANGED <<vars, store, runVars, to_persist, retrying, fetched, copied>>

\* The calls the application makes of the map on their own.
MapCall(t) ==
  /\ Free(t)
  /\ \E k \in Key :
       \/ TakeWriteId(t, k) /\ Written(next_write) < MaxWrite
       \/ EvictClean(t, k)
  /\ UNCHANGED appVars

(***************************************************************************)
(* The process stops and starts again: a new map, and the store as it is.  *)
(* Only a run that has taken a write id restarts, which bounds the runs.   *)
(***************************************************************************)
Restart ==
  /\ next_write > 0
  /\ found' = store
  /\ before' = Written(next_write)
  /\ visible' = [k \in Key |-> NoRef]
  /\ next_write' = 0
  /\ pending' = <<>> /\ inflight' = <<>> /\ retired' = <<>>
  /\ clean_fifo' = <<>> /\ clean_count' = 0 /\ next_cache' = 0 /\ leaked' = 0
  /\ op' = [t \in Thread |-> Idle]
  /\ held' = [t \in Thread |-> <<>>]
  /\ to_persist' = [t \in Thread |-> <<>>]
  /\ retrying' = [t \in Thread |-> FALSE]
  /\ fetched' = [t \in Thread |-> Nothing]
  /\ copied' = [id \in CacheId |-> NoId]
  /\ missed' = Nothing
  /\ UNCHANGED store

SysNext ==
  \/ \E t \in Thread :
       \/ MapCall(t)
       \/ Continue(t) /\ UNCHANGED appVars
       \/ TakeBatch(t)
       \/ Persist(t)
       \/ Mark(t)
       \/ \E k \in Key : Fetch(t, k)
       \/ Fill(t)
  \/ \E k \in Key : ReadMiss(k)
  \/ ReadStore
  \/ Restart

SysSpec == SysInit /\ [][SysNext]_sysVars

(***************************************************************************)
(* Properties.  They need one writer per key, one thread that flushes, and *)
(* fills made by that thread: a second flusher may persist a batch again   *)
(* after the first has gone on, and another thread may insert a value it   *)
(* read from the store before a newer write came and went.                 *)
(***************************************************************************)

\* What a read of k through the map returns: the visible entry (read), the
\* store if there is none.
ReadThrough(k) ==
  IF visible[k].kind = "Dirty" THEN Written(visible[k].id)
  ELSE IF visible[k].kind = "Clean" THEN copied[visible[k].id]
  ELSE store[k]

\* A write is readable from the moment insert_dirty returns until the process
\* stops, and what was in the store when it started is readable too: through
\* the write's own entry, a newer one, the store or a clean copy, whatever
\* the flusher, the fills and the evictions do in between; and a read that
\* began after it and missed the map finds it, or a newer one, in the store.
CompletedWritesReadable ==
  /\ \A k \in Key : ReadThrough(k) >= Floor(k)
  /\ missed.some => store[missed.key] >= missed.floor

\* What is readable of a key never goes back to an older write, as long as the
\* process runs.  This is of
\* reads in one step: a read whose miss is old may find in the store a write
\* that was persisted before insert_dirty has published it, and the next
\* read still see the entry of the write before.
ReadsNeverGoBack ==
  [][~Restart => \A k \in Key : ReadThrough(k)' >= ReadThrough(k)]_sysVars

\* The last write of k among the first n of the log; what the store had when
\* the run started if there is none.
LastOf(k, n) ==
  LET log == Dirty!Appended
      ids == {Written(log[i].id) : i \in {j \in 1 .. n : log[j].key = k}}
  IN  IF ids = {} THEN found[k] ELSE CHOOSE id \in ids : \A other \in ids : other <= id

\* Stopped at any moment, the process leaves in the store, key by key, what
\* some prefix of its log writes over what it found there, with every batch
\* that was marked in that prefix.  It is one prefix for all keys unless a
\* batch is being persisted again: the store has then older writes of some
\* keys beside the newest ones of others, until the batch is through.
StoreFollowsLog ==
  LET Place == Len(retired) .. Len(Dirty!Appended) IN
  /\ \A k \in Key : \E n \in Place : store[k] = LastOf(k, n)
  /\ (\A t \in Thread : ~retrying[t]) =>
       \E n \in Place : \A k \in Key : store[k] = LastOf(k, n)

(***************************************************************************)
(* What the steps preserve together, with IInv and OneWriterInv of the     *)
(* map, when one thread makes the calls of the loop.                       *)
(***************************************************************************)
OneLoop ==
  \A t, u \in Thread :
    Calls[t] \cap {"flush", "fill"} # {} /\ Calls[u] \cap {"flush", "fill"} # {}
      => t = u

SysTypeOK ==
  /\ store \in [Key -> Int] /\ found \in [Key -> Int] /\ before \in Nat
  /\ to_persist \in [Thread -> Seq(DirtyRecord)]
  /\ retrying \in [Thread -> BOOLEAN]
  /\ fetched \in [Thread -> {Nothing} \cup [some : {TRUE}, key : Key, value : Int]]
  /\ copied \in [CacheId -> Int]
  /\ missed \in {Nothing} \cup [some : {TRUE}, key : Key, floor : Int]

\* A thread does one thing of the loop at a time.
OneAtATime ==
  \A t \in Thread :
    /\ to_persist[t] # <<>> =>
         "flush" \in Calls[t] /\ op[t].pc = "idle" /\ ~fetched[t].some
    /\ fetched[t].some => "fill" \in Calls[t] /\ op[t].pc = "idle"
    /\ op[t].pc = "entry" => "fill" \in Calls[t]
    /\ op[t].pc = "unpublish" => "flush" \in Calls[t]
    /\ retrying[t] => to_persist[t] # <<>>

\* How much of the log has been handed out, and, of it, what t has persisted
\* since it last took a batch.
Handed == Len(retired) + Len(inflight)
PersistedTo(t) == Handed - Len(to_persist[t])

\* What t has yet to persist is the end of the batch in flight.  The store has
\* the log up to there; on a retry, key by key, up to there or further.
StoreInPlace ==
  /\ \A k \in Key : found[k] < before
  /\ (\A t \in Thread : to_persist[t] = <<>>) =>
       \A k \in Key : store[k] = LastOf(k, Handed)
  /\ \A t \in Thread : to_persist[t] # <<>> =>
       /\ Len(to_persist[t]) <= Len(inflight)
       /\ \A i \in DOMAIN to_persist[t] :
            to_persist[t][i] = Dirty!Appended[PersistedTo(t) + i]
       /\ \A k \in Key : \E n \in PersistedTo(t) .. Handed : store[k] = LastOf(k, n)
       /\ ~retrying[t] => \A k \in Key : store[k] = LastOf(k, PersistedTo(t))

\* What is on its way into the clean cache is what the store has; what is
\* visible there is no older than the completed writes, and no newer than the
\* store; and the log has the write of a visible dirty entry.
CopiesFresh ==
  /\ \A t \in Thread :
       /\ fetched[t].some => fetched[t].value = store[fetched[t].key]
       /\ op[t].pc = "entry" =>
            op[t].id < next_cache /\ copied[op[t].id] = store[op[t].key]
  /\ \A k \in Key :
       /\ visible[k].kind = "Clean" =>
            LET value == copied[visible[k].id] IN
            /\ visible[k].id < next_cache
            /\ found[k] <= value /\ value <= store[k]
            /\ \A id \in Completed(k) : id <= value
       /\ visible[k].kind = "Dirty" =>
            LET log == Dirty!Appended IN
            \E i \in DOMAIN log : log[i] = [id |-> visible[k].id, key |-> k]

\* The floor of a read that missed is retired.
MissedRetired ==
  missed.some =>
    \/ missed.floor <= found[missed.key]
    \/ \E i \in DOMAIN retired :
         retired[i].key = missed.key /\ missed.floor <= Written(retired[i].id)

SysInv ==
  /\ SysTypeOK
  /\ OneAtATime
  /\ StoreInPlace
  /\ CopiesFresh
  /\ MissedRetired
=============================================================================
