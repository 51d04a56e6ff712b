---------------------------- MODULE WriteBehind ----------------------------
(***************************************************************************)
(* What a write-behind cache in front of a durable store promises, with no *)
(* cache in it at all: reads return the latest write, writes reach the     *)
(* durable store one at a time in the order they were made, and a crash    *)
(* forgets exactly the writes that have not reached it.                    *)
(*                                                                         *)
(* No code is modelled here.  CacheLogCore is shown to implement this      *)
(* specification; everything that core does besides writing, flushing and  *)
(* crashing has to be invisible at this level.                             *)
(***************************************************************************)
EXTENDS Sequences

CONSTANTS
  Key,
  Value,
  NoValue       \* what a key nobody wrote reads as

VARIABLES
  current,      \* current[k]: what a read of k returns
  stored,       \* stored[k]: the durable value of k
  backlog,      \* the writes not yet durable, oldest first
  down          \* the cache has crashed

vars == <<current, stored, backlog, down>>

Init ==
  /\ current = [k \in Key |-> NoValue]
  /\ stored = [k \in Key |-> NoValue]
  /\ backlog = <<>>
  /\ down = FALSE

Put(k, v) ==
  /\ ~down
  /\ current' = [current EXCEPT ![k] = v]
  /\ backlog' = Append(backlog, [key |-> k, value |-> v])
  /\ UNCHANGED <<stored, down>>

Persist ==
  /\ ~down
  /\ backlog # <<>>
  /\ stored' = [stored EXCEPT ![Head(backlog).key] = Head(backlog).value]
  /\ backlog' = Tail(backlog)
  /\ UNCHANGED <<current, down>>

Crash ==
  /\ ~down
  /\ down' = TRUE
  /\ current' = stored
  /\ backlog' = <<>>
  /\ UNCHANGED stored

Next ==
  \/ \E k \in Key, v \in Value : Put(k, v)
  \/ Persist
  \/ Crash

Spec == Init /\ [][Next]_vars
=============================================================================
