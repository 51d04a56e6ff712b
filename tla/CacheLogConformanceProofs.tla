---------------------- MODULE CacheLogConformanceProofs ----------------------
(***************************************************************************)
(* Proofs about the conformance harness, for any keys, limits and bounds   *)
(* and any calls up to the first that makes an assertion fail: how far the *)
(* live map and the core may be apart within a call (ConfInv), and that    *)
(* only two calls make one fail, and what the two sides then differ in.    *)
(***************************************************************************)
EXTENDS CacheLogConformance, CacheLogCoreProofs, ProofLemmas

(***************************************************************************)
(* The steps the core takes.                                               *)
(***************************************************************************)

\* A step, then two others.
LEMMA ThreeSteps ==
  ASSUME NEW a, NEW b, NEW c
  PROVE  /\ <<a>> \o <<b, c>> # <<>>
         /\ Head(<<a>> \o <<b, c>>) = a
         /\ Tail(<<a>> \o <<b, c>>) = <<b, c>>
<1> DEFINE S == {a, b, c}
           s == <<a>> \o <<b, c>>
<1>1. /\ <<a>> \in Seq(S) /\ <<b, c>> \in Seq(S)
      /\ Len(<<a>>) = 1 /\ Len(<<b, c>>) = 2
  OBVIOUS
<1>2. /\ s \in Seq(S) /\ Len(s) = 3
      /\ \A i \in 1 .. 3 : s[i] = IF i <= 1 THEN <<a>>[i] ELSE <<b, c>>[i - 1]
  BY <1>1, ConcatProperties
<1> HIDE DEF s
<1>3. /\ s # <<>> /\ Head(s) = s[1]
      /\ Tail(s) \in Seq(S) /\ Len(Tail(s)) = 2
      /\ \A i \in 1 .. 2 : Tail(s)[i] = s[i + 1]
  <2>1. s \in Seq(S) /\ Len(s) = 3
    BY <1>2
  <2>2. s # <<>>
    BY <2>1
  <2> QED
    BY <2>1, <2>2, HeadTailProperties
<1>4. s[1] = a /\ \A i \in 1 .. 2 : Tail(s)[i] = <<b, c>>[i]
  BY <1>2, <1>3
<1>5. Tail(s) = <<b, c>>
  BY <1>1, <1>3, <1>4, SeqEqual
<1> QED
  BY <1>3, <1>4, <1>5 DEF s

\* What a call forgets: nothing, or the record of a clean reference.
LEMMA ForgetKinds ==
  ASSUME NEW ref
  PROVE  \/ ref.kind # "Clean" /\ Forget(ref) = <<>>
         \/ ref.kind = "Clean" /\ Forget(ref) = <<DropRecord(ref.id), Cleanup(ref.id)>>
BY DEF Forget, DropRecord, Cleanup

\* The steps a mark has left are a sequence, and each is a flush or a drop.
LEMMA MarkStepsShape ==
  ASSUME live_retired \in Seq(LiveRecord), NEW n \in Nat
  PROVE  /\ Len(MarkSteps(n)) = n
         /\ MarkSteps(n) = <<>> <=> n = 0
         /\ n > 0 =>
              /\ Tail(MarkSteps(n)) = MarkSteps(n - 1)
              /\ Head(MarkSteps(n)) =
                   IF (n - 1) % 2 = 1 THEN [action |-> "FlusherFlushNext"]
                   ELSE [action |-> "FlusherDrop",
                         id |-> Len(live_retired) - 1 - (n - 1) \div 2]
<1> DEFINE R == Len(live_retired)
           Step(j) == IF j % 2 = 1 THEN [action |-> "FlusherFlushNext"]
                      ELSE [action |-> "FlusherDrop", id |-> R - 1 - j \div 2]
           Any == {Step(j) : j \in Nat}
<1>1. \A m \in Nat : MarkSteps(m) = [i \in 1 .. m |-> Step(m - i)]
  BY DEF MarkSteps
<1>2. \A m \in Nat : \A i \in 1 .. m : Step(m - i) \in Any
  OBVIOUS
<1> HIDE DEF Step, Any
<1>3. ASSUME NEW m \in Nat
      PROVE  /\ MarkSteps(m) \in Seq(Any) /\ Len(MarkSteps(m)) = m
             /\ \A i \in 1 .. m : MarkSteps(m)[i] = Step(m - i)
  <2>1. MarkSteps(m) = [i \in 1 .. m |-> Step(m - i)]
    BY <1>1
  <2>2. \A i \in 1 .. m : Step(m - i) \in Any
    BY <1>2
  <2>3. [i \in 1 .. m |-> Step(m - i)] \in Seq(Any)
    BY <2>2
  <2>4. Len([i \in 1 .. m |-> Step(m - i)]) = m
    OBVIOUS
  <2> QED
    BY <2>1, <2>3, <2>4
<1>4. ASSUME n > 0
      PROVE  Tail(MarkSteps(n)) = MarkSteps(n - 1) /\ Head(MarkSteps(n)) = Step(n - 1)
  <2>1. /\ MarkSteps(n) \in Seq(Any) /\ Len(MarkSteps(n)) = n /\ MarkSteps(n) # <<>>
        /\ \A i \in 1 .. n : MarkSteps(n)[i] = Step(n - i)
    BY <1>3, <1>4
  <2>2. /\ MarkSteps(n - 1) \in Seq(Any) /\ Len(MarkSteps(n - 1)) = n - 1
        /\ \A i \in 1 .. n - 1 : MarkSteps(n - 1)[i] = Step((n - 1) - i)
    <3>1. n - 1 \in Nat
      BY <1>4
    <3> QED
      BY <1>3, <3>1
  <2>3. /\ Head(MarkSteps(n)) = MarkSteps(n)[1]
        /\ Tail(MarkSteps(n)) \in Seq(Any) /\ Len(Tail(MarkSteps(n))) = n - 1
        /\ \A i \in 1 .. n - 1 : Tail(MarkSteps(n))[i] = MarkSteps(n)[i + 1]
    BY <2>1, HeadTailProperties
  <2>4. \A i \in 1 .. n - 1 : Tail(MarkSteps(n))[i] = MarkSteps(n - 1)[i]
    <3> SUFFICES ASSUME NEW i \in 1 .. n - 1
                 PROVE  Tail(MarkSteps(n))[i] = MarkSteps(n - 1)[i]
      OBVIOUS
    <3>1. n - (i + 1) = (n - 1) - i /\ i + 1 \in 1 .. n
      OBVIOUS
    <3> QED
      BY <2>1, <2>2, <2>3, <3>1
  <2>5. Tail(MarkSteps(n)) = MarkSteps(n - 1)
    BY <2>2, <2>3, <2>4, SeqEqual
  <2> QED
    BY <1>4, <2>1, <2>3, <2>5
<1> QED
  BY <1>3, <1>4 DEF Step

\* The phases have nothing to do, a mark's steps, a write, a fill or a drop.
LEMMA HeadOfPhase ==
  ASSUME IInv, LiveTypeOK
  PROVE  /\ Marking(Len(todo)) =>
              \/ todo = <<>> /\ Len(todo) = 0
              \/ /\ Len(todo) \in Nat \ {0} /\ todo # <<>>
                 /\ Tail(todo) = MarkSteps(Len(todo) - 1)
                 /\ Head(todo) =
                      IF (Len(todo) - 1) % 2 = 1 THEN [action |-> "FlusherFlushNext"]
                      ELSE [action |-> "FlusherDrop",
                            id |-> Len(live_retired) - 1 - (Len(todo) - 1) \div 2]
         /\ \A k \in Key : Writing(k) =>
              /\ todo # <<>> /\ Head(todo) = WriteOf(k, next_write)
              /\ Tail(todo) = Forget(visible[k])
         /\ \A k \in Key : Filling(k) =>
              todo # <<>> /\ Head(todo) = InsertOf(k) /\ Tail(todo) = <<>>
         /\ \A id \in CacheId : Forgetting(id) =>
              \/ /\ todo # <<>> /\ Head(todo) = DropRecord(id)
                 /\ Tail(todo) = <<Cleanup(id)>>
              \/ /\ todo # <<>> /\ Head(todo) = Cleanup(id)
                 /\ Tail(todo) = <<>>
<1>1. ASSUME Marking(Len(todo))
      PROVE  \/ todo = <<>> /\ Len(todo) = 0
             \/ /\ Len(todo) \in Nat \ {0} /\ todo # <<>>
                /\ Tail(todo) = MarkSteps(Len(todo) - 1)
                /\ Head(todo) =
                     IF (Len(todo) - 1) % 2 = 1 THEN [action |-> "FlusherFlushNext"]
                     ELSE [action |-> "FlusherDrop",
                           id |-> Len(live_retired) - 1 - (Len(todo) - 1) \div 2]
  <2>1. todo = MarkSteps(Len(todo)) /\ live_retired \in Seq(LiveRecord)
    BY <1>1 DEF Marking, LiveTypeOK
  <2>2. Len(todo) \in Nat
    BY <2>1 DEF MarkSteps
  <2> QED
    BY <2>1, <2>2, MarkStepsShape
<1>2. ASSUME NEW k \in Key, Writing(k)
      PROVE  /\ todo # <<>> /\ Head(todo) = WriteOf(k, next_write)
             /\ Tail(todo) = Forget(visible[k])
  <2>1. todo = <<WriteOf(k, next_write)>> \o Forget(visible[k])
    BY <1>2 DEF Writing
  <2>2. CASE Forget(visible[k]) = <<>>
    BY <2>1, <2>2
  <2>3. CASE Forget(visible[k]) = <<DropRecord(visible[k].id), Cleanup(visible[k].id)>>
    BY <2>1, <2>3, ThreeSteps
  <2> QED
    BY <2>2, <2>3, ForgetKinds
<1>3. ASSUME NEW k \in Key, Filling(k)
      PROVE  todo # <<>> /\ Head(todo) = InsertOf(k) /\ Tail(todo) = <<>>
  BY <1>3 DEF Filling
<1>4. ASSUME NEW id \in CacheId, Forgetting(id)
      PROVE  \/ /\ todo # <<>> /\ Head(todo) = DropRecord(id)
                /\ Tail(todo) = <<Cleanup(id)>>
             \/ /\ todo # <<>> /\ Head(todo) = Cleanup(id)
                /\ Tail(todo) = <<>>
  <2>1. CASE todo = <<DropRecord(id), Cleanup(id)>>
    BY <2>1
  <2>2. CASE todo = <<Cleanup(id)>>
    BY <2>2
  <2> QED
    BY <1>4, <2>1, <2>2 DEF Forgetting
<1> QED
  BY <1>1, <1>2, <1>3, <1>4

\* A record is a step of one kind only.
LEMMA StepKinds ==
  /\ \A k, v : WriteOf(k, v) = [action |-> "WriterWrite", key |-> k, value |-> v]
  /\ \A k : InsertOf(k) = [action |-> "CacheInsert", key |-> k]
  /\ \A id : DropRecord(id) = [action |-> "CacheDropRecord", id |-> id]
  /\ \A id : Cleanup(id) = [action |-> "CacheCleanupVisible", id |-> id]
BY DEF WriteOf, InsertOf, DropRecord, Cleanup

\* What a step of the core is, in each phase.
LEMMA CoreStepKinds ==
  ASSUME IInv, InStep, CoreStep
  PROVE  /\ LiveOp.pc = "idle" /\ todo # <<>> /\ todo' = Tail(todo)
         /\ UNCHANGED <<liveVars, copied, batch, misuse>>
         /\ \/ /\ Marking(Len(todo)) /\ Len(todo) \in Nat \ {0}
               /\ todo' = MarkSteps(Len(todo) - 1)
               /\ \/ (Len(todo) - 1) % 2 = 1 /\ FlusherFlushNext
                  \/ /\ (Len(todo) - 1) % 2 # 1
                     /\ FlusherDrop(Len(live_retired) - 1 - (Len(todo) - 1) \div 2)
            \/ \E k \in Key : /\ Writing(k) /\ WriterWrite(k, next_write)
                              /\ todo' = Forget(visible[k])
            \/ \E k \in Key : Filling(k) /\ CacheInsert(k) /\ todo' = <<>>
            \/ \E id \in CacheId :
                 /\ Forgetting(id)
                 /\ \/ /\ CacheDropRecord(id) /\ todo' = <<Cleanup(id)>>
                       /\ Head(todo) = DropRecord(id)
                    \/ /\ CacheCleanupVisible(id) /\ todo' = <<>>
                       /\ Head(todo) = Cleanup(id)
<1>1. /\ LiveOp.pc = "idle" /\ todo # <<>> /\ todo' = Tail(todo)
      /\ UNCHANGED <<liveVars, copied, batch, misuse>> /\ ApplyStep(Head(todo))
  BY DEF CoreStep, Live!Quiet, LiveOp
<1>2. LiveTypeOK
  BY DEF InStep, Together
<1>3. CASE Marking(Len(todo))
  <2>1. /\ Len(todo) \in Nat \ {0} /\ Tail(todo) = MarkSteps(Len(todo) - 1)
        /\ Head(todo) =
             IF (Len(todo) - 1) % 2 = 1 THEN [action |-> "FlusherFlushNext"]
             ELSE [action |-> "FlusherDrop",
                   id |-> Len(live_retired) - 1 - (Len(todo) - 1) \div 2]
    BY <1>1, <1>2, <1>3, HeadOfPhase
  <2> DEFINE odd == (Len(todo) - 1) % 2 = 1
             dropped == Len(live_retired) - 1 - (Len(todo) - 1) \div 2
  <2>2. Head(todo) = IF odd THEN [action |-> "FlusherFlushNext"]
                     ELSE [action |-> "FlusherDrop", id |-> dropped]
    BY <2>1
  <2> HIDE DEF odd, dropped
  <2>3. CASE odd
    <3>1. Head(todo).action = "FlusherFlushNext"
      BY <2>2, <2>3
    <3>2. FlusherFlushNext
      BY <1>1, <3>1 DEF ApplyStep
    <3> QED
      BY <1>1, <1>3, <2>1, <2>3, <3>2 DEF odd
  <2>4. CASE ~odd
    <3>1. Head(todo).action = "FlusherDrop" /\ Head(todo).id = dropped
      BY <2>2, <2>4
    <3>2. FlusherDrop(dropped)
      BY <1>1, <3>1 DEF ApplyStep
    <3> QED
      BY <1>1, <1>3, <2>1, <2>4, <3>2 DEF odd, dropped
  <2> QED
    BY <2>3, <2>4
<1>4. ASSUME NEW k \in Key, Writing(k)
      PROVE  WriterWrite(k, next_write) /\ todo' = Forget(visible[k])
  <2>1. Head(todo) = WriteOf(k, next_write) /\ Tail(todo) = Forget(visible[k])
    BY <1>2, <1>4, HeadOfPhase
  <2>2. /\ Head(todo).action = "WriterWrite" /\ Head(todo).key = k
        /\ Head(todo).value = next_write
    BY <2>1 DEF WriteOf
  <2> QED
    BY <1>1, <2>1, <2>2 DEF ApplyStep
<1>5. ASSUME NEW k \in Key, Filling(k)
      PROVE  CacheInsert(k) /\ todo' = <<>>
  <2>1. Head(todo) = InsertOf(k) /\ Tail(todo) = <<>>
    BY <1>2, <1>5, HeadOfPhase
  <2>2. Head(todo).action = "CacheInsert" /\ Head(todo).key = k
    BY <2>1 DEF InsertOf
  <2>3. InsertIfCacheable(k)
    BY <1>1, <2>2 DEF ApplyStep
  <2>4. CacheInsert(k)
    BY <1>5, <2>3 DEF InsertIfCacheable, Filling
  <2> QED
    BY <1>1, <2>1, <2>4
<1>6. ASSUME NEW id \in CacheId, Forgetting(id)
      PROVE  \/ /\ CacheDropRecord(id) /\ todo' = <<Cleanup(id)>>
                /\ Head(todo) = DropRecord(id)
             \/ /\ CacheCleanupVisible(id) /\ todo' = <<>>
                /\ Head(todo) = Cleanup(id)
  <2>1. CASE Head(todo) = DropRecord(id) /\ Tail(todo) = <<Cleanup(id)>>
    <3>1. Head(todo).action = "CacheDropRecord" /\ Head(todo).id = id
      BY <2>1 DEF DropRecord
    <3>2. CacheDropRecord(id)
      BY <1>1, <3>1 DEF ApplyStep
    <3> QED
      BY <1>1, <2>1, <3>2
  <2>2. CASE Head(todo) = Cleanup(id) /\ Tail(todo) = <<>>
    <3>1. Head(todo).action = "CacheCleanupVisible" /\ Head(todo).id = id
      BY <2>2 DEF Cleanup
    <3>2. CacheCleanupVisible(id)
      BY <1>1, <3>1 DEF ApplyStep
    <3> QED
      BY <1>1, <2>2, <3>2
  <2> QED
    BY <1>2, <1>6, <2>1, <2>2, HeadOfPhase
<1>7. \/ Marking(Len(todo))
      \/ \E k \in Key : Writing(k) \/ Filling(k)
      \/ \E id \in CacheId : Forgetting(id)
  BY DEF InStep, Together
<1> QED
  BY <1>1, <1>3, <1>4, <1>5, <1>6, <1>7

\* The core has nothing to insert where there is an entry.
LEMMA RefusedCoreStep ==
  ASSUME NEW k \in Key, Refused(k), CoreStep
  PROVE  /\ UNCHANGED <<vars, liveVars, copied, batch, misuse>>
         /\ todo = <<InsertOf(k)>> /\ todo' = <<>> /\ LiveOp.pc = "idle"
<1>1. todo = <<InsertOf(k)>> /\ ~Cacheable(k)
  BY DEF Refused, CoreStep, Cacheable
<1>2. /\ Head(todo).action = "CacheInsert" /\ Head(todo).key = k
      /\ Tail(todo) = <<>>
  BY <1>1 DEF InsertOf
<1>3. /\ ApplyStep(Head(todo)) /\ todo' = <<>> /\ LiveOp.pc = "idle"
      /\ UNCHANGED <<liveVars, copied, batch, misuse>>
  BY <1>2 DEF CoreStep, Live!Quiet, LiveOp
<1>4. InsertIfCacheable(k)
  BY <1>2, <1>3 DEF ApplyStep
<1>5. UNCHANGED vars
  BY <1>1, <1>4 DEF InsertIfCacheable, CacheInsert
<1> QED
  BY <1>1, <1>3, <1>5

\* Every step of the harness is a step of the core, or leaves it alone.
LEMMA CoreMoves == IInv /\ ConfInv /\ [ConfNext]_confVars => [Next]_vars
<1> SUFFICES ASSUME IInv, ConfInv, [ConfNext]_confVars PROVE [Next]_vars
  OBVIOUS
<1>1. CASE CoreStep /\ InStep
  <2>1. next_write \in Nat /\ (next_write < MaxWrite => next_write \in Value)
    BY ValueIsWriteId, MaxWriteAssumption DEF IInv, TypeOK, WriteId
  <2>2. ASSUME NEW id, FlusherDrop(id) PROVE id \in WriteId
    <3>1. flushed \in Seq(WriteId) /\ Contains(flushed, id)
      BY <2>2 DEF IInv, TypeOK, FlusherDrop, Droppable
    <3> QED
      BY <3>1 DEF Contains
  <2>3. \A k \in Key : WriterWrite(k, next_write) => next_write < MaxWrite
    BY DEF WriterWrite
  <2> QED
    BY <1>1, <2>1, <2>2, <2>3, CoreStepKinds DEF Next
<1>2. CASE CoreStep /\ Behind
  BY <1>2, RefusedCoreStep DEF Behind
<1>3. CASE UNCHANGED vars
  BY <1>3
<1> QED
  BY <1>1, <1>2, <1>3 DEF ConfInv, ConfNext, confVars, InsertDirty, InsertCleanFromDurable,
     EvictClean, FlushBatch, MarkFlushed, MarkInFlight, MarkNothing, LiveStep, Panicked

(***************************************************************************)
(* The steps the live map takes.                                           *)
(***************************************************************************)

\* What the only thread is doing tells the phase.
LEMMA PhaseOfCall ==
  ASSUME InStep
  PROVE  /\ LiveOp.pc \in {"idle", "append", "publish", "entry", "count", "push",
                          "uncount", "unpublish"}
         /\ LiveOp.pc \in {"append", "publish"} => \E k \in Key :
              Writing(k) /\ LiveOp = [pc |-> LiveOp.pc, key |-> k, id |-> next_write]
         /\ LiveOp.pc \in {"entry", "count", "push"} => \E k \in Key :
              Filling(k) /\ LiveOp = [pc |-> LiveOp.pc, key |-> k, id |-> next_cache]
         /\ LiveOp.pc = "uncount" => \E id \in CacheId : Forgetting(id)
         /\ LiveOp.pc = "unpublish" => Marking(Len(todo))
         /\ LiveOp.pc = "idle" => LiveOp = [pc |-> "idle"]
<1>1. LiveOp \in LiveOpType
  BY DEF InStep, Together, LiveTypeOK, LiveOp
<1>2. LiveOp.pc = "idle" => LiveOp = [pc |-> "idle"]
  BY <1>1 DEF LiveOpType
<1>3. CASE Marking(Len(todo))
  BY <1>2, <1>3 DEF Marking
<1>4. CASE \E k \in Key : Writing(k)
  <2>1. PICK k \in Key : Writing(k)
    BY <1>4
  <2>2. \/ LiveOp = [pc |-> "append", key |-> k, id |-> next_write]
        \/ LiveOp = [pc |-> "publish", key |-> k, id |-> next_write]
        \/ LiveOp = [pc |-> "idle"]
    BY <2>1 DEF Writing
  <2> QED
    BY <2>1, <2>2
<1>5. CASE \E k \in Key : Filling(k)
  <2>1. PICK k \in Key : Filling(k)
    BY <1>5
  <2>2. /\ LiveOp.pc \in {"entry", "count", "push", "idle"}
        /\ LiveOp.pc # "idle" => LiveOp = [pc |-> LiveOp.pc, key |-> k, id |-> next_cache]
    BY <2>1 DEF Filling
  <2> QED
    BY <1>2, <2>1, <2>2
<1>6. CASE \E id \in CacheId : Forgetting(id)
  <2>1. PICK id \in CacheId : Forgetting(id)
    BY <1>6
  <2>2. LiveOp.pc \in {"idle", "uncount"}
    BY <2>1 DEF Forgetting
  <2> QED
    BY <1>2, <2>1, <2>2
<1> QED
  BY <1>3, <1>4, <1>5, <1>6 DEF InStep, Together

\* How the call of the only thread goes on.
LEMMA OpMoves ==
  ASSUME LiveTypeOK
  PROVE  /\ \A x : live_op' = [live_op EXCEPT ![harness] = x] =>
              LiveOp' = x /\ (x \in LiveOpType => live_op' \in [{harness} -> LiveOpType])
         /\ \A pc : Live!Goto(harness, pc) =>
              live_op' = [live_op EXCEPT ![harness] = [LiveOp EXCEPT !.pc = pc]]
         /\ Live!Return(harness) =>
              live_op' = [live_op EXCEPT ![harness] = [pc |-> "idle"]]
<1>1. live_op \in [{harness} -> LiveOpType]
  BY DEF LiveTypeOK
<1> QED
  BY <1>1 DEF LiveOp, Live!Goto, Live!Return, Live!Idle

\* No eviction: the FIFO has room for every clean id there is.
LEMMA FifoHasRoom ==
  ASSUME LiveTypeOK, CleanAccounts, LiveOp.pc = "push"
  PROVE  ~Live!QueueFull
<1>1. Len(live_fifo) \in Nat /\ live_next_cache \in Nat
  BY DEF LiveTypeOK
<1>2. Len(live_fifo) + 1 <= live_next_cache /\ live_next_cache <= MaxCache
  BY DEF CleanAccounts
<1> QED
  BY <1>1, <1>2, RoomAssumption, MaxCacheAssumption DEF Live!QueueFull

\* What a step of the live map is, in each phase.
LEMMA LiveStepKinds ==
  ASSUME IInv, InStep, LiveStep
  PROVE  /\ UNCHANGED <<vars, copied, todo, batch, misuse, live_next_write, live_inflight,
                        live_retired, live_next_cache, live_held>>
         /\ \/ \E k \in Key :
                 /\ Writing(k) /\ LiveOp = [pc |-> "append", key |-> k, id |-> next_write]
                 /\ live_pending' = Append(live_pending, [id |-> next_write, key |-> k])
                 /\ live_op' = [live_op EXCEPT ![harness] =
                                  [pc |-> "publish", key |-> k, id |-> next_write]]
                 /\ UNCHANGED <<live_visible, live_fifo, live_clean_count>>
            \/ \E k \in Key :
                 /\ Writing(k) /\ LiveOp = [pc |-> "publish", key |-> k, id |-> next_write]
                 /\ live_visible' = [live_visible EXCEPT ![k] = DirtyRef(next_write)]
                 /\ live_clean_count' = IF live_visible[k].kind = "Clean"
                                        THEN Live!Wrap(live_clean_count - 1)
                                        ELSE live_clean_count
                 /\ live_op' = [live_op EXCEPT ![harness] = [pc |-> "idle"]]
                 /\ UNCHANGED <<live_pending, live_fifo>>
            \/ \E k \in Key :
                 /\ Filling(k) /\ LiveOp = [pc |-> "entry", key |-> k, id |-> next_cache]
                 /\ live_visible' = [live_visible EXCEPT ![k] = CleanRef(next_cache)]
                 /\ live_op' = [live_op EXCEPT ![harness] =
                                  [pc |-> "count", key |-> k, id |-> next_cache]]
                 /\ UNCHANGED <<live_pending, live_fifo, live_clean_count>>
            \/ \E k \in Key :
                 /\ Filling(k) /\ LiveOp = [pc |-> "count", key |-> k, id |-> next_cache]
                 /\ live_clean_count' = Live!Wrap(live_clean_count + 1)
                 /\ live_op' = [live_op EXCEPT ![harness] =
                                  [pc |-> "push", key |-> k, id |-> next_cache]]
                 /\ UNCHANGED <<live_pending, live_visible, live_fifo>>
            \/ \E k \in Key :
                 /\ Filling(k) /\ LiveOp = [pc |-> "push", key |-> k, id |-> next_cache]
                 /\ live_fifo' = Append(live_fifo, [id |-> next_cache, key |-> k])
                 /\ live_op' = [live_op EXCEPT ![harness] = [pc |-> "idle"]]
                 /\ UNCHANGED <<live_pending, live_visible, live_clean_count>>
            \/ \E id \in CacheId :
                 /\ Forgetting(id) /\ LiveOp.pc = "uncount"
                 /\ live_clean_count' = Live!Wrap(live_clean_count - 1)
                 /\ live_op' = [live_op EXCEPT ![harness] = [pc |-> "idle"]]
                 /\ UNCHANGED <<live_pending, live_visible, live_fifo>>
            \/ LET record == Head(LiveOp.todo) IN
               /\ Marking(Len(todo)) /\ LiveOp.pc = "unpublish"
               /\ live_visible' = IF live_visible[record.key] = DirtyRef(record.id)
                                  THEN [live_visible EXCEPT ![record.key] = NoRef]
                                  ELSE live_visible
               /\ live_op' = [live_op EXCEPT ![harness] =
                                IF Len(LiveOp.todo) = 1 THEN [pc |-> "idle"]
                                ELSE [pc |-> "unpublish", todo |-> Tail(LiveOp.todo)]]
               /\ UNCHANGED <<live_pending, live_fifo, live_clean_count>>
<1>0. LiveTypeOK /\ CleanAccounts
  BY DEF InStep, Together
<1>1. UNCHANGED <<vars, copied, todo, batch, misuse>> /\ Live!Continue(harness)
  BY DEF LiveStep
<1>2. LiveOp.pc \in {"idle", "append", "publish", "entry", "count", "push",
                    "uncount", "unpublish"}
  BY PhaseOfCall
<1>3. CASE Live!AppendDirty(harness)
  <2>1. /\ LiveOp.pc = "append"
        /\ live_pending' = Append(live_pending, [id |-> LiveOp.id, key |-> LiveOp.key])
        /\ Live!Goto(harness, "publish")
        /\ UNCHANGED <<live_inflight, live_retired, live_visible, live_next_write,
                       live_fifo, live_clean_count, live_next_cache, live_held>>
    BY <1>3 DEF Live!AppendDirty, Live!Dirty!AppendRecord, Live!cleanVars, LiveOp
  <2>2. PICK k \in Key :
          Writing(k) /\ LiveOp = [pc |-> "append", key |-> k, id |-> next_write]
    BY <2>1, PhaseOfCall
  <2>3. live_op' = [live_op EXCEPT ![harness] =
                      [pc |-> "publish", key |-> k, id |-> next_write]]
    <3>1. [LiveOp EXCEPT !.pc = "publish"] = [pc |-> "publish", key |-> k, id |-> next_write]
      BY <2>2
    <3> QED
      BY <1>0, <2>1, <3>1, OpMoves
  <2>4. LiveOp.id = next_write /\ LiveOp.key = k
    BY <2>2
  <2> QED
    BY <1>1, <2>1, <2>2, <2>3, <2>4
<1>4. CASE Live!PublishDirty(harness)
  <2>1. /\ LiveOp.pc = "publish"
        /\ live_visible' = [live_visible EXCEPT ![LiveOp.key] = DirtyRef(LiveOp.id)]
        /\ live_clean_count' = IF live_visible[LiveOp.key].kind = "Clean"
                               THEN Live!Wrap(live_clean_count - 1)
                               ELSE live_clean_count
        /\ Live!Return(harness)
        /\ UNCHANGED <<live_inflight, live_retired, live_pending, live_next_write,
                       live_fifo, live_next_cache, live_held>>
    BY <1>4 DEF Live!PublishDirty, Live!logVars, Live!CountAfterReplacing, Live!DirtyRef,
                DirtyRef, LiveOp
  <2>2. PICK k \in Key :
          Writing(k) /\ LiveOp = [pc |-> "publish", key |-> k, id |-> next_write]
    BY <2>1, PhaseOfCall
  <2>3. LiveOp.id = next_write /\ LiveOp.key = k
    BY <2>2
  <2>4. live_op' = [live_op EXCEPT ![harness] = [pc |-> "idle"]]
    BY <1>0, <2>1, OpMoves
  <2> QED
    BY <1>1, <2>1, <2>2, <2>3, <2>4
<1>5. CASE Live!InsertVacant(harness)
  <2>1. /\ LiveOp.pc = "entry"
        /\ live_visible' = [live_visible EXCEPT ![LiveOp.key] = CleanRef(LiveOp.id)]
        /\ Live!Goto(harness, "count")
        /\ UNCHANGED <<live_inflight, live_retired, live_pending, live_next_write,
                       live_fifo, live_clean_count, live_next_cache, live_held>>
    BY <1>5 DEF Live!InsertVacant, Live!logVars, Live!cleanVars, Live!CleanRef,
                CleanRef, LiveOp
  <2>2. PICK k \in Key :
          Filling(k) /\ LiveOp = [pc |-> "entry", key |-> k, id |-> next_cache]
    BY <2>1, PhaseOfCall
  <2>3. live_op' = [live_op EXCEPT ![harness] =
                      [pc |-> "count", key |-> k, id |-> next_cache]]
    <3>1. [LiveOp EXCEPT !.pc = "count"] = [pc |-> "count", key |-> k, id |-> next_cache]
      BY <2>2
    <3> QED
      BY <1>0, <2>1, <3>1, OpMoves
  <2>4. LiveOp.id = next_cache /\ LiveOp.key = k
    BY <2>2
  <2> QED
    BY <1>1, <2>1, <2>2, <2>3, <2>4
<1>6. CASE Live!FindOccupied(harness)
  <2>1. LiveOp.pc = "entry" /\ live_visible[LiveOp.key] # NoRef
    BY <1>6 DEF Live!FindOccupied, Live!VacantEntry, Live!NoRef, NoRef, LiveOp
  <2>2. PICK k \in Key :
          Filling(k) /\ LiveOp = [pc |-> "entry", key |-> k, id |-> next_cache]
    BY <2>1, PhaseOfCall
  <2>3. live_visible[k] = NoRef
    BY <2>1, <2>2 DEF Filling, Cacheable
  <2> QED
    BY <2>1, <2>2, <2>3
<1>7. CASE Live!CountClean(harness)
  <2>1. /\ LiveOp.pc = "count"
        /\ live_clean_count' = Live!Wrap(live_clean_count + 1)
        /\ Live!Goto(harness, "push")
        /\ UNCHANGED <<live_inflight, live_retired, live_pending, live_next_write,
                       live_fifo, live_visible, live_next_cache, live_held>>
    BY <1>7 DEF Live!CountClean, Live!logVars, LiveOp
  <2>2. PICK k \in Key :
          Filling(k) /\ LiveOp = [pc |-> "count", key |-> k, id |-> next_cache]
    BY <2>1, PhaseOfCall
  <2>3. live_op' = [live_op EXCEPT ![harness] =
                      [pc |-> "push", key |-> k, id |-> next_cache]]
    <3>1. [LiveOp EXCEPT !.pc = "push"] = [pc |-> "push", key |-> k, id |-> next_cache]
      BY <2>2
    <3> QED
      BY <1>0, <2>1, <3>1, OpMoves
  <2> QED
    BY <1>1, <2>1, <2>2, <2>3
<1>8. CASE Live!EnqueuePush(harness)
  <2>1. /\ LiveOp.pc = "push"
        /\ live_fifo' = Append(live_fifo, [id |-> LiveOp.id, key |-> LiveOp.key])
        /\ Live!Return(harness)
        /\ UNCHANGED <<live_inflight, live_retired, live_pending, live_next_write,
                       live_clean_count, live_visible, live_next_cache, live_held>>
    BY <1>8 DEF Live!EnqueuePush, Live!PushSlot, Live!logVars, LiveOp
  <2>2. PICK k \in Key :
          Filling(k) /\ LiveOp = [pc |-> "push", key |-> k, id |-> next_cache]
    BY <2>1, PhaseOfCall
  <2>3. LiveOp.id = next_cache /\ LiveOp.key = k
    BY <2>2
  <2>4. live_op' = [live_op EXCEPT ![harness] = [pc |-> "idle"]]
    BY <1>0, <2>1, OpMoves
  <2> QED
    BY <1>1, <2>1, <2>2, <2>3, <2>4
<1>9. CASE \/ Live!EnqueueFull(harness) \/ Live!EnqueuePop(harness)
           \/ Live!EnqueueDrop(harness) \/ Live!EnqueueUncount(harness)
           \/ Live!CleanupRemove(harness)
  <2>1. LiveOp.pc = "push" => ~Live!EnqueueFull(harness)
    BY <1>0, FifoHasRoom DEF Live!EnqueueFull
  <2>2. \/ LiveOp.pc = "push" /\ Live!EnqueueFull(harness)
        \/ LiveOp.pc \in {"pop", "drop", "uncount_old", "cleanup"}
    BY <1>9 DEF Live!EnqueueFull, Live!EnqueuePop, Live!EnqueueDrop,
                Live!EnqueueUncount, Live!CleanupRemove, LiveOp
  <2> QED
    BY <1>2, <2>1, <2>2
<1>10. CASE Live!EvictUncount(harness)
  <2>1. /\ LiveOp.pc = "uncount"
        /\ live_clean_count' = Live!Wrap(live_clean_count - 1)
        /\ Live!Return(harness)
        /\ UNCHANGED <<live_inflight, live_retired, live_pending, live_next_write,
                       live_fifo, live_visible, live_next_cache, live_held>>
    BY <1>10 DEF Live!EvictUncount, Live!logVars, LiveOp
  <2>2. live_op' = [live_op EXCEPT ![harness] = [pc |-> "idle"]]
    BY <1>0, <2>1, OpMoves
  <2>3. \E id \in CacheId : Forgetting(id)
    BY <2>1, PhaseOfCall
  <2> QED
    BY <1>1, <2>1, <2>2, <2>3
<1>11. CASE Live!Unpublish(harness)
  <2> DEFINE record == Head(LiveOp.todo)
  <2>1. /\ LiveOp.pc = "unpublish"
        /\ live_visible' = IF live_visible[record.key] = DirtyRef(record.id)
                           THEN [live_visible EXCEPT ![record.key] = NoRef]
                           ELSE live_visible
        /\ live_op' = [live_op EXCEPT ![harness] =
                         IF Len(LiveOp.todo) = 1 THEN [pc |-> "idle"]
                         ELSE [pc |-> "unpublish", todo |-> Tail(LiveOp.todo)]]
        /\ UNCHANGED <<live_inflight, live_retired, live_pending, live_next_write,
                       live_fifo, live_clean_count, live_next_cache, live_held>>
    BY <1>11 DEF Live!Unpublish, Live!RemoveIf, Live!IsFlushedEntry, Live!logVars,
                 Live!cleanVars, Live!DirtyRef, DirtyRef, Live!NoRef, NoRef, Live!Idle, LiveOp
  <2>2. Marking(Len(todo))
    BY <2>1, PhaseOfCall
  <2> QED
    BY <1>1, <2>1, <2>2
<1> QED
  BY <1>1, <1>3, <1>4, <1>5, <1>6, <1>7, <1>8, <1>9, <1>10, <1>11
     DEF Live!Continue, Live!InsertDirty, Live!InsertClean

(***************************************************************************)
(* Between calls.                                                          *)
(***************************************************************************)

\* The core's types, where the proofs below need them.
LEMMA CoreTypes ==
  ASSUME IInv
  PROVE  /\ next_write \in Nat /\ next_write <= MaxWrite
         /\ next_cache \in Nat /\ next_cache <= MaxCache
         /\ flushed \in Seq(WriteId) /\ dirty_q \in Seq(WriteId)
         /\ visible \in [Key -> VisibleRef]
BY MaxWriteAssumption, MaxCacheAssumption DEF IInv, TypeOK

\* Between calls nothing is left to do, and all counters and references agree.
LEMMA AtRest ==
  ASSUME IInv, InStep, Quiet
  PROVE  /\ todo = <<>> /\ LiveOp = [pc |-> "idle"]
         /\ Marking(Len(todo)) /\ CaughtUp /\ SameCounters
         /\ Len(LiveLog) = next_write
         /\ live_visible = visible /\ live_visible = WithoutOlder(Len(live_retired))
<1>0. todo = <<>> /\ LiveOp.pc = "idle" /\ LiveTypeOK
  BY DEF Quiet, Live!Quiet, LiveOp, InStep, Together
<1>1. LiveOp = [pc |-> "idle"]
  BY <1>0, PhaseOfCall
<1>2. Marking(Len(todo))
  <2>1. ~\E k \in Key : Writing(k) \/ Filling(k)
    BY <1>0, HeadOfPhase
  <2>2. ~\E id \in CacheId : Forgetting(id)
    BY <1>0, HeadOfPhase
  <2> QED
    BY <2>1, <2>2 DEF InStep, Together
<1> DEFINE R == Len(live_retired)
<1>3. /\ CoreHas(R - 0 \div 2, R - (0 + 1) \div 2)
      /\ live_visible = WithoutOlder(R)
      /\ SameCounters /\ Len(LiveLog) = next_write
  <2>1. Len(todo) = 0
    BY <1>0
  <2> QED
    BY <1>0, <1>2, <2>1 DEF Marking
<1>4. CaughtUp
  <2>1. R \in Nat
    BY <1>0 DEF LiveTypeOK
  <2>2. R - 0 \div 2 = R /\ R - (0 + 1) \div 2 = R
    BY <2>1
  <2> QED
    BY <1>3, <2>2 DEF CaughtUp
<1>5. live_visible = visible
  <2>1. visible \in [Key -> VisibleRef]
    BY CoreTypes
  <2>2. ASSUME NEW k \in Key, visible[k].kind = "Dirty"
        PROVE  ~(visible[k].id < R)
    <3>1. write_store[visible[k].id].present
      BY <2>2 DEF IInv, VisibleDirtyIsLast
    <3>2. visible[k].id \in WriteId
      BY <2>2, RefKinds DEF IInv
    <3>3. R <= visible[k].id
      BY <1>4, <3>1, <3>2 DEF CaughtUp, CoreHas
    <3>4. R \in Nat /\ visible[k].id \in Nat
      BY <1>0, <3>2, MaxWriteAssumption DEF LiveTypeOK, WriteId
    <3> QED
      BY <3>3, <3>4
  <2>3. WithoutOlder(R) = visible
    BY <2>1, <2>2 DEF WithoutOlder
  <2> QED
    BY <1>3, <2>3
<1> QED
  BY <1>0, <1>1, <1>2, <1>3, <1>4, <1>5

\* A clean reference whose record the core holds is at the key of the record.
LEMMA CleanUnique ==
  ASSUME IInv, NEW k \in Key, NEW j \in Key, NEW id \in CacheId,
         visible[k] = CleanRef(id), visible[j] = CleanRef(id), cache_store[id].present
  PROVE  k = j
BY DEF IInv, CleanIsDurable, CleanRef

\* A step that adds nothing to the log, on either side.
LEMMA HistoryKept ==
  ASSUME SameHistory, UNCHANGED <<next_write, write_hist>>, LiveLog' = LiveLog
  PROVE  SameHistory'
BY DEF SameHistory

\* The harness goes on holding the batch of a queue nothing touches.
LEMMA BatchKept ==
  ASSUME BatchHeld, UNCHANGED <<batch, live_inflight, live_held>>,
         misuse' = "mark" <=> misuse = "mark"
  PROVE  BatchHeld'
BY DEF BatchHeld, Ids

\* A call that begins leaves the clean records of the core as they are.
LEMMA CleanKept ==
  ASSUME SameClean, todo = <<>>, UNCHANGED <<cache_store, visible, next_cache>>,
         \A id \in CacheId : id < next_cache => copied'[id] = copied[id]
  PROVE  SameClean'
BY DEF SameClean, Upcoming

\* A step away from the clean entries.
LEMMA AccountsKept ==
  ASSUME LiveTypeOK, CleanAccounts, Live!VisibleClean' = Live!VisibleClean,
         UNCHANGED <<live_clean_count, live_fifo, live_next_cache>>,
         LiveOp.pc \in {"idle", "append", "publish", "unpublish"},
         LiveOp'.pc \in {"idle", "append", "publish", "unpublish"}
  PROVE  CleanAccounts'
<1>1. /\ IsFiniteSet(Live!VisibleClean)
      /\ live_clean_count = Cardinality(Live!VisibleClean) + 0 - 0
      /\ Cardinality(Live!VisibleClean) + 0 <= live_next_cache
      /\ Len(live_fifo) + 0 <= live_next_cache
      /\ live_next_cache <= MaxCache
  BY DEF CleanAccounts
<1> QED
  BY <1>1 DEF CleanAccounts

\* The parts of the live log.
LEMMA LiveLogParts ==
  ASSUME LiveTypeOK
  PROVE  /\ LiveQueue \in Seq(LiveRecord) /\ LiveLog \in Seq(LiveRecord)
         /\ Len(live_retired) \in Nat /\ Len(live_inflight) \in Nat
         /\ Len(live_pending) \in Nat
         /\ Len(LiveQueue) = Len(live_inflight) + Len(live_pending)
         /\ Len(LiveLog) = Len(live_retired) + Len(LiveQueue)
         /\ \A i \in 1 .. Len(live_retired) : LiveLog[i] = live_retired[i]
         /\ \A i \in 1 .. Len(LiveQueue) : LiveLog[Len(live_retired) + i] = LiveQueue[i]
<1>1. /\ live_pending \in Seq(LiveRecord) /\ live_inflight \in Seq(LiveRecord)
      /\ live_retired \in Seq(LiveRecord)
  BY DEF LiveTypeOK
<1>2. LiveQueue \in Seq(LiveRecord) /\ Len(LiveQueue) = Len(live_inflight) + Len(live_pending)
  BY <1>1, ConcatProperties DEF LiveQueue
<1>3. /\ LiveLog \in Seq(LiveRecord) /\ Len(LiveLog) = Len(live_retired) + Len(LiveQueue)
      /\ \A i \in 1 .. Len(live_retired) + Len(LiveQueue) :
           LiveLog[i] = IF i <= Len(live_retired) THEN live_retired[i]
                        ELSE LiveQueue[i - Len(live_retired)]
  <2>1. LiveLog = live_retired \o LiveQueue
    BY DEF LiveLog
  <2>2. live_retired \in Seq(LiveRecord) /\ LiveQueue \in Seq(LiveRecord)
    BY <1>1, <1>2
  <2> QED
    BY <2>1, <2>2, ConcatProperties
<1>4. /\ Len(live_retired) \in Nat /\ Len(live_inflight) \in Nat /\ Len(live_pending) \in Nat
      /\ Len(LiveQueue) \in Nat
  BY <1>1, <1>2
<1>5. \A i \in 1 .. Len(live_retired) : LiveLog[i] = live_retired[i]
  BY <1>3, <1>4
<1>6. \A i \in 1 .. Len(LiveQueue) : LiveLog[Len(live_retired) + i] = LiveQueue[i]
  BY <1>3, <1>4
<1> QED
  BY <1>2, <1>3, <1>4, <1>5, <1>6

(***************************************************************************)
(* The calls of the harness.                                               *)
(***************************************************************************)

\* An insert_dirty begins: the live map takes an id, and the write the core
\* is to apply waits.
LEMMA InsertDirtyInv ==
  ASSUME IInv, InStep, misuse = "none", NEW k \in Key, InsertDirty(k)
  PROVE  InStep'
<1>1. /\ Quiet /\ UNCHANGED <<vars, copied, batch, misuse>>
      /\ todo' = <<WriteOf(k, next_write)>> \o Forget(visible[k])
      /\ live_next_write < MaxWrite /\ live_next_write' = live_next_write + 1
      /\ live_op' = [live_op EXCEPT ![harness] =
                       [pc |-> "append", key |-> k, id |-> live_next_write]]
      /\ UNCHANGED <<live_visible, live_pending, live_inflight, live_retired, live_fifo,
                     live_clean_count, live_next_cache, live_held>>
  BY DEF InsertDirty, Ready, Live!TakeWriteId, Live!logVars, Live!cleanVars
<1>2. /\ todo = <<>> /\ LiveOp = [pc |-> "idle"] /\ CaughtUp /\ SameCounters
      /\ Len(LiveLog) = next_write /\ live_visible = visible
  BY <1>1, AtRest
<1>3. LiveTypeOK /\ live_next_write = next_write /\ next_write \in WriteId
  BY <1>1, <1>2, CoreTypes, MaxWriteAssumption DEF InStep, Together, SameCounters, WriteId
<1> DEFINE x == [pc |-> "append", key |-> k, id |-> next_write]
<1>4. LiveOp' = x /\ live_op' \in [{harness} -> LiveOpType]
  <2>1. x \in LiveOpType
    BY <1>3 DEF LiveOpType
  <2> HIDE DEF x
  <2>2. live_op' = [live_op EXCEPT ![harness] = x]
    BY <1>1, <1>3 DEF x
  <2> QED
    BY <1>3, <2>1, <2>2, OpMoves
<1>5. LiveTypeOK'
  BY <1>1, <1>3, <1>4 DEF LiveTypeOK
<1>6. LiveLog' = LiveLog /\ Live!VisibleClean' = Live!VisibleClean
  BY <1>1 DEF LiveLog, LiveQueue, Live!VisibleClean
<1>7. SameHistory'
  BY <1>1, <1>6, HistoryKept DEF InStep, Together, vars
<1>8. BatchHeld'
  BY <1>1, BatchKept DEF InStep, Together
<1>9. SameClean'
  BY <1>1, <1>2, CleanKept DEF InStep, Together, vars
<1>10. CleanAccounts'
  BY <1>1, <1>2, <1>3, <1>4, <1>6, AccountsKept DEF InStep, Together
<1>11. Writing(k)'
  <2>1. CaughtUp'
    BY <1>1, <1>2 DEF CaughtUp, CoreHas, vars
  <2>2. todo' = (<<WriteOf(k, next_write)>> \o Forget(visible[k]))'
    BY <1>1 DEF WriteOf, Forget, vars
  <2>3. live_next_write' = next_write' + 1 /\ live_next_cache' = next_cache'
    BY <1>1, <1>2, <1>3 DEF SameCounters, vars
  <2>4. next_write' < MaxWrite /\ Len(LiveLog)' = next_write' /\ live_visible' = visible'
    BY <1>1, <1>2, <1>3, <1>6 DEF vars
  <2>5. LiveOp' = [pc |-> "append", key |-> k, id |-> next_write']
    BY <1>1, <1>4 DEF vars
  <2> QED
    BY <2>1, <2>2, <2>3, <2>4, <2>5 DEF Writing
<1>12. ~crashed'
  BY <1>1 DEF InStep, Together, vars
<1> QED
  BY <1>5, <1>7, <1>8, <1>9, <1>10, <1>11, <1>12 DEF InStep, Together

\* A fill begins: the live map takes a clean id, for the copy of the durable
\* value the core is to insert if the key has no entry.
LEMMA InsertCleanInv ==
  ASSUME IInv, InStep, misuse = "none", NEW k \in Key, InsertCleanFromDurable(k)
  PROVE  /\ misuse' = IF visible[k] = NoRef THEN "none" ELSE "fill"
         /\ Together'
         /\ visible[k] = NoRef => Filling(k)'
         /\ visible[k] # NoRef => Refused(k)'
<1>1. /\ Quiet /\ UNCHANGED <<vars, batch>> /\ durable[k].present
      /\ misuse' = IF visible[k] = NoRef THEN "none" ELSE "fill"
      /\ todo' = <<InsertOf(k)>>
      /\ copied' = [copied EXCEPT ![live_next_cache] = durable[k].value]
      /\ live_next_cache < MaxCache /\ live_next_cache' = live_next_cache + 1
      /\ live_op' = [live_op EXCEPT ![harness] =
                       [pc |-> "entry", key |-> k, id |-> live_next_cache]]
      /\ UNCHANGED <<live_visible, live_pending, live_inflight, live_retired, live_fifo,
                     live_clean_count, live_next_write, live_held>>
  BY DEF InsertCleanFromDurable, Ready, Live!TakeCacheId, Live!logVars
<1>2. /\ todo = <<>> /\ LiveOp = [pc |-> "idle"] /\ CaughtUp /\ SameCounters
      /\ Len(LiveLog) = next_write /\ live_visible = visible
  BY <1>1, AtRest
<1>3. LiveTypeOK /\ live_next_cache = next_cache /\ next_cache \in CacheId
  BY <1>1, <1>2, CoreTypes, MaxCacheAssumption DEF InStep, Together, SameCounters, CacheId
<1> DEFINE x == [pc |-> "entry", key |-> k, id |-> next_cache]
<1>4. LiveOp' = x /\ live_op' \in [{harness} -> LiveOpType]
  <2>1. x \in LiveOpType
    BY <1>3 DEF LiveOpType
  <2> HIDE DEF x
  <2>2. live_op' = [live_op EXCEPT ![harness] = x]
    BY <1>1, <1>3 DEF x
  <2> QED
    BY <1>3, <2>1, <2>2, OpMoves
<1>5. copied' \in [CacheId -> Int] /\ copied'[next_cache] = durable[k].value
      /\ \A id \in CacheId : id < next_cache => copied'[id] = copied[id]
  <2>1. durable[k].value \in Value
    <3>1. durable[k] \in DurableValue
      BY <1>1, PresentRecords DEF IInv
    <3> QED
      BY <3>1 DEF DurableValue
  <2>2. durable[k].value \in Int
    BY <2>1, ValueIsWriteId, MaxWriteAssumption DEF WriteId
  <2>3. copied \in [CacheId -> Int]
    BY <1>3 DEF LiveTypeOK
  <2>4. \A id \in CacheId : id < next_cache => id # next_cache
    BY <1>3, MaxCacheAssumption DEF CacheId
  <2> QED
    BY <1>1, <1>3, <2>2, <2>3, <2>4
<1>6. LiveTypeOK'
  BY <1>1, <1>3, <1>4, <1>5 DEF LiveTypeOK
<1>7. LiveLog' = LiveLog /\ Live!VisibleClean' = Live!VisibleClean
  BY <1>1 DEF LiveLog, LiveQueue, Live!VisibleClean
<1>8. SameHistory'
  BY <1>1, <1>7, HistoryKept DEF InStep, Together, vars
<1>9. BatchHeld'
  BY <1>1, BatchKept DEF InStep, Together
<1>10. SameClean'
  BY <1>1, <1>2, <1>5, CleanKept DEF InStep, Together, vars
<1>11. CleanAccounts'
  <2>1. /\ IsFiniteSet(Live!VisibleClean)
        /\ live_clean_count = Cardinality(Live!VisibleClean) + 0 - 0
        /\ Cardinality(Live!VisibleClean) + 0 <= live_next_cache
        /\ Len(live_fifo) + 0 <= live_next_cache
    BY <1>2 DEF InStep, Together, CleanAccounts
  <2>2. Cardinality(Live!VisibleClean) \in Nat /\ Len(live_fifo) \in Nat
    BY <1>3, <2>1, FS_CardinalityType DEF LiveTypeOK
  <2>3. LiveOp'.pc = "entry"
    BY <1>4
  <2>4. /\ live_clean_count' = Cardinality(Live!VisibleClean') + 0 - 0
        /\ Cardinality(Live!VisibleClean') + 1 <= live_next_cache'
        /\ Len(live_fifo') + 1 <= live_next_cache'
        /\ live_next_cache' <= MaxCache
    BY <1>1, <1>3, <1>7, <2>1, <2>2, CoreTypes, MaxCacheAssumption
  <2> QED
    BY <1>7, <2>1, <2>3, <2>4 DEF CleanAccounts
<1>12. /\ CaughtUp' /\ todo' = <<InsertOf(k)>>'
       /\ live_next_write' = next_write' /\ live_next_cache' = next_cache' + 1
       /\ Len(LiveLog)' = next_write' /\ live_visible' = visible'
       /\ LiveOp'.pc = "entry" /\ LiveOp' = [pc |-> "entry", key |-> k, id |-> next_cache']
  <2>1. CaughtUp'
    BY <1>1, <1>2 DEF CaughtUp, CoreHas, vars
  <2>2. todo' = <<InsertOf(k)>>'
    BY <1>1 DEF InsertOf
  <2>3. live_next_write' = next_write' /\ live_next_cache' = next_cache' + 1
    BY <1>1, <1>2, <1>3 DEF SameCounters, vars
  <2>4. Len(LiveLog)' = next_write' /\ live_visible' = visible'
    BY <1>1, <1>2, <1>7 DEF vars
  <2>5. LiveOp' = [pc |-> "entry", key |-> k, id |-> next_cache'] /\ LiveOp'.pc = "entry"
    BY <1>1, <1>4 DEF vars
  <2> QED
    BY <2>1, <2>2, <2>3, <2>4, <2>5
<1>13. ASSUME visible[k] = NoRef PROVE Filling(k)'
  <2>1. Cacheable(k)' /\ (copied[next_cache] = durable[k].value)'
    BY <1>1, <1>5, <1>13 DEF Cacheable, vars
  <2> QED
    BY <1>12, <2>1 DEF Filling
<1>14. ASSUME visible[k] # NoRef PROVE Refused(k)'
  <2>1. visible'[k] # NoRef
    BY <1>1, <1>14 DEF vars
  <2> QED
    BY <1>12, <2>1 DEF Refused, NoRef
<1>15. ~crashed'
  BY <1>1 DEF InStep, Together, vars
<1> QED
  BY <1>1, <1>6, <1>8, <1>9, <1>10, <1>11, <1>13, <1>14, <1>15 DEF Together

\* The counter of clean entries never gets near its width.
LEMMA WrapSmall ==
  ASSUME NEW n \in Nat, n <= MaxCache
  PROVE  Live!Wrap(n) = n
<1>1. CountModulus \in Nat \ {0} /\ n \in 0 .. CountModulus - 1
  BY WidthAssumption, MaxCacheAssumption
<1>2. (CountModulus * 0 + n) % CountModulus = n
  BY <1>1, ModUnique
<1>3. CountModulus * 0 + n = n
  BY <1>1
<1> QED
  BY <1>2, <1>3 DEF Live!Wrap

\* An evict_clean takes the entry away; the counter and the core follow.
LEMMA EvictCleanInv ==
  ASSUME IInv, InStep, misuse = "none", NEW k \in Key, EvictClean(k)
  PROVE  InStep'
<1>1. /\ Quiet /\ UNCHANGED <<vars, copied, batch, misuse>>
      /\ todo' = Forget(visible[k]) /\ live_visible[k].kind = "Clean"
      /\ live_visible' = [live_visible EXCEPT ![k] = NoRef]
      /\ live_op' = [live_op EXCEPT ![harness] = [pc |-> "uncount"]]
      /\ UNCHANGED <<live_next_write, live_pending, live_inflight, live_retired, live_fifo,
                     live_clean_count, live_next_cache, live_held>>
  BY DEF EvictClean, Ready, Live!EvictClean, Live!RemoveIf, Live!logVars, Live!cleanVars,
         Live!NoRef, NoRef
<1>2. /\ todo = <<>> /\ LiveOp = [pc |-> "idle"] /\ CaughtUp /\ SameCounters
      /\ Len(LiveLog) = next_write /\ live_visible = visible
  BY <1>1, AtRest
<1>3. LiveTypeOK /\ visible \in [Key -> VisibleRef]
  BY CoreTypes DEF InStep, Together
<1>4. LiveOp' = [pc |-> "uncount"] /\ live_op' \in [{harness} -> LiveOpType]
  <2>1. [pc |-> "uncount"] \in LiveOpType
    BY DEF LiveOpType
  <2> QED
    BY <1>1, <1>3, <2>1, OpMoves
<1>5. LiveTypeOK'
  <2>1. live_visible' \in [Key -> VisibleRef]
    BY <1>1, <1>3 DEF LiveTypeOK, VisibleRef
  <2> QED
    BY <1>1, <1>3, <1>4, <2>1 DEF LiveTypeOK
<1>6. PICK id \in CacheId : visible[k] = CleanRef(id) /\ id = visible[k].id
  BY <1>1, <1>2, RefKinds DEF IInv
<1>7. live_visible' = WithoutRef(CleanRef(id))
  <2>1. cache_store[id].present
    BY <1>2, <1>6 DEF InStep, Together, SameClean, Upcoming
  <2>2. \A j \in Key : visible[j] = CleanRef(id) <=> j = k
    BY <1>6, <2>1, CleanUnique
  <2>3. live_visible' = [visible EXCEPT ![k] = NoRef]
    BY <1>1, <1>2
  <2> QED
    BY <1>3, <2>2, <2>3 DEF WithoutRef
<1>8. LiveLog' = LiveLog
  BY <1>1 DEF LiveLog, LiveQueue
<1>9. SameHistory'
  BY <1>1, <1>8, HistoryKept DEF InStep, Together, vars
<1>10. BatchHeld'
  BY <1>1, BatchKept DEF InStep, Together
<1>11. SameClean'
  BY <1>1, <1>2, CleanKept DEF InStep, Together, vars
<1>12. CleanAccounts'
  <2> DEFINE V == Live!VisibleClean
  <2>1. /\ IsFiniteSet(V)
        /\ live_clean_count = Cardinality(V) + 0 - 0
        /\ Cardinality(V) + 0 <= live_next_cache
        /\ Len(live_fifo) + 0 <= live_next_cache
        /\ live_next_cache <= MaxCache
    BY <1>2 DEF InStep, Together, CleanAccounts
  <2>2. k \in V
    BY <1>1 DEF Live!VisibleClean
  <2>3. V' = V \ {k}
    BY <1>1, <1>3 DEF Live!VisibleClean, LiveTypeOK, NoRef
  <2> HIDE DEF V
  <2>4. IsFiniteSet(V') /\ Cardinality(V) \in Nat /\ Cardinality(V') = Cardinality(V) - 1
    BY <2>1, <2>2, <2>3, CountDown
  <2>5. LiveOp'.pc = "uncount"
    BY <1>4
  <2>6. live_next_cache \in Nat /\ Len(live_fifo) \in Nat
    BY <1>3 DEF LiveTypeOK
  <2>7. /\ live_clean_count' = Cardinality(V') + 1 - 0
        /\ Cardinality(V') + 0 <= live_next_cache'
        /\ Len(live_fifo') + 0 <= live_next_cache'
        /\ live_next_cache' <= MaxCache
    BY <1>1, <2>1, <2>4, <2>6, MaxCacheAssumption
  <2> QED
    BY <2>4, <2>5, <2>7 DEF CleanAccounts, V
<1>13. Forgetting(id)'
  <2>1. CaughtUp' /\ SameCounters'
    BY <1>1, <1>2 DEF CaughtUp, CoreHas, SameCounters, vars
  <2>2. todo' = <<DropRecord(id), Cleanup(id)>>
    <3>1. visible[k].kind = "Clean"
      BY <1>1, <1>2
    <3> QED
      BY <1>1, <1>6, <3>1, ForgetKinds
  <2>3. Len(LiveLog)' = next_write' /\ live_visible' = WithoutRef(CleanRef(id))'
    BY <1>1, <1>2, <1>7, <1>8 DEF WithoutRef, vars
  <2>4. LiveOp'.pc = "uncount"
    BY <1>4
  <2>5. (DropRecord(id) = DropRecord(id)') /\ Cleanup(id) = Cleanup(id)'
    BY DEF DropRecord, Cleanup
  <2> QED
    BY <2>1, <2>2, <2>3, <2>4, <2>5 DEF Forgetting
<1>14. ~crashed'
  BY <1>1 DEF InStep, Together, vars
<1> QED
  BY <1>5, <1>9, <1>10, <1>11, <1>12, <1>13, <1>14 DEF InStep, Together

\* A new batch takes the oldest pending records, and the log stays the same.
LEMMA BatchTaken ==
  ASSUME LiveTypeOK, live_inflight = <<>>, NEW n \in 1 .. Len(live_pending),
         live_inflight' = SubSeq(live_pending, 1, n),
         live_pending' = SubSeq(live_pending, n + 1, Len(live_pending)),
         live_retired' = live_retired
  PROVE  /\ live_inflight' \in Seq(LiveRecord) /\ live_pending' \in Seq(LiveRecord)
         /\ live_inflight' # <<>> /\ LiveLog' = LiveLog
<1>1. live_pending \in Seq(LiveRecord) /\ n \in 0 .. Len(live_pending)
  BY DEF LiveTypeOK
<1>2. /\ live_inflight' \in Seq(LiveRecord) /\ Len(live_inflight') = n
      /\ live_pending' \in Seq(LiveRecord)
      /\ live_inflight' \o live_pending' = live_pending
  BY <1>1, SplitAt
<1>3. <<>> \o live_pending = live_pending
  BY <1>1, ConcatEmptySeq
<1>4. LiveQueue' = LiveQueue
  BY <1>2, <1>3 DEF LiveQueue
<1>5. live_inflight' # <<>>
  <2>1. n # 0
    OBVIOUS
  <2> QED
    BY <1>2, <2>1
<1> QED
  BY <1>2, <1>4, <1>5 DEF LiveLog

\* A flush_batch only moves records from the queue to the batch, which the
\* harness holds unless it got them without asking.
LEMMA LiveFlushInv ==
  ASSUME IInv, InStep, Quiet, NEW limit \in Limit, LiveFlush(limit),
         UNCHANGED <<vars, copied, todo>>,
         batch' = IF misuse' = "mark" THEN <<>> ELSE Ids(live_held'[harness]),
         misuse' = "mark" => live_held'[harness] # <<>>
  PROVE  InStep'
<1>1. UNCHANGED <<live_visible, live_next_write, live_fifo, live_clean_count,
                  live_next_cache, live_op>>
  BY DEF LiveFlush, Live!FlushAgain, Live!FlushNew, Live!FlushNothing, Live!cleanVars
<1>2. /\ todo = <<>> /\ LiveOp = [pc |-> "idle"] /\ Marking(Len(todo)) /\ CaughtUp
      /\ SameCounters /\ Len(LiveLog) = next_write
  BY <1>1, AtRest
<1>3. LiveTypeOK
  BY DEF InStep, Together
<1>4. /\ live_inflight' \in Seq(LiveRecord) /\ live_pending' \in Seq(LiveRecord)
      /\ live_retired' = live_retired /\ LiveLog' = LiveLog
      /\ live_held' = [live_held EXCEPT ![harness] = live_inflight']
  <2>1. CASE Live!FlushAgain(harness)
    <3>1. UNCHANGED <<live_pending, live_inflight, live_retired>>
      BY <2>1 DEF Live!FlushAgain, Live!logVars
    <3>2. live_held' = [live_held EXCEPT ![harness] = live_inflight]
      BY <2>1 DEF Live!FlushAgain
    <3> QED
      BY <1>3, <3>1, <3>2 DEF LiveTypeOK, LiveLog, LiveQueue
  <2>2. CASE Live!FlushNew(harness, limit)
    <3>1. PICK n : /\ n \in 1 .. Len(live_pending) /\ live_inflight = <<>>
                   /\ live_inflight' = SubSeq(live_pending, 1, n)
                   /\ live_pending' = SubSeq(live_pending, n + 1, Len(live_pending))
                   /\ live_retired' = live_retired
      BY <2>2 DEF Live!FlushNew, Live!Dirty!Take
    <3>2. live_held' = [live_held EXCEPT ![harness] = live_inflight']
      BY <2>2 DEF Live!FlushNew
    <3> QED
      BY <1>3, <3>1, <3>2, BatchTaken
  <2>3. CASE Live!FlushNothing(harness)
    <3>1. UNCHANGED <<live_pending, live_inflight, live_retired>>
      BY <2>3 DEF Live!FlushNothing, Live!logVars
    <3>2. live_held' = [live_held EXCEPT ![harness] = live_inflight]
      BY <2>3 DEF Live!FlushNothing
    <3> QED
      BY <1>3, <3>1, <3>2 DEF LiveTypeOK, LiveLog, LiveQueue
  <2> QED
    BY <2>1, <2>2, <2>3 DEF LiveFlush
<1>5. LiveTypeOK'
  <2>1. live_held' \in [{harness} -> Seq(LiveRecord)]
    BY <1>3, <1>4 DEF LiveTypeOK
  <2> QED
    BY <1>1, <1>3, <1>4, <2>1 DEF LiveTypeOK
<1>6. LiveOp' = LiveOp /\ Live!VisibleClean' = Live!VisibleClean
  BY <1>1 DEF LiveOp, Live!VisibleClean
<1>7. SameHistory'
  BY <1>1, <1>4, HistoryKept DEF InStep, Together, vars
<1>8. BatchHeld'
  <2>1. live_held'[harness] = live_inflight'
    BY <1>3, <1>4 DEF LiveTypeOK
  <2> QED
    BY <1>1, <2>1 DEF BatchHeld, Ids
<1>9. SameClean'
  BY <1>1, <1>2, CleanKept DEF InStep, Together, vars
<1>10. CleanAccounts'
  BY <1>1, <1>2, <1>3, <1>6, AccountsKept DEF InStep, Together
<1>11. Marking(Len(todo))'
  BY <1>1, <1>2, <1>4, <1>6 DEF Marking, MarkSteps, CoreHas, WithoutOlder, SameCounters, vars
<1>12. ~crashed'
  BY <1>1 DEF InStep, Together, vars
<1> QED
  BY <1>5, <1>7, <1>8, <1>9, <1>10, <1>11, <1>12 DEF InStep, Together

\* A flush_batch of the harness.
LEMMA FlushBatchInv ==
  ASSUME IInv, InStep, NEW limit \in Limit, FlushBatch(limit)
  PROVE  InStep'
<1>1. /\ Quiet /\ LiveFlush(limit) /\ misuse' = "none"
      /\ batch' = Ids(live_held'[harness]) /\ UNCHANGED <<vars, copied, todo>>
  BY DEF FlushBatch, Ready
<1> QED
  BY <1>1, LiveFlushInv

\* A mark_flushed without a batch in flight gets as far as its flush_batch.
LEMMA MarkNothingInv ==
  ASSUME IInv, InStep, NEW limit \in Limit, MarkNothing(limit)
  PROVE  InStep'
<1>1. /\ Quiet /\ LiveFlush(limit) /\ batch' = <<>> /\ UNCHANGED <<vars, copied, todo>>
      /\ misuse' = IF live_held'[harness] = <<>> THEN "none" ELSE "mark"
  BY DEF MarkNothing, Ready
<1>2. Ids(<<>>) = <<>>
  BY DEF Ids
<1>3. /\ misuse' = "mark" => live_held'[harness] # <<>>
      /\ misuse' # "mark" => live_held'[harness] = <<>>
  BY <1>1
<1>4. batch' = IF misuse' = "mark" THEN <<>> ELSE Ids(live_held'[harness])
  BY <1>1, <1>2, <1>3
<1> QED
  BY <1>1, <1>3, <1>4, LiveFlushInv

\* The steps a mark gives the core are those of a mark with all of them left.
LEMMA FlushAndDropIsMark ==
  ASSUME NEW B \in Nat, NEW R \in Nat, NEW ids, Len(ids) = B,
         \A q \in 1 .. B : ids[q] = R + q - 1, Len(live_retired') = R + B
  PROVE  /\ FlushAndDrop(ids) = MarkSteps(2 * B)'
         /\ Len(FlushAndDrop(ids)) = 2 * B
<1> DEFINE Left(i) == IF i % 2 = 1 THEN [action |-> "FlusherFlushNext"]
                      ELSE [action |-> "FlusherDrop", id |-> ids[i \div 2]]
           Right(i) == IF (2 * B - i) % 2 = 1 THEN [action |-> "FlusherFlushNext"]
                       ELSE [action |-> "FlusherDrop",
                             id |-> Len(live_retired') - 1 - (2 * B - i) \div 2]
<1>1. FlushAndDrop(ids) = [i \in 1 .. 2 * B |-> Left(i)]
  BY DEF FlushAndDrop
<1>2. MarkSteps(2 * B)' = [i \in 1 .. 2 * B |-> Right(i)]
  BY DEF MarkSteps
<1>3. ASSUME NEW i \in 1 .. 2 * B PROVE Left(i) = Right(i)
  <2>1. PICK q \in Nat : i = 2 * q \/ i = 2 * q + 1
    <3>1. i \div 2 \in Nat /\ (i = 2 * (i \div 2) \/ i = 2 * (i \div 2) + 1)
      OBVIOUS
    <3> QED
      BY <3>1
  <2>2. CASE i = 2 * q
    <3>1. i % 2 = 0 /\ (2 * B - i) % 2 = 0 /\ i \div 2 = q /\ (2 * B - i) \div 2 = B - q
      BY <2>2
    <3>2. q \in 1 .. B
      BY <2>2
    <3>3. Left(i) = [action |-> "FlusherDrop", id |-> ids[q]]
      BY <3>1
    <3>4. Right(i) = [action |-> "FlusherDrop", id |-> Len(live_retired') - 1 - (B - q)]
      BY <3>1
    <3>5. ids[q] = Len(live_retired') - 1 - (B - q)
      BY <3>2
    <3> QED
      BY <3>3, <3>4, <3>5
  <2>3. CASE i = 2 * q + 1
    <3>1. i % 2 = 1 /\ (2 * B - i) % 2 = 1
      BY <2>3
    <3> QED
      BY <3>1
  <2> QED
    BY <2>1, <2>2, <2>3
<1> HIDE DEF Left, Right
<1>4. [i \in 1 .. 2 * B |-> Left(i)] = [i \in 1 .. 2 * B |-> Right(i)]
  BY <1>3
<1>5. Len([i \in 1 .. 2 * B |-> Left(i)]) = 2 * B
  OBVIOUS
<1> QED
  BY <1>1, <1>2, <1>4, <1>5

\* A mark_flushed retires the batch: from here there are twice its length of
\* core steps to take.
LEMMA MarkInFlightInv ==
  ASSUME IInv, InStep, misuse = "none", MarkInFlight
  PROVE  InStep'
<1>0. PICK R \in Nat, B \in Nat : R = Len(live_retired) /\ B = Len(live_inflight)
  BY DEF InStep, Together, LiveTypeOK
<1>1. /\ Quiet /\ UNCHANGED <<vars, copied, misuse>> /\ batch' = <<>>
      /\ todo' = FlushAndDrop(Ids(live_held[harness]))
      /\ live_inflight # <<>> /\ live_inflight' = <<>>
      /\ live_retired' = live_retired \o live_inflight
      /\ live_op' = [live_op EXCEPT ![harness] =
                       [pc |-> "unpublish", todo |-> live_held[harness]]]
      /\ UNCHANGED <<live_pending, live_visible, live_next_write, live_fifo,
                     live_clean_count, live_next_cache, live_held>>
  BY DEF MarkInFlight, Ready, Live!MarkFlushed, Live!Dirty!Retire, Live!cleanVars
<1>2. /\ todo = <<>> /\ LiveOp = [pc |-> "idle"] /\ CaughtUp /\ SameCounters
      /\ Len(LiveLog) = next_write /\ live_visible = visible
      /\ live_visible = WithoutOlder(R)
  BY <1>0, <1>1, AtRest
<1>3. LiveTypeOK /\ SameHistory
  BY DEF InStep, Together
<1>4. live_held[harness] = live_inflight
  BY <1>1 DEF InStep, Together, BatchHeld
<1>5. /\ live_inflight \in Seq(LiveRecord) \ {<<>>} /\ live_retired \in Seq(LiveRecord)
      /\ live_pending \in Seq(LiveRecord) /\ B \in Nat \ {0} /\ R \in Nat
  <2>1. /\ live_inflight \in Seq(LiveRecord) \ {<<>>} /\ live_retired \in Seq(LiveRecord)
        /\ live_pending \in Seq(LiveRecord)
    BY <1>1, <1>3 DEF LiveTypeOK
  <2>2. B # 0
    BY <1>0, <2>1
  <2> QED
    BY <2>1, <2>2
<1>6. live_retired' \in Seq(LiveRecord) /\ Len(live_retired') = R + B
  BY <1>0, <1>1, <1>5, ConcatProperties
<1>7. LiveLog' = LiveLog
  <2>1. <<>> \o live_pending = live_pending
    BY <1>5, ConcatEmptySeq
  <2>2. (live_retired \o live_inflight) \o live_pending
          = live_retired \o (live_inflight \o live_pending)
    BY <1>5, ConcatAssociative
  <2> QED
    BY <1>1, <2>1, <2>2 DEF LiveLog, LiveQueue
<1> DEFINE x == [pc |-> "unpublish", todo |-> live_inflight]
<1>8. LiveOp' = x /\ live_op' \in [{harness} -> LiveOpType]
  <2>1. x \in LiveOpType
    BY <1>5 DEF LiveOpType
  <2> HIDE DEF x
  <2>2. live_op' = [live_op EXCEPT ![harness] = x]
    BY <1>1, <1>4 DEF x
  <2> QED
    BY <1>3, <2>1, <2>2, OpMoves
<1>9. LiveTypeOK'
  <2>1. live_inflight' \in Seq(LiveRecord)
    BY <1>1
  <2> QED
    BY <1>1, <1>3, <1>6, <1>8, <2>1 DEF LiveTypeOK
<1>10. SameHistory'
  BY <1>1, <1>3, <1>7, HistoryKept DEF vars
<1>11. BatchHeld'
  <2>1. Ids(<<>>) = <<>>
    BY DEF Ids
  <2> QED
    BY <1>1, <2>1 DEF BatchHeld, Ids
<1>12. SameClean'
  BY <1>1, <1>2, CleanKept DEF InStep, Together, vars
<1>13. CleanAccounts'
  <2>1. Live!VisibleClean' = Live!VisibleClean
    BY <1>1 DEF Live!VisibleClean
  <2> QED
    BY <1>1, <1>2, <1>3, <1>8, <2>1, AccountsKept DEF InStep, Together
<1>14. todo' = MarkSteps(2 * B)' /\ Len(todo') = 2 * B
  <2>1. /\ Len(Ids(live_inflight)) = B
        /\ \A q \in 1 .. B : Ids(live_inflight)[q] = live_inflight[q].id
    BY <1>0, <1>5 DEF Ids
  <2>2. ASSUME NEW q \in 1 .. B PROVE live_inflight[q].id = R + q - 1
    <3>1. LiveQueue[q] = live_inflight[q] /\ q \in 1 .. Len(LiveQueue)
      BY <1>0, <1>5, ConcatProperties DEF LiveQueue
    <3>2. LiveLog[R + q] = live_inflight[q] /\ R + q \in 1 .. Len(LiveLog)
      BY <1>0, <1>3, <1>5, <3>1, LiveLogParts
    <3>3. DOMAIN LiveLog = 1 .. Len(LiveLog)
      BY <1>3, LiveLogParts
    <3> QED
      BY <1>3, <1>5, <3>2, <3>3 DEF SameHistory
  <2>3. \A q \in 1 .. B : Ids(live_inflight)[q] = R + q - 1
    BY <2>1, <2>2
  <2>4. Len(live_retired') = R + B
    BY <1>6
  <2>5. PICK ids : ids = Ids(live_inflight)
    OBVIOUS
  <2>6. todo' = FlushAndDrop(ids)
    BY <1>1, <1>4, <2>5
  <2>7. /\ FlushAndDrop(ids) = MarkSteps(2 * B)'
        /\ Len(FlushAndDrop(ids)) = 2 * B
    BY <1>0, <2>1, <2>3, <2>4, <2>5, FlushAndDropIsMark
  <2> QED
    BY <2>6, <2>7
<1>15. Marking(Len(todo))'
  <2>1. (R + B) - (2 * B) \div 2 = R /\ (R + B) - (2 * B + 1) \div 2 = R
    BY <1>5
  <2>2. CoreHas((R + B) - (2 * B) \div 2, (R + B) - (2 * B + 1) \div 2)'
    BY <1>0, <1>1, <1>2, <2>1 DEF CaughtUp, CoreHas, vars
  <2>3. SubSeq(live_retired', R + 1, R + B) = live_inflight
    <3>1. SubSeq(live_retired \o live_inflight, Len(live_retired) + 1,
                 Len(live_retired \o live_inflight)) = live_inflight
      BY <1>5, SplitConcat
    <3>2. Len(live_retired) = R /\ Len(live_retired \o live_inflight) = R + B
      BY <1>0, <1>1, <1>6
    <3> QED
      BY <1>1, <3>1, <3>2
  <2>4. LiveOp'.pc = "unpublish" /\ LiveOp'.todo = live_inflight
    BY <1>8
  <2>5. (R + B) - B = R /\ R >= 0
    BY <1>5
  <2>6. live_visible' = WithoutOlder(R)'
    BY <1>1, <1>2 DEF WithoutOlder, vars
  <2>7. SameCounters' /\ Len(LiveLog)' = next_write'
    BY <1>1, <1>2, <1>7 DEF SameCounters, vars
  <2>8. B = Len(live_inflight) /\ Len(live_retired') = R + B
    BY <1>0, <1>6
  <2> QED
    BY <1>14, <2>2, <2>3, <2>4, <2>5, <2>6, <2>7, <2>8 DEF Marking
<1>16. ~crashed'
  BY <1>1 DEF InStep, Together, vars
<1> QED
  BY <1>9, <1>10, <1>11, <1>12, <1>13, <1>15, <1>16 DEF InStep, Together

(***************************************************************************)
(* The steps of the live map within a call.                                *)
(***************************************************************************)

\* What no step of the live map within a call disturbs.
LEMMA LiveStepKeeps ==
  ASSUME Together, UNCHANGED <<vars, copied, todo, batch, misuse, live_inflight, live_held>>
  PROVE  ~crashed' /\ BatchHeld' /\ SameClean'
<1>1. ~crashed'
  BY DEF InStep, Together, vars
<1>2. BatchHeld'
  BY BatchKept DEF InStep, Together
<1>3. SameClean'
  BY DEF InStep, Together, SameClean, Upcoming, vars
<1> QED
  BY <1>1, <1>2, <1>3

\* A record appended to the live log is the one the core is about to write.
LEMMA AppendInv ==
  ASSUME IInv, InStep, NEW k \in Key, Writing(k),
         LiveOp = [pc |-> "append", key |-> k, id |-> next_write],
         live_pending' = Append(live_pending, [id |-> next_write, key |-> k]),
         live_op' = [live_op EXCEPT ![harness] =
                      [pc |-> "publish", key |-> k, id |-> next_write]],
         UNCHANGED <<vars, copied, todo, batch, misuse, live_next_write, live_inflight,
                     live_retired, live_next_cache, live_held,
                     live_visible, live_fifo, live_clean_count>>
  PROVE  InStep'
<1> DEFINE r == [id |-> next_write, key |-> k]
           x == [pc |-> "publish", key |-> k, id |-> next_write]
<1>1. LiveTypeOK /\ SameHistory
  BY DEF InStep, Together
<1>2. /\ next_write \in WriteId /\ next_write \in Nat /\ Len(LiveLog) = next_write
      /\ live_visible = visible
  <2>1. Len(LiveLog) = next_write /\ live_visible = visible /\ next_write < MaxWrite
    BY DEF Writing
  <2> QED
    BY <2>1, CoreTypes, MaxWriteAssumption DEF WriteId
<1>3. r \in LiveRecord /\ x \in LiveOpType
  BY <1>2 DEF LiveRecord, LiveOpType
<1>4. LiveOp' = x /\ live_op' \in [{harness} -> LiveOpType]
  <2> HIDE DEF x
  <2>1. live_op' = [live_op EXCEPT ![harness] = x]
    BY DEF x
  <2> QED
    BY <1>1, <1>3, <2>1, OpMoves
<1>5. LiveTypeOK'
  <2>1. live_pending' \in Seq(LiveRecord)
    BY <1>1, <1>3 DEF LiveTypeOK
  <2> QED
    BY <1>1, <1>4, <2>1 DEF LiveTypeOK
<1>6. LiveLog' = Append(LiveLog, r)
  <2> HIDE DEF r
  <2>1. live_pending' = Append(live_pending, r)
    BY DEF r
  <2>2. /\ live_pending \in Seq(LiveRecord) /\ live_inflight \in Seq(LiveRecord)
        /\ live_retired \in Seq(LiveRecord) /\ LiveQueue \in Seq(LiveRecord)
    BY <1>1, LiveLogParts DEF LiveTypeOK
  <2>3. LiveQueue' = Append(LiveQueue, r)
    BY <1>3, <2>1, <2>2, ConcatAppend DEF LiveQueue
  <2> QED
    BY <1>3, <2>2, <2>3, ConcatAppend DEF LiveLog
<1>7. /\ LiveLog \in Seq(LiveRecord) /\ Len(LiveLog') = next_write + 1
      /\ LiveLog'[next_write + 1] = r
      /\ \A i \in 1 .. next_write : LiveLog'[i] = LiveLog[i]
      /\ DOMAIN LiveLog' = 1 .. next_write + 1 /\ DOMAIN LiveLog = 1 .. next_write
  <2> HIDE DEF r
  <2>1. LiveLog \in Seq(LiveRecord)
    BY <1>1, LiveLogParts
  <2> QED
    BY <1>2, <1>3, <1>6, <2>1, AppendProperties
<1>8. SameHistory'
  <2>1. \A i \in 1 .. next_write : LiveLog[i].id = i - 1
    BY <1>1, <1>7 DEF SameHistory
  <2>2. \A id \in 0 .. next_write - 1 : write_hist[id] = Record(id, LiveLog[id + 1].key, id)
    BY <1>1 DEF SameHistory
  <2>3. ASSUME NEW i \in 1 .. next_write + 1 PROVE LiveLog'[i].id = i - 1
    <3>1. CASE i = next_write + 1
      <4>1. LiveLog'[i] = r /\ r.id = next_write /\ i - 1 = next_write
        BY <1>2, <1>7, <3>1
      <4> QED
        BY <4>1
    <3>2. CASE i # next_write + 1
      <4>1. i \in 1 .. next_write
        BY <1>2, <3>2
      <4> HIDE DEF r
      <4>2. LiveLog'[i] = LiveLog[i] /\ LiveLog[i].id = i - 1
        BY <1>7, <2>1, <4>1
      <4> QED
        BY <4>2
    <3> QED
      BY <3>1, <3>2
  <2>4. \A id \in 0 .. next_write - 1 : write_hist[id] = Record(id, LiveLog'[id + 1].key, id)
    BY <1>2, <1>7, <2>2
  <2>5. next_write' = next_write /\ write_hist' = write_hist /\ next_write <= next_write + 1
    BY <1>2 DEF vars
  <2> HIDE DEF r
  <2> QED
    BY <1>7, <2>3, <2>4, <2>5 DEF SameHistory
<1>9. CleanAccounts'
  <2>1. Live!VisibleClean' = Live!VisibleClean
    BY DEF Live!VisibleClean
  <2> QED
    BY <1>1, <1>4, <2>1, AccountsKept DEF InStep, Together
<1>10. Writing(k)'
  <2>1. /\ CaughtUp /\ todo = <<WriteOf(k, next_write)>> \o Forget(visible[k])
        /\ live_next_write = next_write + 1 /\ live_next_cache = next_cache
        /\ next_write < MaxWrite
    BY DEF Writing
  <2>2. CaughtUp'
    BY <2>1 DEF CaughtUp, CoreHas, vars
  <2>3. todo' = (<<WriteOf(k, next_write)>> \o Forget(visible[k]))'
    BY <2>1 DEF WriteOf, Forget, vars
  <2>4. /\ live_next_write' = next_write' + 1 /\ live_next_cache' = next_cache'
        /\ next_write' < MaxWrite /\ live_visible' = visible' /\ next_write' = next_write
    BY <1>2, <2>1 DEF vars
  <2>5. LiveLog'[next_write + 1].key = k
    BY <1>7
  <2> QED
    BY <1>4, <1>7, <2>2, <2>3, <2>4, <2>5 DEF Writing
<1> QED
  BY <1>5, <1>8, <1>9, <1>10, LiveStepKeeps DEF InStep, Together

\* The new entry replaces any other; a clean one is uncounted.
LEMMA PublishInv ==
  ASSUME IInv, InStep, NEW k \in Key, Writing(k),
         LiveOp = [pc |-> "publish", key |-> k, id |-> next_write],
         live_visible' = [live_visible EXCEPT ![k] = DirtyRef(next_write)],
         live_clean_count' = IF live_visible[k].kind = "Clean"
                             THEN Live!Wrap(live_clean_count - 1)
                             ELSE live_clean_count,
         live_op' = [live_op EXCEPT ![harness] = [pc |-> "idle"]],
         UNCHANGED <<vars, copied, todo, batch, misuse, live_next_write, live_inflight,
                     live_retired, live_next_cache, live_held, live_pending, live_fifo>>
  PROVE  InStep'
<1>1. LiveTypeOK /\ SameHistory
  BY DEF InStep, Together
<1>2. /\ next_write \in WriteId /\ live_visible = visible
      /\ Len(LiveLog) = next_write + 1 /\ LiveLog[next_write + 1].key = k
  <2>1. next_write < MaxWrite /\ LiveOp.pc = "publish"
    BY DEF Writing
  <2>2. next_write \in WriteId
    BY <2>1, CoreTypes, MaxWriteAssumption DEF WriteId
  <2> QED
    BY <2>1, <2>2 DEF Writing
<1>3. LiveOp' = [pc |-> "idle"] /\ live_op' \in [{harness} -> LiveOpType]
  <2>1. [pc |-> "idle"] \in LiveOpType
    BY DEF LiveOpType
  <2> QED
    BY <1>1, <2>1, OpMoves
<1>4. LiveLog' = LiveLog
  BY DEF LiveLog, LiveQueue
<1> DEFINE V == Live!VisibleClean
<1>5. /\ IsFiniteSet(V)
      /\ live_clean_count = Cardinality(V) + 0 - 0
      /\ Cardinality(V) + 0 <= live_next_cache
      /\ Len(live_fifo) + 0 <= live_next_cache
      /\ live_next_cache <= MaxCache
  BY DEF InStep, Together, CleanAccounts
<1>6. live_next_cache \in Nat /\ Cardinality(V) \in Nat /\ Len(live_fifo) \in Nat
  BY <1>1, <1>5, FS_CardinalityType DEF LiveTypeOK
<1>7. /\ IsFiniteSet(V') /\ Cardinality(V') \in Nat /\ Cardinality(V') <= Cardinality(V)
      /\ live_clean_count' = Cardinality(V')
  <2>1. V' = V \ {k}
    BY <1>1 DEF Live!VisibleClean, LiveTypeOK, DirtyRef
  <2>2. CASE live_visible[k].kind = "Clean"
    <3>1. k \in V
      BY <2>2 DEF Live!VisibleClean
    <3> HIDE DEF V
    <3>2. IsFiniteSet(V') /\ Cardinality(V') = Cardinality(V) - 1
      BY <1>5, <2>1, <3>1, CountDown
    <3>3. Cardinality(V') \in Nat
      BY <3>2, FS_CardinalityType
    <3>4. live_clean_count - 1 = Cardinality(V') /\ Cardinality(V') <= MaxCache
      BY <1>5, <1>6, <3>2, <3>3, MaxCacheAssumption
    <3>5. live_clean_count' = Cardinality(V')
      BY <2>2, <3>3, <3>4, WrapSmall
    <3> QED
      BY <1>6, <3>2, <3>3, <3>5
  <2>3. CASE live_visible[k].kind # "Clean"
    <3>1. k \notin V
      BY <2>3 DEF Live!VisibleClean
    <3> HIDE DEF V
    <3>2. V' = V
      BY <2>1, <3>1
    <3> QED
      BY <1>5, <1>6, <2>3, <3>2
  <2> QED
    BY <2>2, <2>3
<1>8. LiveTypeOK'
  <2>1. live_visible' \in [Key -> VisibleRef]
    BY <1>1, <1>2 DEF LiveTypeOK, VisibleRef
  <2> HIDE DEF V
  <2>2. live_clean_count' \in Int
    BY <1>7
  <2> QED
    BY <1>1, <1>3, <2>1, <2>2 DEF LiveTypeOK
<1>9. SameHistory'
  BY <1>1, <1>4, HistoryKept DEF vars
<1>10. CleanAccounts'
  <2> HIDE DEF V
  <2>1. LiveOp'.pc = "idle"
    BY <1>3
  <2>2. /\ IsFiniteSet(V')
        /\ live_clean_count' = Cardinality(V') + 0 - 0
        /\ Cardinality(V') + 0 <= live_next_cache'
        /\ Len(live_fifo') + 0 <= live_next_cache'
        /\ live_next_cache' <= MaxCache
    BY <1>5, <1>6, <1>7
  <2> QED
    BY <2>1, <2>2 DEF CleanAccounts, V
<1>11. Writing(k)'
  <2>1. /\ CaughtUp /\ todo = <<WriteOf(k, next_write)>> \o Forget(visible[k])
        /\ live_next_write = next_write + 1 /\ live_next_cache = next_cache
        /\ next_write < MaxWrite
    BY DEF Writing
  <2>2. CaughtUp'
    BY <2>1 DEF CaughtUp, CoreHas, vars
  <2>3. todo' = (<<WriteOf(k, next_write)>> \o Forget(visible[k]))'
    BY <2>1 DEF WriteOf, Forget, vars
  <2>4. /\ live_next_write' = next_write' + 1 /\ live_next_cache' = next_cache'
        /\ next_write' < MaxWrite /\ next_write' = next_write
    BY <2>1 DEF vars
  <2>5. live_visible' = [visible' EXCEPT ![k] = DirtyRef(next_write)']
    BY <1>2 DEF vars, DirtyRef
  <2> QED
    BY <1>2, <1>3, <1>4, <2>2, <2>3, <2>4, <2>5 DEF Writing
<1> QED
  BY <1>8, <1>9, <1>10, <1>11, LiveStepKeeps DEF InStep, Together

\* What a step of a fill has in common.
LEMMA FillParts ==
  ASSUME IInv, InStep, NEW k \in Key, Filling(k)
  PROVE  /\ LiveTypeOK /\ SameHistory /\ CaughtUp /\ next_cache \in CacheId
         /\ todo = <<InsertOf(k)>> /\ Cacheable(k) /\ copied[next_cache] = durable[k].value
         /\ live_next_write = next_write /\ live_next_cache = next_cache + 1
         /\ Len(LiveLog) = next_write /\ visible[k] = NoRef
         /\ IsFiniteSet(Live!VisibleClean)
         /\ Cardinality(Live!VisibleClean) \in Nat /\ Len(live_fifo) \in Nat
         /\ live_next_cache \in Nat /\ live_next_cache <= MaxCache
<1>1. /\ LiveTypeOK /\ SameHistory /\ CaughtUp
      /\ todo = <<InsertOf(k)>> /\ Cacheable(k) /\ copied[next_cache] = durable[k].value
      /\ live_next_write = next_write /\ live_next_cache = next_cache + 1
      /\ Len(LiveLog) = next_write
  BY DEF InStep, Together, Filling
<1>2. IsFiniteSet(Live!VisibleClean) /\ live_next_cache <= MaxCache
  BY DEF InStep, Together, CleanAccounts
<1>3. /\ Cardinality(Live!VisibleClean) \in Nat /\ Len(live_fifo) \in Nat
      /\ live_next_cache \in Nat
  BY <1>1, <1>2, FS_CardinalityType DEF LiveTypeOK
<1>4. next_cache \in CacheId
  BY <1>1, <1>2, CoreTypes, MaxCacheAssumption DEF CacheId
<1> QED
  BY <1>1, <1>2, <1>3, <1>4 DEF Cacheable

\* The phase of a fill goes on, at another place of the call.
LEMMA FillGoesOn ==
  ASSUME IInv, InStep, NEW k \in Key, Filling(k),
         UNCHANGED <<vars, copied, todo, live_next_write, live_next_cache,
                     live_retired, live_inflight, live_pending>>,
         LiveOp'.pc \in {"count", "push", "idle"},
         LiveOp'.pc # "idle" => LiveOp' = [pc |-> LiveOp'.pc, key |-> k, id |-> next_cache],
         live_visible' = [visible EXCEPT ![k] = CleanRef(next_cache)]
  PROVE  Filling(k)' /\ SameHistory'
<1>1. /\ SameHistory /\ CaughtUp
      /\ todo = <<InsertOf(k)>> /\ Cacheable(k) /\ copied[next_cache] = durable[k].value
      /\ live_next_write = next_write /\ live_next_cache = next_cache + 1
      /\ Len(LiveLog) = next_write
  BY FillParts
<1>2. LiveLog' = LiveLog
  BY DEF LiveLog, LiveQueue
<1>3. SameHistory'
  BY <1>1, <1>2, HistoryKept DEF vars
<1>4. CaughtUp'
  BY <1>1 DEF CaughtUp, CoreHas, vars
<1> QED
  BY <1>1, <1>2, <1>3, <1>4 DEF Filling, InsertOf, Cacheable, vars, CleanRef

\* The entry goes in: it is there, and not yet counted.
LEMMA VacantInv ==
  ASSUME IInv, InStep, NEW k \in Key, Filling(k),
         LiveOp = [pc |-> "entry", key |-> k, id |-> next_cache],
         live_visible' = [live_visible EXCEPT ![k] = CleanRef(next_cache)],
         live_op' = [live_op EXCEPT ![harness] =
                      [pc |-> "count", key |-> k, id |-> next_cache]],
         UNCHANGED <<vars, copied, todo, batch, misuse, live_next_write, live_inflight,
                     live_retired, live_next_cache, live_held, live_pending,
                     live_fifo, live_clean_count>>
  PROVE  InStep'
<1> DEFINE x == [pc |-> "count", key |-> k, id |-> next_cache]
           V == Live!VisibleClean
<1>1. /\ LiveTypeOK /\ next_cache \in CacheId /\ visible[k] = NoRef
      /\ IsFiniteSet(V) /\ Cardinality(V) \in Nat /\ Len(live_fifo) \in Nat
      /\ live_next_cache \in Nat /\ live_next_cache <= MaxCache
  BY FillParts
<1>2. live_visible = visible /\ live_visible[k] = NoRef
  BY <1>1 DEF Filling
<1>3. LiveOp' = x /\ live_op' \in [{harness} -> LiveOpType]
  <2>1. x \in LiveOpType
    BY <1>1 DEF LiveOpType
  <2> HIDE DEF x
  <2>2. live_op' = [live_op EXCEPT ![harness] = x]
    BY DEF x
  <2> QED
    BY <1>1, <2>1, <2>2, OpMoves
<1>4. LiveTypeOK'
  <2>1. live_visible' \in [Key -> VisibleRef]
    BY <1>1, <1>2 DEF LiveTypeOK, VisibleRef
  <2> HIDE DEF V, x
  <2> QED
    BY <1>1, <1>3, <2>1 DEF LiveTypeOK
<1>5. IsFiniteSet(V') /\ Cardinality(V') = Cardinality(V) + 1
  <2>1. V' = V \cup {k}
    BY <1>1 DEF Live!VisibleClean, LiveTypeOK, CleanRef
  <2>2. k \notin V
    BY <1>2 DEF Live!VisibleClean, NoRef
  <2> HIDE DEF V
  <2> QED
    BY <1>1, <2>1, <2>2, CountUp
<1>6. CleanAccounts'
  <2> HIDE DEF V
  <2>1. /\ live_clean_count = Cardinality(V) + 0 - 0
        /\ Cardinality(V) + 1 <= live_next_cache
        /\ Len(live_fifo) + 1 <= live_next_cache
    BY DEF InStep, Together, CleanAccounts, V
  <2>2. /\ live_clean_count' = Cardinality(V') + 0 - 1
        /\ Cardinality(V') + 0 <= live_next_cache'
        /\ Len(live_fifo') + 1 <= live_next_cache'
        /\ live_next_cache' <= MaxCache
    BY <1>1, <1>5, <2>1
  <2>3. LiveOp'.pc = "count"
    BY <1>3
  <2> HIDE DEF x
  <2> QED
    BY <1>5, <2>2, <2>3 DEF CleanAccounts, V
<1>7. Filling(k)' /\ SameHistory'
  <2>1. LiveOp'.pc = "count" /\ LiveOp' = [pc |-> LiveOp'.pc, key |-> k, id |-> next_cache]
    BY <1>3
  <2> HIDE DEF x
  <2> QED
    BY <1>2, <2>1, FillGoesOn
<1> QED
  BY <1>4, <1>6, <1>7, LiveStepKeeps DEF InStep, Together

\* The entry is counted.
LEMMA CountInv ==
  ASSUME IInv, InStep, NEW k \in Key, Filling(k),
         LiveOp = [pc |-> "count", key |-> k, id |-> next_cache],
         live_clean_count' = Live!Wrap(live_clean_count + 1),
         live_op' = [live_op EXCEPT ![harness] =
                      [pc |-> "push", key |-> k, id |-> next_cache]],
         UNCHANGED <<vars, copied, todo, batch, misuse, live_next_write, live_inflight,
                     live_retired, live_next_cache, live_held, live_pending,
                     live_visible, live_fifo>>
  PROVE  InStep'
<1> DEFINE x == [pc |-> "push", key |-> k, id |-> next_cache]
           V == Live!VisibleClean
<1>1. /\ LiveTypeOK /\ next_cache \in CacheId
      /\ IsFiniteSet(V) /\ Cardinality(V) \in Nat /\ Len(live_fifo) \in Nat
      /\ live_next_cache \in Nat /\ live_next_cache <= MaxCache
  BY FillParts
<1>2. live_visible = [visible EXCEPT ![k] = CleanRef(next_cache)]
  BY DEF Filling
<1>3. LiveOp' = x /\ live_op' \in [{harness} -> LiveOpType]
  <2>1. x \in LiveOpType
    BY <1>1 DEF LiveOpType
  <2> HIDE DEF x
  <2>2. live_op' = [live_op EXCEPT ![harness] = x]
    BY DEF x
  <2> QED
    BY <1>1, <2>1, <2>2, OpMoves
<1>4. V' = V
  BY DEF Live!VisibleClean
<1>5. /\ live_clean_count' = Cardinality(V) /\ Cardinality(V) <= live_next_cache
      /\ Len(live_fifo) + 1 <= live_next_cache
  <2> HIDE DEF V
  <2>1. /\ live_clean_count = Cardinality(V) + 0 - 1
        /\ Cardinality(V) + 0 <= live_next_cache
        /\ Len(live_fifo) + 1 <= live_next_cache
    BY DEF InStep, Together, CleanAccounts, V
  <2>2. live_clean_count + 1 = Cardinality(V) /\ Cardinality(V) <= MaxCache
    BY <1>1, <2>1, MaxCacheAssumption
  <2> QED
    BY <1>1, <2>1, <2>2, WrapSmall
<1>6. LiveTypeOK'
  <2> HIDE DEF V, x
  <2>1. live_clean_count' \in Int
    BY <1>1, <1>5
  <2> QED
    BY <1>1, <1>3, <2>1 DEF LiveTypeOK
<1>7. CleanAccounts'
  <2> HIDE DEF V
  <2>1. /\ live_clean_count' = Cardinality(V') + 0 - 0
        /\ Cardinality(V') + 0 <= live_next_cache'
        /\ Len(live_fifo') + 1 <= live_next_cache'
        /\ live_next_cache' <= MaxCache
        /\ IsFiniteSet(V')
    BY <1>1, <1>4, <1>5
  <2>2. LiveOp'.pc = "push"
    BY <1>3
  <2> HIDE DEF x
  <2> QED
    BY <2>1, <2>2 DEF CleanAccounts, V
<1>8. Filling(k)' /\ SameHistory'
  <2>1. LiveOp'.pc = "push" /\ LiveOp' = [pc |-> LiveOp'.pc, key |-> k, id |-> next_cache]
    BY <1>3
  <2> HIDE DEF x
  <2> QED
    BY <1>2, <2>1, FillGoesOn
<1> QED
  BY <1>6, <1>7, <1>8, LiveStepKeeps DEF InStep, Together

\* The entry is in the FIFO, which ends the call.
LEMMA PushInv ==
  ASSUME IInv, InStep, NEW k \in Key, Filling(k),
         LiveOp = [pc |-> "push", key |-> k, id |-> next_cache],
         live_fifo' = Append(live_fifo, [id |-> next_cache, key |-> k]),
         live_op' = [live_op EXCEPT ![harness] = [pc |-> "idle"]],
         UNCHANGED <<vars, copied, todo, batch, misuse, live_next_write, live_inflight,
                     live_retired, live_next_cache, live_held, live_pending,
                     live_visible, live_clean_count>>
  PROVE  InStep'
<1> DEFINE slot == [id |-> next_cache, key |-> k]
           V == Live!VisibleClean
<1>1. /\ LiveTypeOK /\ next_cache \in CacheId
      /\ IsFiniteSet(V) /\ Cardinality(V) \in Nat /\ Len(live_fifo) \in Nat
      /\ live_next_cache \in Nat /\ live_next_cache <= MaxCache
  BY FillParts
<1>2. live_visible = [visible EXCEPT ![k] = CleanRef(next_cache)]
  BY DEF Filling
<1>3. LiveOp' = [pc |-> "idle"] /\ live_op' \in [{harness} -> LiveOpType]
  <2>1. [pc |-> "idle"] \in LiveOpType
    BY DEF LiveOpType
  <2> QED
    BY <1>1, <2>1, OpMoves
<1>4. live_fifo' \in Seq([id : CacheId, key : Key]) /\ Len(live_fifo') = Len(live_fifo) + 1
  <2>1. slot \in [id : CacheId, key : Key]
    BY <1>1
  <2> HIDE DEF slot
  <2>2. live_fifo' = Append(live_fifo, slot)
    BY DEF slot
  <2> QED
    BY <1>1, <2>1, <2>2, AppendProperties DEF LiveTypeOK
<1>5. LiveTypeOK'
  BY <1>1, <1>3, <1>4 DEF LiveTypeOK
<1>6. CleanAccounts'
  <2>1. V' = V
    BY DEF Live!VisibleClean
  <2> HIDE DEF V
  <2>2. /\ live_clean_count = Cardinality(V) + 0 - 0
        /\ Cardinality(V) + 0 <= live_next_cache
        /\ Len(live_fifo) + 1 <= live_next_cache
    BY DEF InStep, Together, CleanAccounts, V
  <2>3. /\ live_clean_count' = Cardinality(V') + 0 - 0
        /\ Cardinality(V') + 0 <= live_next_cache'
        /\ Len(live_fifo') + 0 <= live_next_cache'
        /\ live_next_cache' <= MaxCache
        /\ IsFiniteSet(V')
    BY <1>1, <1>4, <2>1, <2>2
  <2>4. LiveOp'.pc = "idle"
    BY <1>3
  <2> QED
    BY <2>3, <2>4 DEF CleanAccounts, V
<1>7. Filling(k)' /\ SameHistory'
  <2>1. LiveOp'.pc = "idle"
    BY <1>3
  <2> QED
    BY <1>2, <2>1, FillGoesOn
<1> QED
  BY <1>5, <1>6, <1>7, LiveStepKeeps DEF InStep, Together

\* The evicted entry is uncounted, which ends the call.
LEMMA UncountInv ==
  ASSUME IInv, InStep, NEW id \in CacheId, Forgetting(id), LiveOp.pc = "uncount",
         live_clean_count' = Live!Wrap(live_clean_count - 1),
         live_op' = [live_op EXCEPT ![harness] = [pc |-> "idle"]],
         UNCHANGED <<vars, copied, todo, batch, misuse, live_next_write, live_inflight,
                     live_retired, live_next_cache, live_held, live_pending,
                     live_visible, live_fifo>>
  PROVE  InStep'
<1> DEFINE V == Live!VisibleClean
<1>1. LiveTypeOK /\ SameHistory
  BY DEF InStep, Together
<1>2. /\ IsFiniteSet(V)
      /\ live_clean_count = Cardinality(V) + 1 - 0
      /\ Cardinality(V) + 0 <= live_next_cache
      /\ Len(live_fifo) + 0 <= live_next_cache
      /\ live_next_cache <= MaxCache
  BY DEF InStep, Together, CleanAccounts
<1>3. live_next_cache \in Nat /\ Cardinality(V) \in Nat /\ Len(live_fifo) \in Nat
  BY <1>1, <1>2, FS_CardinalityType DEF LiveTypeOK
<1>4. LiveOp' = [pc |-> "idle"] /\ live_op' \in [{harness} -> LiveOpType]
  <2>1. [pc |-> "idle"] \in LiveOpType
    BY DEF LiveOpType
  <2> QED
    BY <1>1, <2>1, OpMoves
<1>5. V' = V /\ LiveLog' = LiveLog
  BY DEF Live!VisibleClean, LiveLog, LiveQueue
<1>6. live_clean_count' = Cardinality(V)
  <2> HIDE DEF V
  <2>1. live_clean_count - 1 = Cardinality(V) /\ Cardinality(V) <= MaxCache
    BY <1>2, <1>3, MaxCacheAssumption
  <2> QED
    BY <1>3, <2>1, WrapSmall
<1>7. LiveTypeOK'
  <2> HIDE DEF V
  <2>1. live_clean_count' \in Int
    BY <1>3, <1>6
  <2> QED
    BY <1>1, <1>4, <2>1 DEF LiveTypeOK
<1>8. SameHistory'
  BY <1>1, <1>5, HistoryKept DEF vars
<1>9. CleanAccounts'
  <2> HIDE DEF V
  <2>1. /\ live_clean_count' = Cardinality(V') + 0 - 0
        /\ Cardinality(V') + 0 <= live_next_cache'
        /\ Len(live_fifo') + 0 <= live_next_cache'
        /\ live_next_cache' <= MaxCache
        /\ IsFiniteSet(V')
    BY <1>2, <1>3, <1>5, <1>6
  <2>2. LiveOp'.pc = "idle"
    BY <1>4
  <2> QED
    BY <2>1, <2>2 DEF CleanAccounts, V
<1>10. Forgetting(id)'
  <2>1. CaughtUp' /\ SameCounters'
    BY DEF Forgetting, CaughtUp, CoreHas, SameCounters, vars
  <2>2. Len(LiveLog)' = next_write' /\ LiveOp'.pc = "idle"
    BY <1>4, <1>5 DEF Forgetting, vars
  <2>3. live_visible' = WithoutRef(CleanRef(id))'
    BY DEF Forgetting, WithoutRef, CleanRef, vars
  <2>4. todo' = <<DropRecord(id), Cleanup(id)>> \/ todo' = <<Cleanup(id)>>
    BY DEF Forgetting
  <2> QED
    BY <2>1, <2>2, <2>3, <2>4 DEF Forgetting, DropRecord, Cleanup
<1> QED
  BY <1>7, <1>8, <1>9, <1>10, LiveStepKeeps DEF InStep, Together

\* The parts of a phase in a mark.
LEMMA MarkingParts ==
  ASSUME IInv, InStep, Marking(Len(todo))
  PROVE  \E n \in Nat, R \in Nat :
           /\ n = Len(todo) /\ R = Len(live_retired)
           /\ todo = MarkSteps(n) /\ LiveOp.pc \in {"idle", "unpublish"}
           /\ CoreHas(R - n \div 2, R - (n + 1) \div 2)
           /\ SameCounters /\ Len(LiveLog) = next_write
           /\ LiveTypeOK /\ SameHistory
<1>1. LiveTypeOK /\ SameHistory
  BY DEF InStep, Together
<1>2. Len(todo) \in Nat
  BY <1>1, HeadOfPhase
<1>3. Len(live_retired) \in Nat
  BY <1>1 DEF LiveTypeOK
<1> QED
  BY <1>1, <1>2, <1>3 DEF Marking

\* The phase of a mark goes on, with the live map as far as u.
LEMMA MarkGoesOn ==
  ASSUME IInv, InStep, Marking(Len(todo)),
         UNCHANGED <<vars, todo, live_next_write, live_next_cache,
                     live_retired, live_inflight, live_pending>>,
         NEW u \in Nat, live_visible' = WithoutOlder(u),
         \/ LiveOp'.pc = "idle" /\ u = Len(live_retired)
         \/ /\ LiveOp'.pc = "unpublish" /\ u = Len(live_retired) - Len(LiveOp'.todo)
            /\ LiveOp'.todo = SubSeq(live_retired, u + 1, Len(live_retired))
  PROVE  Marking(Len(todo))' /\ SameHistory'
<1>1. PICK n \in Nat, R \in Nat :
        /\ n = Len(todo) /\ R = Len(live_retired)
        /\ todo = MarkSteps(n)
        /\ CoreHas(R - n \div 2, R - (n + 1) \div 2)
        /\ SameCounters /\ Len(LiveLog) = next_write
        /\ SameHistory
  BY MarkingParts
<1>2. LiveLog' = LiveLog
  BY DEF LiveLog, LiveQueue
<1>3. SameHistory'
  BY <1>1, <1>2, HistoryKept DEF vars
<1>4. n = Len(todo') /\ R = Len(live_retired') /\ todo' = MarkSteps(n)'
  BY <1>1 DEF MarkSteps
<1>5. CoreHas(R - n \div 2, R - (n + 1) \div 2)'
  BY <1>1 DEF CoreHas, vars
<1>6. SameCounters' /\ Len(LiveLog)' = next_write'
  BY <1>1, <1>2 DEF SameCounters, vars
<1>7. live_visible' = WithoutOlder(u)'
  BY DEF WithoutOlder, vars
<1>8. Marking(n)'
  <2>1. CASE LiveOp'.pc = "idle" /\ u = R
    BY <1>1, <1>4, <1>5, <1>6, <1>7, <2>1 DEF Marking
  <2>2. CASE /\ LiveOp'.pc = "unpublish" /\ u = R - Len(LiveOp'.todo)
             /\ LiveOp'.todo = SubSeq(live_retired, u + 1, R)
    <3>1. LiveOp'.pc = "unpublish" /\ R - Len(LiveOp'.todo) = u /\ u >= 0
      BY <2>2
    <3>2. LiveOp'.todo = SubSeq(live_retired', u + 1, R)
      BY <2>2
    <3> QED
      BY <1>4, <1>5, <1>6, <1>7, <3>1, <3>2 DEF Marking
  <2> QED
    BY <1>1, <2>1, <2>2
<1> QED
  BY <1>3, <1>4, <1>8

\* A record of the batch is unpublished: if its entry is still visible, it is
\* the last write of the key and the core shows it, too.
LEMMA UnpublishInv ==
  ASSUME IInv, InStep, Marking(Len(todo)), LiveOp.pc = "unpublish", NEW record,
         record = Head(LiveOp.todo),
         live_visible' = IF live_visible[record.key] = DirtyRef(record.id)
                         THEN [live_visible EXCEPT ![record.key] = NoRef]
                         ELSE live_visible,
         live_op' = [live_op EXCEPT ![harness] =
                       IF Len(LiveOp.todo) = 1 THEN [pc |-> "idle"]
                       ELSE [pc |-> "unpublish", todo |-> Tail(LiveOp.todo)]],
         UNCHANGED <<vars, copied, todo, batch, misuse, live_next_write, live_inflight,
                     live_retired, live_next_cache, live_held, live_pending,
                     live_fifo, live_clean_count>>
  PROVE  InStep'
<1>1. /\ LiveTypeOK /\ SameHistory /\ visible \in [Key -> VisibleRef]
      /\ live_op \in [{harness} -> LiveOpType]
  BY CoreTypes DEF InStep, Together, LiveTypeOK
<1>2. PICK left \in Seq(LiveRecord) : left = LiveOp.todo /\ left # <<>>
  <2>1. LiveOp \in LiveOpType
    BY <1>1 DEF LiveOp
  <2> QED
    BY <2>1 DEF LiveOpType
<1>3. PICK R \in Nat, L \in Nat \ {0}, u \in Nat :
        /\ R = Len(live_retired) /\ L = Len(left) /\ u = R - L
        /\ left = SubSeq(live_retired, u + 1, R) /\ live_visible = WithoutOlder(u)
        /\ Len(LiveLog) = next_write
  <2>1. Len(left) \in Nat \ {0} /\ Len(live_retired) \in Nat
    BY <1>1, <1>2 DEF LiveTypeOK
  <2>2. Len(live_retired) - Len(left) >= 0
    BY <1>2 DEF Marking
  <2>3. Len(live_retired) - Len(left) \in Nat
    BY <2>1, <2>2
  <2> QED
    BY <1>2, <2>1, <2>3 DEF Marking
<1>4. /\ live_retired \in Seq(LiveRecord) /\ R = Len(live_retired) /\ L = Len(left)
      /\ u + 1 \in 1 .. R /\ R \in u + 1 .. R /\ u = R - L
  <2>1. live_retired \in Seq(LiveRecord)
    BY <1>1 DEF LiveTypeOK
  <2>2. u = R - L
    BY <1>3
  <2>3. u + 1 \in 1 .. R /\ R \in u + 1 .. R
    BY <2>2
  <2> QED
    BY <1>3, <2>1, <2>2, <2>3
<1>5. /\ record = live_retired[u + 1] /\ record \in LiveRecord
      /\ Tail(left) = SubSeq(live_retired, (u + 1) + 1, R)
      /\ Tail(left) \in Seq(LiveRecord) /\ Len(Tail(left)) = L - 1
  <2>1. /\ Head(SubSeq(live_retired, u + 1, R)) = live_retired[u + 1]
        /\ Tail(SubSeq(live_retired, u + 1, R)) = SubSeq(live_retired, (u + 1) + 1, R)
    BY <1>4, HeadTailOfSubSeq
  <2>2. left = SubSeq(live_retired, u + 1, R)
    BY <1>3
  <2>3. /\ Head(left) \in LiveRecord /\ Tail(left) \in Seq(LiveRecord)
        /\ Len(Tail(left)) = Len(left) - 1
    BY <1>2, HeadTailProperties
  <2>4. record = Head(left)
    BY <1>2
  <2> QED
    BY <1>4, <2>1, <2>2, <2>3, <2>4
<1>6. record.id = u /\ write_hist[u].key = record.key /\ u \in WriteId
  <2>0. /\ LiveLog \in Seq(LiveRecord) /\ Len(LiveLog) = R + Len(LiveQueue)
        /\ Len(LiveQueue) \in Nat
        /\ \A i \in 1 .. R : LiveLog[i] = live_retired[i]
    BY <1>1, <1>4, LiveLogParts
  <2>1. LiveLog[u + 1] = record /\ u + 1 \in 1 .. Len(LiveLog)
        /\ DOMAIN LiveLog = 1 .. Len(LiveLog)
    <3>1. u + 1 \in 1 .. R
      BY <1>4
    <3>2. LiveLog[u + 1] = live_retired[u + 1] /\ u + 1 \in 1 .. Len(LiveLog)
      BY <2>0, <3>1
    <3> QED
      BY <1>5, <2>0, <3>2
  <2>2. record.id = u /\ u \in 0 .. next_write - 1
    <3>1. record.id = (u + 1) - 1
      BY <1>1, <2>1 DEF SameHistory
    <3>2. u + 1 \in 1 .. next_write
      BY <1>3, <2>1
    <3>3. (u + 1) - 1 = u /\ u \in 0 .. next_write - 1
      BY <3>2, CoreTypes
    <3> QED
      BY <3>1, <3>3
  <2>3. write_hist[u] = Record(u, record.key, u)
    BY <1>1, <2>1, <2>2 DEF SameHistory
  <2>4. u \in WriteId
    BY <2>2, CoreTypes, MaxWriteAssumption DEF WriteId
  <2> QED
    BY <2>2, <2>3, <2>4 DEF Record
<1>7. record.key \in Key
  BY <1>5 DEF LiveRecord
<1>8. ASSUME NEW j \in Key
      PROVE  /\ visible[j] = DirtyRef(u) => j = record.key
             /\ visible[j].kind = "Dirty" => visible[j].id \in Nat
             /\ visible[j].kind = "Dirty" /\ visible[j].id = u => visible[j] = DirtyRef(u)
             /\ live_visible[j] = IF visible[j].kind = "Dirty" /\ visible[j].id < u
                                  THEN NoRef ELSE visible[j]
  <2>1. visible[j] = DirtyRef(u) => j = record.key
    BY <1>6 DEF IInv, VisibleDirtyIsLast, LastWrite, WroteKey, DirtyRef
  <2>2. visible[j].kind = "Dirty" =>
          visible[j].id \in WriteId /\ visible[j] = DirtyRef(visible[j].id)
    BY RefKinds DEF IInv
  <2>3. live_visible[j] = IF visible[j].kind = "Dirty" /\ visible[j].id < u
                          THEN NoRef ELSE visible[j]
    BY <1>3 DEF WithoutOlder
  <2> QED
    BY <2>1, <2>2, <2>3, MaxWriteAssumption DEF WriteId
<1>9. ASSUME NEW j \in Key
      PROVE  live_visible'[j] = IF visible[j].kind = "Dirty" /\ visible[j].id < u + 1
                                THEN NoRef ELSE visible[j]
  <2>0. live_visible \in [Key -> VisibleRef] /\ DirtyRef(u) # NoRef
    BY <1>1 DEF LiveTypeOK, DirtyRef, NoRef
  <2>1. CASE visible[j] = DirtyRef(u)
    <3>1. visible[j].kind = "Dirty" /\ visible[j].id = u /\ j = record.key
      BY <1>8, <2>1 DEF DirtyRef
    <3>2. live_visible[j] = DirtyRef(u)
      BY <1>8, <2>1, <3>1
    <3>3. live_visible'[j] = NoRef
      BY <1>6, <2>0, <3>1, <3>2
    <3> QED
      BY <3>1, <3>3
  <2>2. CASE visible[j] # DirtyRef(u)
    <3>1. live_visible[j] # DirtyRef(u)
      BY <1>8, <2>0, <2>2
    <3>2. live_visible'[j] = live_visible[j]
      BY <1>6, <2>0, <3>1
    <3>3. visible[j].kind = "Dirty" => (visible[j].id < u + 1 <=> visible[j].id < u)
      BY <1>8, <2>2
    <3> QED
      BY <1>8, <3>2, <3>3
  <2> QED
    BY <2>1, <2>2
<1>10. live_visible' = WithoutOlder(u + 1) /\ live_visible' \in [Key -> VisibleRef]
  <2>1. live_visible' \in [Key -> VisibleRef]
    BY <1>1 DEF LiveTypeOK, VisibleRef
  <2> QED
    BY <1>9, <2>1 DEF WithoutOlder
<1>11. /\ live_op' \in [{harness} -> LiveOpType]
       /\ \/ LiveOp' = [pc |-> "idle"] /\ L = 1
          \/ LiveOp' = [pc |-> "unpublish", todo |-> Tail(left)] /\ L # 1
       /\ L # 1 => Tail(left) \in Seq(LiveRecord) /\ Len(Tail(left)) = L - 1
  <2>1. CASE L = 1
    <3>1. live_op' = [live_op EXCEPT ![harness] = [pc |-> "idle"]]
      BY <1>2, <1>3, <2>1
    <3>2. [pc |-> "idle"] \in LiveOpType
      BY DEF LiveOpType
    <3> QED
      BY <1>1, <2>1, <3>1, <3>2, OpMoves
  <2>2. CASE L # 1
    <3> DEFINE x == [pc |-> "unpublish", todo |-> Tail(left)]
    <3>1. live_op' = [live_op EXCEPT ![harness] = x]
      BY <1>2, <1>3, <2>2
    <3>2. Tail(left) \in Seq(LiveRecord) /\ Len(Tail(left)) = L - 1
      BY <1>5
    <3>3. Tail(left) # <<>>
      <4>1. L - 1 # 0
        BY <2>2
      <4> DEFINE t == Tail(left)
      <4>2. Len(t) # 0
        BY <3>2, <4>1
      <4> HIDE DEF t
      <4>3. t # <<>>
        BY <4>2
      <4> QED
        BY <4>3 DEF t
    <3>4. x \in LiveOpType
      BY <3>2, <3>3 DEF LiveOpType
    <3> HIDE DEF x
    <3>5. LiveOp' = x /\ live_op' \in [{harness} -> LiveOpType]
      BY <1>1, <3>1, <3>4, OpMoves
    <3> QED
      BY <2>2, <3>2, <3>5 DEF x
  <2> QED
    BY <2>1, <2>2
<1>12. LiveTypeOK'
  BY <1>1, <1>10, <1>11 DEF LiveTypeOK
<1>13. CleanAccounts'
  <2>1. Live!VisibleClean' = Live!VisibleClean
    BY <1>1, <1>7 DEF Live!VisibleClean, LiveTypeOK, DirtyRef, NoRef
  <2>2. LiveOp'.pc \in {"idle", "unpublish"}
    BY <1>11
  <2> QED
    BY <1>1, <2>1, <2>2, AccountsKept DEF InStep, Together
<1>14. Marking(Len(todo))' /\ SameHistory'
  <2>1. CASE L = 1
    <3>1. LiveOp'.pc = "idle"
      BY <1>11, <2>1
    <3>2. u + 1 = R
      BY <1>4, <2>1
    <3> QED
      BY <1>4, <1>10, <3>1, <3>2, MarkGoesOn
  <2>2. CASE L # 1
    <3>1. LiveOp'.pc = "unpublish" /\ LiveOp'.todo = Tail(left) /\ Len(Tail(left)) = L - 1
          /\ Tail(left) \in Seq(LiveRecord)
      BY <1>11, <2>2
    <3>2. u + 1 = R - Len(LiveOp'.todo)
      <4>1. u + 1 = R - (L - 1)
        BY <1>4
      <4> QED
        BY <3>1, <4>1
    <3>3. Tail(left) = SubSeq(live_retired, (u + 1) + 1, R)
      BY <1>5
    <3>4. LiveOp'.todo = SubSeq(live_retired, (u + 1) + 1, R)
      BY <3>1, <3>3
    <3>5. u + 1 \in Nat /\ R = Len(live_retired)
      BY <1>4
    <3> DEFINE w == u + 1
    <3>6. /\ w \in Nat /\ live_visible' = WithoutOlder(w) /\ w = R - Len(LiveOp'.todo)
          /\ LiveOp'.todo = SubSeq(live_retired, w + 1, R)
      BY <1>10, <3>2, <3>4, <3>5
    <3> HIDE DEF w
    <3> QED
      BY <3>1, <3>5, <3>6, MarkGoesOn
  <2> QED
    BY <2>1, <2>2
<1> QED
  BY <1>12, <1>13, <1>14, LiveStepKeeps DEF InStep, Together

\* Every step of the live map within a call.
LEMMA LiveStepInv ==
  ASSUME IInv, InStep, LiveStep
  PROVE  InStep'
BY LiveStepKinds, AppendInv, PublishInv, VacantInv, CountInv, PushInv, UncountInv,
   UnpublishInv

(***************************************************************************)
(* The steps of the core after a call.                                     *)
(***************************************************************************)

\* What no step of the core disturbs: the live map.
LEMMA CoreStepKeeps ==
  ASSUME Together, UNCHANGED <<liveVars, copied, batch, misuse>>, crashed' = crashed
  PROVE  /\ ~crashed' /\ LiveTypeOK' /\ BatchHeld' /\ CleanAccounts'
         /\ LiveLog' = LiveLog /\ LiveOp' = LiveOp
<1>1. LiveTypeOK' /\ LiveLog' = LiveLog /\ LiveOp' = LiveOp
  BY DEF InStep, Together, liveVars, LiveTypeOK, LiveLog, LiveQueue, LiveOp
<1>2. BatchHeld'
  BY BatchKept DEF InStep, Together, liveVars
<1>3. Live!VisibleClean' = Live!VisibleClean
  BY DEF liveVars, Live!VisibleClean
<1>4. CleanAccounts'
  BY <1>1, <1>3 DEF InStep, Together, CleanAccounts, liveVars
<1> QED
  BY <1>1, <1>2, <1>4 DEF InStep, Together

\* With nothing left to do and everything equal, a call is over.
LEMMA RestIsMarking ==
  /\ IInv /\ LiveTypeOK /\ todo = <<>> /\ LiveOp.pc = "idle" /\ CaughtUp
  /\ SameCounters /\ Len(LiveLog) = next_write /\ live_visible = visible
  => Marking(Len(todo))
<1> SUFFICES ASSUME IInv, LiveTypeOK, todo = <<>>, LiveOp.pc = "idle", CaughtUp,
                    SameCounters, Len(LiveLog) = next_write, live_visible = visible
             PROVE  Marking(Len(todo))
  OBVIOUS
<1> DEFINE R == Len(live_retired)
<1>1. R \in Nat /\ Len(todo) = 0
  BY DEF LiveTypeOK
<1>2. todo = MarkSteps(0)
  BY MarkStepsShape DEF LiveTypeOK
<1>3. CoreHas(R - 0 \div 2, R - (0 + 1) \div 2)
  <2>1. R - 0 \div 2 = R /\ R - (0 + 1) \div 2 = R
    BY <1>1
  <2> QED
    BY <2>1 DEF CaughtUp
<1>4. live_visible = WithoutOlder(R)
  <2>1. visible \in [Key -> VisibleRef]
    BY CoreTypes
  <2>2. ASSUME NEW k \in Key, visible[k].kind = "Dirty"
        PROVE  ~(visible[k].id < R)
    <3>1. write_store[visible[k].id].present
      BY <2>2 DEF IInv, VisibleDirtyIsLast
    <3>2. visible[k].id \in WriteId
      BY <2>2, RefKinds DEF IInv
    <3>3. R <= visible[k].id
      BY <3>1, <3>2 DEF CaughtUp, CoreHas
    <3>4. visible[k].id \in Nat
      BY <3>2, MaxWriteAssumption DEF WriteId
    <3> QED
      BY <1>1, <3>3, <3>4
  <2> QED
    BY <2>1, <2>2 DEF WithoutOlder
<1>5. Marking(0)
  BY <1>2, <1>3, <1>4 DEF Marking
<1> QED
  BY <1>1, <1>5

\* The same after a step.
LEMMA BackToRest ==
  ASSUME IInv', LiveTypeOK', todo' = <<>>, LiveOp'.pc = "idle", CaughtUp',
         SameCounters', Len(LiveLog)' = next_write', live_visible' = visible'
  PROVE  Marking(Len(todo))'
<1>1. (/\ IInv /\ LiveTypeOK /\ todo = <<>> /\ LiveOp.pc = "idle" /\ CaughtUp
       /\ SameCounters /\ Len(LiveLog) = next_write /\ live_visible = visible
       => Marking(Len(todo)))'
  BY RestIsMarking, PTL
<1> QED
  BY <1>1

\* No clean record is on its way out.
NothingForgotten ==
  \A id \in CacheId : ~Upcoming(DropRecord(id)) /\ ~Upcoming(Cleanup(id))

\* The clean records when none is on its way out, before the step and after.
LEMMA CleanAtRest ==
  ASSUME SameClean, NothingForgotten, NEW id \in CacheId
  PROVE  /\ cache_store[id].present =>
              /\ cache_store[id].value = copied[id] /\ id < next_cache
              /\ \E k \in Key : visible[k] = CleanRef(id)
         /\ ~cache_store[id].present => \A k \in Key : visible[k] # CleanRef(id)
BY DEF SameClean, NothingForgotten

\* A step of the core in a mark is about dirty records only.
LEMMA MarkStepClean ==
  ASSUME SameClean, NothingForgotten, UNCHANGED <<cache_store, next_cache, copied>>,
         \A k \in Key, id \in CacheId :
           visible'[k] = CleanRef(id) <=> visible[k] = CleanRef(id)
  PROVE  SameClean'
<1> SUFFICES ASSUME NEW id \in CacheId
             PROVE  /\ cache_store'[id].present =>
                         /\ cache_store'[id].value = copied'[id] /\ id < next_cache'
                         /\ \E k \in Key : visible'[k] = CleanRef(id)
                    /\ ~cache_store'[id].present =>
                         \A k \in Key : visible'[k] # CleanRef(id)
  BY DEF SameClean, CleanRef
<1> QED
  BY CleanAtRest

\* Half of an even number, and of the odd one before it.
LEMMA Halves ==
  ASSUME NEW n \in Nat \ {0}
  PROVE  \E q \in Nat :
           \/ /\ (n - 1) % 2 = 1 /\ n \div 2 = q + 1 /\ (n + 1) \div 2 = q + 1
              /\ (n - 1) \div 2 = q
           \/ /\ (n - 1) % 2 = 0 /\ n \div 2 = q /\ (n + 1) \div 2 = q + 1
              /\ (n - 1) \div 2 = q
<1>1. CASE (n - 1) % 2 = 1
  <2>1. /\ (n - 1) \div 2 \in Nat /\ n \div 2 = (n - 1) \div 2 + 1
        /\ (n + 1) \div 2 = (n - 1) \div 2 + 1
    BY <1>1
  <2> QED
    BY <1>1, <2>1
<1>2. CASE (n - 1) % 2 = 0
  <2>1. /\ (n - 1) \div 2 \in Nat /\ n \div 2 = (n - 1) \div 2
        /\ (n + 1) \div 2 = (n - 1) \div 2 + 1
    BY <1>2
  <2> QED
    BY <1>2, <2>1
<1>3. (n - 1) % 2 \in 0 .. 1
  OBVIOUS
<1> QED
  BY <1>1, <1>2, <1>3

\* In a mark no clean record is on its way out, nor when a write or a fill
\* is about to reach the core.
LEMMA NoneForgotten ==
  ASSUME IInv, InStep,
         Marking(Len(todo)) \/ \E k \in Key : Writing(k) \/ Filling(k)
  PROVE  NothingForgotten
<1>1. LiveTypeOK
  BY DEF InStep, Together
<1>2. \A id : /\ DropRecord(id).action = "CacheDropRecord"
              /\ Cleanup(id).action = "CacheCleanupVisible"
  BY DEF DropRecord, Cleanup
<1>3. todo = <<>> \/ Head(todo).action \notin {"CacheDropRecord", "CacheCleanupVisible"}
  <2>1. CASE Marking(Len(todo))
    <3> DEFINE odd == (Len(todo) - 1) % 2 = 1
               dropped == Len(live_retired) - 1 - (Len(todo) - 1) \div 2
    <3>1. todo = <<>> \/ Head(todo) = IF odd THEN [action |-> "FlusherFlushNext"]
                                      ELSE [action |-> "FlusherDrop", id |-> dropped]
      BY <1>1, <2>1, HeadOfPhase
    <3> HIDE DEF odd, dropped
    <3> QED
      BY <3>1
  <2>2. CASE \E k \in Key : Writing(k)
    <3>1. PICK k \in Key : Head(todo) = WriteOf(k, next_write)
      BY <1>1, <2>2, HeadOfPhase
    <3> QED
      BY <3>1 DEF WriteOf
  <2>3. CASE \E k \in Key : Filling(k)
    <3>1. PICK k \in Key : Head(todo) = InsertOf(k)
      BY <1>1, <2>3, HeadOfPhase
    <3> QED
      BY <3>1 DEF InsertOf
  <2> QED
    BY <2>1, <2>2, <2>3
<1> QED
  BY <1>2, <1>3 DEF NothingForgotten, Upcoming

\* The core flushes the next record of the batch.
LEMMA CoreFlushInv ==
  ASSUME IInv, IInv', InStep, LiveOp.pc = "idle",
         UNCHANGED <<liveVars, copied, batch, misuse>>,
         Marking(Len(todo)), Len(todo) \in Nat \ {0}, todo' = MarkSteps(Len(todo) - 1),
         (Len(todo) - 1) % 2 = 1, FlusherFlushNext
  PROVE  InStep'
<1>1. PICK n \in Nat \ {0}, R \in Nat :
        /\ n = Len(todo) /\ R = Len(live_retired)
        /\ CoreHas(R - n \div 2, R - (n + 1) \div 2)
        /\ SameCounters /\ Len(LiveLog) = next_write /\ SameHistory
  BY MarkingParts
<1>2. PICK q \in Nat : n \div 2 = q + 1 /\ (n + 1) \div 2 = q + 1 /\ (n - 1) \div 2 = q
                       /\ (n - 1) % 2 = 1
  <2>1. (n - 1) % 2 = 1
    BY <1>1
  <2> HIDE <1>1
  <2> QED
    BY <2>1, Halves
<1>3. /\ Len(flushed') = Len(flushed) + 1
      /\ UNCHANGED <<visible, write_store, write_hist, cache_store, next_write,
                     next_cache, crashed>>
  <2>1. flushed' = Append(flushed, NextToFlush)
    BY DEF FlusherFlushNext
  <2>2. flushed \in Seq(WriteId)
    BY CoreTypes
  <2>3. flushed' \in Seq(WriteId)
    BY DEF IInv, TypeOK
  <2>4. Len(flushed') = Len(flushed) + 1
    BY <2>1, <2>2
  <2> QED
    BY <2>4 DEF FlusherFlushNext
<1>4. /\ ~crashed' /\ LiveTypeOK' /\ BatchHeld' /\ CleanAccounts'
      /\ LiveLog' = LiveLog /\ LiveOp' = LiveOp
  BY <1>3, CoreStepKeeps DEF InStep
<1>5. SameHistory'
  BY <1>1, <1>3, <1>4, HistoryKept
<1>6. SameClean'
  BY <1>3, NoneForgotten, MarkStepClean DEF InStep, Together
<1>7. R = Len(live_retired') /\ live_visible = WithoutOlder(R)
  BY <1>1 DEF Marking, liveVars
<1>8. Len(todo') = n - 1 /\ todo' = MarkSteps(n - 1)'
  <2>1. live_retired \in Seq(LiveRecord) /\ n - 1 \in Nat
    BY DEF InStep, Together, LiveTypeOK
  <2>2. todo' = MarkSteps(n - 1)
    BY <1>1
  <2>3. Len(MarkSteps(n - 1)) = n - 1
    BY <2>1, MarkStepsShape
  <2>4. MarkSteps(n - 1) = MarkSteps(n - 1)'
    BY DEF MarkSteps, liveVars
  <2> QED
    BY <2>2, <2>3, <2>4
<1>9. CoreHas(R - (n - 1) \div 2, R - ((n - 1) + 1) \div 2)'
  <2>1. /\ Len(flushed) = R - (q + 1) /\ 0 <= R - (q + 1)
        /\ \A id \in WriteId : write_store[id].present => R - (q + 1) <= id
    BY <1>1, <1>2 DEF CoreHas
  <2>2. Len(flushed') = R - q
    BY <1>3, <2>1
  <2>3. (n - 1) + 1 = n
    OBVIOUS
  <2> QED
    BY <1>2, <1>3, <2>1, <2>2, <2>3 DEF CoreHas
<1>10. SameCounters' /\ Len(LiveLog)' = next_write' /\ live_visible' = WithoutOlder(R)'
  BY <1>1, <1>3, <1>4, <1>7 DEF SameCounters, WithoutOlder, liveVars
<1>11. Marking(n - 1)'
  <2>1. LiveOp'.pc = "idle"
    BY <1>4
  <2> QED
    BY <1>7, <1>8, <1>9, <1>10, <2>1 DEF Marking
<1>12. Marking(Len(todo))'
  BY <1>8, <1>11
<1> QED
  BY <1>4, <1>5, <1>6, <1>12 DEF InStep, Together

\* The core drops a record it has flushed; the live map has unpublished it.
LEMMA CoreDropInv ==
  ASSUME IInv, IInv', InStep, LiveOp.pc = "idle",
         UNCHANGED <<liveVars, copied, batch, misuse>>,
         Marking(Len(todo)), Len(todo) \in Nat \ {0}, todo' = MarkSteps(Len(todo) - 1),
         (Len(todo) - 1) % 2 # 1,
         FlusherDrop(Len(live_retired) - 1 - (Len(todo) - 1) \div 2)
  PROVE  InStep'
<1>1. PICK n \in Nat \ {0}, R \in Nat :
        /\ n = Len(todo) /\ R = Len(live_retired)
        /\ CoreHas(R - n \div 2, R - (n + 1) \div 2)
        /\ SameCounters /\ Len(LiveLog) = next_write /\ SameHistory
  BY MarkingParts
<1>2. PICK q \in Nat : n \div 2 = q /\ (n + 1) \div 2 = q + 1 /\ (n - 1) \div 2 = q
                       /\ (n - 1) % 2 # 1
  BY <1>1, Halves
<1>3. PICK id \in WriteId : id = R - 1 - q /\ FlusherDrop(id)
  <2>1. FlusherDrop(R - 1 - q)
    BY <1>1, <1>2
  <2>2. R - 1 - q \in WriteId
    <3>1. flushed \in Seq(WriteId) /\ Contains(flushed, R - 1 - q)
      BY <2>1 DEF IInv, TypeOK, FlusherDrop, Droppable
    <3> QED
      BY <3>1 DEF Contains
  <2> QED
    BY <2>1, <2>2
<1>4. /\ write_store' = [write_store EXCEPT ![id] = Absent]
      /\ visible' = WithoutRef(DirtyRef(id))
      /\ UNCHANGED <<flushed, write_hist, cache_store, next_write, next_cache, crashed>>
  BY <1>3 DEF FlusherDrop
<1>5. /\ ~crashed' /\ LiveTypeOK' /\ BatchHeld' /\ CleanAccounts'
      /\ LiveLog' = LiveLog /\ LiveOp' = LiveOp
  BY <1>4, CoreStepKeeps DEF InStep
<1>6. SameHistory'
  BY <1>1, <1>4, <1>5, HistoryKept
<1>7. \A k \in Key : visible'[k] = IF visible[k] = DirtyRef(id) THEN NoRef ELSE visible[k]
  BY <1>4, WithoutRefKeeps
<1>8. SameClean'
  <2>1. \A k \in Key, c \in CacheId : visible'[k] = CleanRef(c) <=> visible[k] = CleanRef(c)
    BY <1>7 DEF DirtyRef, CleanRef, NoRef
  <2> QED
    BY <1>4, <2>1, NoneForgotten, MarkStepClean DEF InStep, Together
<1>9. R = Len(live_retired') /\ live_visible = WithoutOlder(R)
  BY <1>1 DEF Marking, liveVars
<1>10. Len(todo') = n - 1 /\ todo' = MarkSteps(n - 1)'
  <2>1. live_retired \in Seq(LiveRecord) /\ n - 1 \in Nat
    BY DEF InStep, Together, LiveTypeOK
  <2>2. todo' = MarkSteps(n - 1)
    BY <1>1
  <2>3. Len(MarkSteps(n - 1)) = n - 1
    BY <2>1, MarkStepsShape
  <2>4. MarkSteps(n - 1) = MarkSteps(n - 1)'
    BY DEF MarkSteps, liveVars
  <2> QED
    BY <2>2, <2>3, <2>4
<1>11. CoreHas(R - (n - 1) \div 2, R - ((n - 1) + 1) \div 2)'
  <2>1. /\ Len(flushed) = R - q /\ 0 <= R - (q + 1)
        /\ \A c \in WriteId : write_store[c].present => R - (q + 1) <= c
    BY <1>1, <1>2 DEF CoreHas
  <2>2. ASSUME NEW c \in WriteId, write_store'[c].present PROVE R - q <= c
    <3>1. write_store \in [WriteId -> DirtyRecord \cup {Absent}]
      BY DEF IInv, TypeOK
    <3>2. c # id
      BY <1>4, <2>2, <3>1 DEF Absent
    <3>3. write_store[c].present
      BY <1>4, <2>2, <3>1, <3>2
    <3>4. R - (q + 1) <= c /\ c # R - 1 - q /\ c \in Int
      BY <1>3, <2>1, <3>2, <3>3, MaxWriteAssumption DEF WriteId
    <3> QED
      BY <3>4
  <2>3. (n - 1) + 1 = n /\ 0 <= R - q
    BY <2>1
  <2> QED
    BY <1>2, <1>4, <2>1, <2>2, <2>3 DEF CoreHas
<1>12. live_visible' = WithoutOlder(R)'
  <2>1. id < R
    BY <1>3, MaxWriteAssumption DEF WriteId
  <2>2. WithoutOlder(R)' = WithoutOlder(R)
    <3>1. ASSUME NEW k \in Key
          PROVE  (IF visible'[k].kind = "Dirty" /\ visible'[k].id < R
                  THEN NoRef ELSE visible'[k])
                 = (IF visible[k].kind = "Dirty" /\ visible[k].id < R
                    THEN NoRef ELSE visible[k])
      <4>1. CASE visible[k] = DirtyRef(id)
        BY <1>7, <2>1, <4>1 DEF DirtyRef, NoRef
      <4>2. CASE visible[k] # DirtyRef(id)
        BY <1>7, <4>2
      <4> QED
        BY <4>1, <4>2
    <3> QED
      BY <3>1 DEF WithoutOlder
  <2> QED
    BY <1>9, <2>2 DEF liveVars
<1>13. SameCounters' /\ Len(LiveLog)' = next_write'
  BY <1>1, <1>4, <1>5 DEF SameCounters, liveVars
<1>14. Marking(n - 1)'
  <2>1. LiveOp'.pc = "idle"
    BY <1>5
  <2> QED
    BY <1>9, <1>10, <1>11, <1>12, <1>13, <2>1 DEF Marking
<1>15. Marking(Len(todo))'
  BY <1>10, <1>14
<1> QED
  BY <1>5, <1>6, <1>8, <1>15 DEF InStep, Together

\* The core catches up with a write, and then with the clean entry it hid.
LEMMA CoreWriteInv ==
  ASSUME IInv, IInv', InStep, LiveOp.pc = "idle",
         UNCHANGED <<liveVars, copied, batch, misuse>>,
         NEW k \in Key, Writing(k), WriterWrite(k, next_write), todo' = Forget(visible[k])
  PROVE  InStep'
<1> DEFINE n == next_write
           R == Len(live_retired)
<1>1. /\ CaughtUp /\ live_next_write = n + 1 /\ live_next_cache = next_cache
      /\ Len(LiveLog) = n + 1 /\ LiveLog[n + 1].key = k
      /\ live_visible = [visible EXCEPT ![k] = DirtyRef(n)]
  BY DEF Writing
<1>2. /\ n \in WriteId /\ n \in Nat /\ n < MaxWrite
      /\ visible \in [Key -> VisibleRef] /\ R \in Nat
      /\ write_store \in [WriteId -> DirtyRecord \cup {Absent}]
      /\ write_hist \in [WriteId -> DirtyRecord \cup {Absent}]
  BY CoreTypes, MaxWriteAssumption
     DEF WriterWrite, WriteId, IInv, TypeOK, InStep, Together, LiveTypeOK
<1>3. /\ write_store' = [write_store EXCEPT ![n] = Record(n, k, n)]
      /\ write_hist' = [write_hist EXCEPT ![n] = Record(n, k, n)]
      /\ visible' = [visible EXCEPT ![k] = DirtyRef(n)]
      /\ next_write' = n + 1
      /\ UNCHANGED <<cache_store, flushed, next_cache, crashed>>
  BY DEF WriterWrite
<1>4. /\ ~crashed' /\ LiveTypeOK' /\ BatchHeld' /\ CleanAccounts'
      /\ LiveLog' = LiveLog /\ LiveOp' = LiveOp
  BY <1>3, CoreStepKeeps DEF InStep
<1>5. NothingForgotten /\ SameClean /\ SameHistory
  BY NoneForgotten DEF InStep, Together
<1>6. SameHistory'
  <2>1. ASSUME NEW id \in 0 .. n
        PROVE  write_hist'[id] = Record(id, LiveLog[id + 1].key, id)
    <3>1. CASE id = n
      BY <1>1, <1>2, <1>3, <3>1
    <3>2. CASE id # n
      <4>1. id \in 0 .. n - 1
        BY <1>2, <3>2
      <4>2. write_hist[id] = Record(id, LiveLog[id + 1].key, id)
        BY <1>5, <4>1 DEF SameHistory
      <4> QED
        BY <1>2, <1>3, <3>2, <4>2
    <3> QED
      BY <3>1, <3>2
  <2>2. \A i \in DOMAIN LiveLog : LiveLog[i].id = i - 1
    BY <1>5 DEF SameHistory
  <2>3. next_write' <= Len(LiveLog') /\ next_write' - 1 = n
    BY <1>1, <1>2, <1>3, <1>4
  <2> HIDE DEF n
  <2> QED
    BY <1>4, <2>1, <2>2, <2>3 DEF SameHistory
<1>7. CaughtUp'
  <2>1. Len(flushed) = R /\ \A id \in WriteId : write_store[id].present => R <= id
    BY <1>1 DEF CaughtUp, CoreHas
  <2>2. R <= n
    <3>1. Len(flushed) <= next_write
      BY DEF IInv, CrashForgets
    <3> QED
      BY <2>1, <3>1
  <2>3. ASSUME NEW id \in WriteId, write_store'[id].present PROVE R <= id
    <3>1. CASE id = n
      BY <2>2, <3>1
    <3>2. CASE id # n
      BY <1>2, <1>3, <2>1, <2>3, <3>2
    <3> QED
      BY <3>1, <3>2
  <2> QED
    BY <1>3, <2>1, <2>3 DEF CaughtUp, CoreHas, liveVars
<1>8. /\ SameCounters' /\ Len(LiveLog)' = next_write' /\ live_visible' = visible'
      /\ LiveOp'.pc = "idle"
  BY <1>1, <1>3, <1>4 DEF SameCounters, liveVars
<1>9. \A j \in Key : visible'[j] = IF j = k THEN DirtyRef(n) ELSE visible[j]
  BY <1>2, <1>3
<1>10. CASE visible[k].kind # "Clean"
  <2>1. todo' = <<>>
    BY <1>10, ForgetKinds
  <2>2. Marking(Len(todo))'
    BY <1>4, <1>7, <1>8, <2>1, BackToRest
  <2>3. \A j \in Key, id \in CacheId : visible'[j] = CleanRef(id) <=> visible[j] = CleanRef(id)
    <3> HIDE DEF n
    <3> QED
      BY <1>9, <1>10 DEF DirtyRef, CleanRef
  <2>4. SameClean'
    BY <1>3, <1>5, <2>3, MarkStepClean
  <2> QED
    BY <1>4, <1>6, <2>2, <2>4 DEF InStep, Together
<1>11. CASE visible[k].kind = "Clean"
  <2>1. PICK old \in CacheId : visible[k] = CleanRef(old) /\ visible[k].id = old
    BY <1>11, RefKinds DEF IInv
  <2>2. todo' = <<DropRecord(old), Cleanup(old)>>
    BY <1>11, <2>1, ForgetKinds
  <2>3. cache_store[old].present
    BY <1>5, <2>1, CleanAtRest
  <2>4. \A j \in Key : visible[j] = CleanRef(old) => j = k
    BY <2>1, <2>3, CleanUnique
  <2>5. \A j \in Key : visible'[j] # CleanRef(old)
    <3> HIDE DEF n
    <3> QED
      BY <1>9, <2>4 DEF DirtyRef, CleanRef
  <2>6. live_visible' = WithoutRef(CleanRef(old))'
    <3>1. visible' = [j \in Key |-> visible'[j]]
      BY <1>2, <1>3
    <3>2. visible' = [j \in Key |-> IF visible'[j] = CleanRef(old) THEN NoRef ELSE visible'[j]]
      BY <2>5, <3>1
    <3>3. CleanRef(old)' = CleanRef(old) /\ NoRef' = NoRef
      BY DEF CleanRef, NoRef
    <3> QED
      BY <1>8, <3>2, <3>3 DEF WithoutRef
  <2>7. Forgetting(old)'
    <3>1. todo' = <<DropRecord(old), Cleanup(old)>>'
      BY <2>2 DEF DropRecord, Cleanup
    <3> QED
      BY <1>7, <1>8, <2>6, <3>1 DEF Forgetting
  <2>8. Upcoming(DropRecord(old))'
    BY <2>2 DEF Upcoming, DropRecord
  <2>9. ASSUME NEW id \in CacheId
        PROVE  /\ cache_store'[id].present =>
                    /\ cache_store'[id].value = copied'[id] /\ id < next_cache'
                    /\ id = old \/ \E j \in Key : visible'[j] = CleanRef(id)
               /\ ~cache_store'[id].present => \A j \in Key : visible'[j] # CleanRef(id)
    <3> HIDE DEF n
    <3>1. id # old => CleanRef(id) # CleanRef(old)
      BY DEF CleanRef
    <3>2. CASE cache_store[id].present /\ id # old
      <4>1. PICK j \in Key : visible[j] = CleanRef(id)
        BY <1>5, <3>2, CleanAtRest
      <4>2. visible'[j] = CleanRef(id)
        BY <1>9, <2>1, <3>1, <3>2, <4>1
      <4> QED
        BY <1>3, <1>5, <3>2, <4>2, CleanAtRest
    <3>3. CASE id = old
      BY <1>3, <1>5, <2>3, <3>3, CleanAtRest
    <3>4. CASE ~cache_store[id].present
      <4>1. \A j \in Key : visible[j] # CleanRef(id)
        BY <1>5, <3>4, CleanAtRest
      <4>2. \A j \in Key : visible'[j] # CleanRef(id)
        BY <1>9, <4>1 DEF DirtyRef, CleanRef
      <4> QED
        BY <1>3, <3>4, <4>2
    <3> QED
      BY <3>2, <3>3, <3>4
  <2>10. SameClean'
    BY <2>8, <2>9 DEF SameClean, CleanRef
  <2> QED
    BY <1>4, <1>6, <2>7, <2>10 DEF InStep, Together
<1> QED
  BY <1>10, <1>11

\* The core catches up with a fill.
LEMMA CoreInsertInv ==
  ASSUME IInv, IInv', InStep, LiveOp.pc = "idle",
         UNCHANGED <<liveVars, copied, batch, misuse>>,
         NEW k \in Key, Filling(k), CacheInsert(k), todo' = <<>>
  PROVE  InStep'
<1> DEFINE c == next_cache
<1>1. /\ CaughtUp /\ live_next_write = next_write /\ live_next_cache = c + 1
      /\ Len(LiveLog) = next_write /\ copied[c] = durable[k].value
      /\ live_visible = [visible EXCEPT ![k] = CleanRef(c)] /\ visible[k] = NoRef
      /\ c \in CacheId
  BY FillParts DEF Filling
<1>2. /\ c \in Nat /\ visible \in [Key -> VisibleRef]
      /\ cache_store \in [CacheId -> CleanRecord \cup {Absent}]
  BY CoreTypes DEF IInv, TypeOK
<1>3. /\ cache_store' = [cache_store EXCEPT ![c] = Record(c, k, durable[k].value)]
      /\ visible' = [visible EXCEPT ![k] = CleanRef(c)]
      /\ next_cache' = c + 1
      /\ UNCHANGED <<write_store, write_hist, flushed, next_write, crashed>>
  BY DEF CacheInsert
<1>4. /\ ~crashed' /\ LiveTypeOK' /\ BatchHeld' /\ CleanAccounts'
      /\ LiveLog' = LiveLog /\ LiveOp' = LiveOp
  BY <1>3, CoreStepKeeps DEF InStep
<1>5. NothingForgotten /\ SameClean /\ SameHistory
  BY NoneForgotten DEF InStep, Together
<1>6. SameHistory'
  BY <1>3, <1>4, <1>5, HistoryKept
<1>7. CaughtUp'
  BY <1>1, <1>3 DEF CaughtUp, CoreHas, liveVars
<1>8. /\ SameCounters' /\ Len(LiveLog)' = next_write' /\ live_visible' = visible'
      /\ LiveOp'.pc = "idle"
  BY <1>1, <1>3, <1>4 DEF SameCounters, liveVars
<1>9. Marking(Len(todo))'
  BY <1>4, <1>7, <1>8, BackToRest
<1>10. ASSUME NEW id \in CacheId
       PROVE  /\ cache_store'[id].present =>
                   /\ cache_store'[id].value = copied'[id] /\ id < next_cache'
                   /\ \E j \in Key : visible'[j] = CleanRef(id)
              /\ ~cache_store'[id].present => \A j \in Key : visible'[j] # CleanRef(id)
  <2>1. \A j \in Key : visible'[j] = IF j = k THEN CleanRef(c) ELSE visible[j]
    BY <1>2, <1>3
  <2>2. cache_store'[id] = IF id = c THEN Record(c, k, durable[k].value) ELSE cache_store[id]
    BY <1>2, <1>3
  <2>3. id \in Nat /\ next_cache' = c + 1
    BY <1>3, MaxCacheAssumption DEF CacheId
  <2> HIDE DEF c
  <2>4. CASE id = c
    <3>1. cache_store'[id].present /\ cache_store'[id].value = copied'[id]
      BY <1>1, <2>2, <2>4 DEF Record
    <3>2. visible'[k] = CleanRef(id)
      BY <2>1, <2>4
    <3> QED
      BY <1>2, <2>3, <2>4, <3>1, <3>2
  <2>5. CASE id # c /\ cache_store[id].present
    <3>1. /\ cache_store[id].value = copied[id] /\ id < next_cache
          /\ \E j \in Key : visible[j] = CleanRef(id)
      BY <1>5, <2>5, CleanAtRest
    <3>2. PICK j \in Key : visible[j] = CleanRef(id)
      BY <3>1
    <3>3. visible'[j] = CleanRef(id)
      BY <1>1, <2>1, <3>2 DEF NoRef, CleanRef
    <3>4. id < next_cache'
      BY <1>2, <2>3, <3>1 DEF c
    <3> QED
      BY <2>2, <2>5, <3>1, <3>3, <3>4
  <2>6. CASE id # c /\ ~cache_store[id].present
    <3>1. \A j \in Key : visible[j] # CleanRef(id)
      BY <1>5, <2>6, CleanAtRest
    <3>2. \A j \in Key : visible'[j] # CleanRef(id)
      BY <2>1, <2>6, <3>1 DEF CleanRef
    <3> QED
      BY <2>2, <2>6, <3>2
  <2> QED
    BY <2>4, <2>5, <2>6
<1>11. SameClean'
  BY <1>10 DEF SameClean, CleanRef
<1> QED
  BY <1>4, <1>6, <1>9, <1>11 DEF InStep, Together

\* When the next step forgets a clean record, no other is on its way out.
LEMMA OnlyForgotten ==
  ASSUME todo # <<>>, NEW id \in CacheId, NEW c \in CacheId
  PROVE  /\ Head(todo) = DropRecord(id) =>
              ~Upcoming(Cleanup(c)) /\ (c # id => ~Upcoming(DropRecord(c)))
         /\ Head(todo) = Cleanup(id) =>
              ~Upcoming(DropRecord(c)) /\ (c # id => ~Upcoming(Cleanup(c)))
<1>1. \A i : /\ DropRecord(i).action = "CacheDropRecord" /\ DropRecord(i).id = i
             /\ Cleanup(i).action = "CacheCleanupVisible" /\ Cleanup(i).id = i
  BY DEF DropRecord, Cleanup
<1> QED
  BY <1>1 DEF Upcoming

\* The core drops a clean record; its reference dangles until the cleanup.
LEMMA CoreForgetInv ==
  ASSUME IInv, IInv', InStep, LiveOp.pc = "idle",
         UNCHANGED <<liveVars, copied, batch, misuse>>,
         NEW id \in CacheId, Forgetting(id), CacheDropRecord(id),
         todo' = <<Cleanup(id)>>, Head(todo) = DropRecord(id)
  PROVE  InStep'
<1>1. /\ CaughtUp /\ SameCounters /\ Len(LiveLog) = next_write /\ todo # <<>>
      /\ live_visible = WithoutRef(CleanRef(id))
  BY DEF Forgetting
<1>2. cache_store \in [CacheId -> CleanRecord \cup {Absent}]
  BY DEF IInv, TypeOK
<1>3. /\ cache_store' = [cache_store EXCEPT ![id] = Absent]
      /\ UNCHANGED <<visible, write_store, write_hist, flushed, next_write, next_cache,
                     crashed>>
  BY DEF CacheDropRecord
<1>4. /\ ~crashed' /\ LiveTypeOK' /\ BatchHeld' /\ CleanAccounts'
      /\ LiveLog' = LiveLog /\ LiveOp' = LiveOp
  BY <1>3, CoreStepKeeps DEF InStep
<1>5. SameHistory' /\ SameClean
  BY <1>3, <1>4, HistoryKept DEF InStep, Together
<1>6. Forgetting(id)'
  <2>1. CaughtUp' /\ SameCounters' /\ Len(LiveLog)' = next_write' /\ LiveOp'.pc = "idle"
    BY <1>1, <1>3, <1>4 DEF CaughtUp, CoreHas, SameCounters, liveVars
  <2>2. live_visible' = WithoutRef(CleanRef(id))'
    BY <1>1, <1>3 DEF liveVars, WithoutRef, CleanRef
  <2>3. todo' = <<Cleanup(id)>>'
    BY DEF Cleanup
  <2> QED
    BY <2>1, <2>2, <2>3 DEF Forgetting
<1>7. Upcoming(Cleanup(id))'
  BY DEF Upcoming, Cleanup
<1>8. ASSUME NEW c \in CacheId
      PROVE  /\ cache_store'[c].present =>
                  /\ cache_store'[c].value = copied'[c] /\ c < next_cache'
                  /\ \E k \in Key : visible'[k] = CleanRef(c)
             /\ ~cache_store'[c].present => c = id \/ \A k \in Key : visible'[k] # CleanRef(c)
  <2>1. CASE c = id
    BY <1>2, <1>3, <2>1 DEF Absent
  <2>2. CASE c # id
    <3>1. cache_store'[c] = cache_store[c]
      BY <1>2, <1>3, <2>2
    <3>2. ~Upcoming(Cleanup(c)) /\ ~Upcoming(DropRecord(c))
      BY <1>1, <2>2, OnlyForgotten
    <3> QED
      BY <1>3, <1>5, <3>1, <3>2 DEF SameClean
  <2> QED
    BY <2>1, <2>2
<1>9. SameClean'
  BY <1>7, <1>8 DEF SameClean, CleanRef
<1> QED
  BY <1>4, <1>5, <1>6, <1>9 DEF InStep, Together

\* The core cleans the dangling reference up, which is gone in the live map.
LEMMA CoreCleanupInv ==
  ASSUME IInv, IInv', InStep, LiveOp.pc = "idle",
         UNCHANGED <<liveVars, copied, batch, misuse>>,
         NEW id \in CacheId, Forgetting(id), CacheCleanupVisible(id),
         todo' = <<>>, Head(todo) = Cleanup(id)
  PROVE  InStep'
<1>1. /\ CaughtUp /\ SameCounters /\ Len(LiveLog) = next_write /\ todo # <<>>
      /\ live_visible = WithoutRef(CleanRef(id))
  BY DEF Forgetting
<1>2. /\ visible' = WithoutRef(CleanRef(id)) /\ ~cache_store[id].present
      /\ UNCHANGED <<cache_store, write_store, write_hist, flushed, next_write, next_cache,
                     crashed>>
  BY DEF CacheCleanupVisible
<1>3. /\ ~crashed' /\ LiveTypeOK' /\ BatchHeld' /\ CleanAccounts'
      /\ LiveLog' = LiveLog /\ LiveOp' = LiveOp
  BY <1>2, CoreStepKeeps DEF InStep
<1>4. SameHistory' /\ SameClean
  BY <1>2, <1>3, HistoryKept DEF InStep, Together
<1>5. Marking(Len(todo))'
  <2>1. CaughtUp' /\ SameCounters' /\ Len(LiveLog)' = next_write' /\ LiveOp'.pc = "idle"
    BY <1>1, <1>2, <1>3 DEF CaughtUp, CoreHas, SameCounters, liveVars
  <2>2. live_visible' = visible'
    BY <1>1, <1>2 DEF liveVars
  <2> QED
    BY <1>3, <2>1, <2>2, BackToRest
<1>6. ASSUME NEW c \in CacheId
      PROVE  /\ cache_store'[c].present =>
                  /\ cache_store'[c].value = copied'[c] /\ c < next_cache'
                  /\ \E k \in Key : visible'[k] = CleanRef(c)
             /\ ~cache_store'[c].present => \A k \in Key : visible'[k] # CleanRef(c)
  <2>1. \A k \in Key : visible'[k] = IF visible[k] = CleanRef(id) THEN NoRef ELSE visible[k]
    BY <1>2, WithoutRefKeeps
  <2>2. CASE c = id
    BY <1>2, <2>1, <2>2 DEF NoRef, CleanRef
  <2>3. CASE c # id
    <3>1. ~Upcoming(Cleanup(c)) /\ ~Upcoming(DropRecord(c))
      BY <1>1, <2>3, OnlyForgotten
    <3>2. CleanRef(c) # CleanRef(id) /\ CleanRef(c) # NoRef
      BY <2>3 DEF CleanRef, NoRef
    <3>3. \A k \in Key : visible'[k] = CleanRef(c) <=> visible[k] = CleanRef(c)
      BY <2>1, <3>2
    <3> QED
      BY <1>2, <1>4, <3>1, <3>3 DEF SameClean
  <2> QED
    BY <2>2, <2>3
<1>7. SameClean'
  BY <1>6 DEF SameClean, CleanRef
<1> QED
  BY <1>3, <1>4, <1>5, <1>7 DEF InStep, Together

\* Every step of the core after a call.
LEMMA CoreStepInv ==
  ASSUME IInv, IInv', InStep, CoreStep
  PROVE  InStep'
BY CoreStepKinds, CoreFlushInv, CoreDropInv, CoreWriteInv, CoreInsertInv, CoreForgetInv,
   CoreCleanupInv

(***************************************************************************)
(* A fill of a key that has an entry.                                      *)
(***************************************************************************)

\* The live map finds the entry, and inserts nothing.
LEMMA RefusedLiveStep ==
  ASSUME LiveTypeOK, NEW k \in Key, Refused(k), LiveStep
  PROVE  /\ LiveOp.pc = "entry" /\ todo = <<InsertOf(k)>>
         /\ live_op' = [live_op EXCEPT ![harness] = [pc |-> "idle"]]
         /\ UNCHANGED <<vars, copied, todo, batch, misuse, live_visible, live_next_write,
                        live_pending, live_inflight, live_retired, live_fifo,
                        live_clean_count, live_next_cache, live_held>>
<1>1. UNCHANGED <<vars, copied, todo, batch, misuse>> /\ Live!Continue(harness)
  BY DEF LiveStep
<1>2. /\ LiveOp.pc \in {"entry", "idle"} /\ live_visible[k] # NoRef
      /\ LiveOp.pc = "entry" => LiveOp.key = k /\ todo = <<InsertOf(k)>>
  <2>1. /\ visible[k] # NoRef /\ live_visible = visible
        /\ \/ /\ todo = <<InsertOf(k)>>
              /\ LiveOp = [pc |-> "entry", key |-> k, id |-> next_cache]
           \/ LiveOp = [pc |-> "idle"]
    BY DEF Refused
  <2> QED
    BY <2>1
<1>3. Live!InsertVacant(harness) \/ Live!FindOccupied(harness)
  BY <1>1, <1>2 DEF LiveOp, Live!Continue, Live!InsertDirty, Live!InsertClean,
     Live!AppendDirty, Live!PublishDirty, Live!CountClean, Live!EnqueuePush,
     Live!EnqueueFull, Live!EnqueuePop, Live!EnqueueDrop, Live!EnqueueUncount,
     Live!EvictUncount, Live!CleanupRemove, Live!Unpublish
<1>4. ~Live!InsertVacant(harness)
  BY <1>2 DEF Live!InsertVacant, Live!VacantEntry, LiveOp, Live!NoRef, NoRef
<1>5. /\ LiveOp.pc = "entry" /\ Live!Return(harness)
      /\ UNCHANGED <<live_visible, live_next_write, live_pending, live_inflight,
                     live_retired, live_fifo, live_clean_count, live_next_cache, live_held>>
  BY <1>3, <1>4 DEF Live!FindOccupied, Live!logVars, Live!cleanVars, LiveOp
<1> QED
  BY <1>1, <1>2, <1>5, OpMoves

\* The id is taken all the same.
LEMMA RefusedLiveInv ==
  ASSUME Behind, LiveStep
  PROVE  Behind'
<1>1. PICK k \in Key : Refused(k)
  BY DEF Behind
<1>2. Together /\ LiveTypeOK
  BY DEF Behind, Together
<1>3. /\ LiveOp.pc = "entry" /\ todo = <<InsertOf(k)>>
      /\ live_op' = [live_op EXCEPT ![harness] = [pc |-> "idle"]]
      /\ UNCHANGED <<vars, copied, todo, batch, misuse, live_visible, live_next_write,
                     live_pending, live_inflight, live_retired, live_fifo,
                     live_clean_count, live_next_cache, live_held>>
  BY <1>1, <1>2, RefusedLiveStep
<1>4. LiveOp' = [pc |-> "idle"] /\ live_op' \in [{harness} -> LiveOpType]
  <2>1. [pc |-> "idle"] \in LiveOpType
    BY DEF LiveOpType
  <2> QED
    BY <1>2, <1>3, <2>1, OpMoves
<1>5. LiveTypeOK'
  BY <1>2, <1>3, <1>4 DEF LiveTypeOK
<1>6. LiveLog' = LiveLog /\ Live!VisibleClean' = Live!VisibleClean
  BY <1>3 DEF LiveLog, LiveQueue, Live!VisibleClean
<1>7. SameHistory'
  BY <1>2, <1>3, <1>6, HistoryKept DEF Together, vars
<1>8. CleanAccounts'
  <2>1. /\ IsFiniteSet(Live!VisibleClean)
        /\ live_clean_count = Cardinality(Live!VisibleClean) + 0 - 0
        /\ Cardinality(Live!VisibleClean) + 1 <= live_next_cache
        /\ Len(live_fifo) + 1 <= live_next_cache
        /\ live_next_cache <= MaxCache
    BY <1>2, <1>3 DEF Together, CleanAccounts
  <2>2. /\ Cardinality(Live!VisibleClean) \in Nat /\ Len(live_fifo) \in Nat
        /\ live_next_cache \in Nat
    BY <1>2, <2>1, FS_CardinalityType DEF LiveTypeOK
  <2>3. LiveOp'.pc = "idle"
    BY <1>4
  <2>4. /\ live_clean_count' = Cardinality(Live!VisibleClean') + 0 - 0
        /\ Cardinality(Live!VisibleClean') + 0 <= live_next_cache'
        /\ Len(live_fifo') + 0 <= live_next_cache'
        /\ live_next_cache' <= MaxCache
    BY <1>3, <1>6, <2>1, <2>2
  <2> QED
    BY <1>6, <2>1, <2>3, <2>4 DEF CleanAccounts
<1>9. Refused(k)'
  <2>1. /\ visible[k] # NoRef /\ CaughtUp /\ live_next_write = next_write
        /\ live_next_cache = next_cache + 1 /\ Len(LiveLog) = next_write
        /\ live_visible = visible
    BY <1>1 DEF Refused
  <2>2. /\ (visible[k] # NoRef)' /\ CaughtUp' /\ todo' = <<InsertOf(k)>>'
        /\ live_next_write' = next_write' /\ live_next_cache' = next_cache' + 1
        /\ Len(LiveLog)' = next_write' /\ live_visible' = visible'
    BY <1>3, <1>6, <2>1 DEF CaughtUp, CoreHas, InsertOf, NoRef, vars
  <2> QED
    BY <1>4, <2>2 DEF Refused
<1> QED
  BY <1>2, <1>3, <1>5, <1>7, <1>8, <1>9, LiveStepKeeps DEF Behind, Together

\* When nothing is left to do, or only an insertion, no clean record is on
\* its way out.
LEMMA RefusedForgetsNone ==
  ASSUME NEW k, todo = <<>> \/ todo = <<InsertOf(k)>>
  PROVE  NothingForgotten
<1>1. todo # <<>> => Head(todo).action = "CacheInsert"
  BY DEF InsertOf
<1>2. \A id : /\ DropRecord(id).action = "CacheDropRecord"
              /\ Cleanup(id).action = "CacheCleanupVisible"
  BY DEF DropRecord, Cleanup
<1> QED
  BY <1>1, <1>2 DEF NothingForgotten, Upcoming

\* The core stays a clean id behind.
LEMMA RefusedCoreInv ==
  ASSUME Behind, CoreStep
  PROVE  Behind'
<1>1. PICK k \in Key : Refused(k)
  BY DEF Behind
<1>2. /\ UNCHANGED <<vars, liveVars, copied, batch, misuse>>
      /\ todo = <<InsertOf(k)>> /\ todo' = <<>> /\ LiveOp.pc = "idle"
  BY <1>1, RefusedCoreStep
<1>3. Together
  BY DEF Behind
<1>4. /\ ~crashed' /\ LiveTypeOK' /\ BatchHeld' /\ CleanAccounts'
      /\ LiveLog' = LiveLog /\ LiveOp' = LiveOp
  BY <1>2, <1>3, CoreStepKeeps DEF vars
<1>5. SameHistory'
  BY <1>2, <1>3, <1>4, HistoryKept DEF Together, vars
<1>6. SameClean'
  BY <1>2, <1>3, RefusedForgetsNone, MarkStepClean DEF Together, vars
<1>7. Refused(k)'
  <2>1. /\ visible[k] # NoRef /\ CaughtUp /\ live_next_write = next_write
        /\ live_next_cache = next_cache + 1 /\ Len(LiveLog) = next_write
        /\ live_visible = visible /\ LiveOp = [pc |-> "idle"]
    <3>1. LiveOp # [pc |-> "entry", key |-> k, id |-> next_cache]
      BY <1>2
    <3> QED
      BY <1>1, <3>1 DEF Refused
  <2>2. /\ (visible[k] # NoRef)' /\ CaughtUp' /\ LiveOp' = [pc |-> "idle"]
        /\ live_next_write' = next_write' /\ live_next_cache' = next_cache' + 1
        /\ Len(LiveLog)' = next_write' /\ live_visible' = visible'
    BY <1>2, <1>4, <2>1 DEF CaughtUp, CoreHas, NoRef, vars, liveVars
  <2> QED
    BY <1>2, <2>2 DEF Refused
<1> QED
  BY <1>4, <1>5, <1>6, <1>7 DEF Behind, Together

\* A step that changes nothing.
LEMMA RefusedStutter == Behind /\ UNCHANGED confVars => Behind'
<1> SUFFICES ASSUME Behind, UNCHANGED confVars PROVE Behind'
  OBVIOUS
<1>1. UNCHANGED <<vars, liveVars, copied, todo, batch, misuse>> /\ Together
  BY DEF confVars, Behind
<1>2. /\ ~crashed' /\ LiveTypeOK' /\ BatchHeld' /\ CleanAccounts'
      /\ LiveLog' = LiveLog /\ LiveOp' = LiveOp
  BY <1>1, CoreStepKeeps DEF vars
<1>3. SameHistory'
  BY <1>1, <1>2, HistoryKept DEF Together, vars
<1>4. SameClean'
  BY <1>1 DEF Together, SameClean, Upcoming, vars
<1>5. PICK k \in Key : Refused(k)
  BY DEF Behind
<1>6. Refused(k)'
  BY <1>1, <1>2, <1>5 DEF Refused, InsertOf, NoRef, CaughtUp, CoreHas, vars, liveVars
<1> QED
  BY <1>2, <1>3, <1>4, <1>6 DEF Behind, Together

(***************************************************************************)
(* The invariant of the harness.                                           *)
(***************************************************************************)

\* Before the first call both sides are empty.
LEMMA InitConfInv == ConfInit => ConfInv
<1> SUFFICES ASSUME ConfInit PROVE ConfInv
  OBVIOUS
<1>1. /\ Init /\ Live!Init /\ copied = [id \in CacheId |-> 0] /\ todo = <<>>
      /\ batch = <<>> /\ misuse = "none"
  BY DEF ConfInit
<1>2. /\ live_visible = [k \in Key |-> NoRef] /\ live_next_write = 0
      /\ live_pending = <<>> /\ live_inflight = <<>> /\ live_retired = <<>>
      /\ live_fifo = <<>> /\ live_clean_count = 0 /\ live_next_cache = 0
      /\ live_op = [t \in {harness} |-> [pc |-> "idle"]]
      /\ live_held = [t \in {harness} |-> <<>>]
  BY <1>1 DEF Live!Init, Live!Dirty!Init, Live!NoRef, NoRef, Live!Idle
<1>3. LiveTypeOK
  <2>1. [pc |-> "idle"] \in LiveOpType
    BY DEF LiveOpType
  <2> HIDE DEF LiveOpType
  <2>2. copied \in [CacheId -> Int]
    BY <1>1
  <2>3. /\ <<>> \in Seq(LiveRecord) /\ <<>> \in Seq([id : CacheId, key : Key])
    OBVIOUS
  <2>4. live_op \in [{harness} -> LiveOpType] /\ live_held \in [{harness} -> Seq(LiveRecord)]
    BY <1>2, <2>1, <2>3
  <2> QED
    BY <1>2, <2>2, <2>3, <2>4 DEF LiveTypeOK, VisibleRef
<1>4. LiveOp.pc = "idle" /\ LiveLog = <<>>
  BY <1>2 DEF LiveOp, LiveLog, LiveQueue
<1>5. Len(<<>>) = 0 /\ DOMAIN <<>> = {}
  OBVIOUS
<1>6. next_write = 0 /\ next_cache = 0 /\ visible = [k \in Key |-> NoRef] /\ flushed = <<>>
      /\ write_store = [id \in WriteId |-> Absent] /\ ~crashed
      /\ cache_store = [id \in CacheId |-> Absent]
  BY <1>1 DEF Init
<1>7. SameHistory
  <2>1. 0 .. 0 - 1 = {}
    OBVIOUS
  <2> QED
    BY <1>4, <1>5, <1>6, <2>1 DEF SameHistory
<1>8. BatchHeld
  BY <1>1, <1>2 DEF BatchHeld, Ids
<1>9. SameClean
  <2>1. \A id : ~Absent.present /\ NoRef # CleanRef(id)
    BY DEF Absent, NoRef, CleanRef
  <2> QED
    BY <1>6, <2>1 DEF SameClean
<1>10. CleanAccounts
  <2>1. Live!VisibleClean = {}
    BY <1>2 DEF Live!VisibleClean, NoRef
  <2>2. IsFiniteSet({}) /\ Cardinality({}) = 0
    BY FS_EmptySet
  <2> QED
    BY <1>2, <1>4, <1>5, <2>1, <2>2, MaxCacheAssumption DEF CleanAccounts
<1>11. Marking(Len(todo))
  <2>1. CaughtUp
    BY <1>2, <1>5, <1>6 DEF CaughtUp, CoreHas, Absent
  <2>2. SameCounters
    BY <1>2, <1>6 DEF SameCounters
  <2> QED
    BY <1>1, <1>2, <1>3, <1>4, <1>5, <1>6, <2>1, <2>2, InitIInv, RestIsMarking
<1> QED
  BY <1>1, <1>3, <1>6, <1>7, <1>8, <1>9, <1>10, <1>11 DEF ConfInv, InStep, Together

\* A step that changes nothing.
LEMMA InStepStutter == InStep /\ UNCHANGED confVars => InStep'
<1> SUFFICES ASSUME InStep, UNCHANGED confVars PROVE InStep'
  OBVIOUS
<1>1. UNCHANGED <<vars, liveVars, copied, todo, batch, misuse>>
  BY DEF confVars
<1>2. /\ ~crashed' /\ LiveTypeOK' /\ BatchHeld' /\ CleanAccounts'
      /\ LiveLog' = LiveLog /\ LiveOp' = LiveOp
  BY <1>1, CoreStepKeeps DEF InStep, vars
<1>3. SameHistory'
  BY <1>1, <1>2, HistoryKept DEF InStep, Together, vars
<1>4. SameClean'
  BY <1>1 DEF InStep, Together, SameClean, Upcoming, vars
<1>5. CaughtUp' = CaughtUp /\ SameCounters' = SameCounters
  BY <1>1 DEF CaughtUp, CoreHas, SameCounters, vars, liveVars
<1>6. CASE Marking(Len(todo))
  <2>1. Marking(Len(todo))'
    BY <1>1, <1>2, <1>5, <1>6 DEF Marking, MarkSteps, CoreHas, WithoutOlder, vars, liveVars
  <2> QED
    BY <1>2, <1>3, <1>4, <2>1 DEF InStep, Together
<1>7. CASE \E k \in Key : Writing(k)
  <2>1. PICK k \in Key : Writing(k)
    BY <1>7
  <2>2. Writing(k)'
    BY <1>1, <1>2, <1>5, <2>1 DEF Writing, WriteOf, Forget, DirtyRef, vars, liveVars
  <2> QED
    BY <1>2, <1>3, <1>4, <2>2 DEF InStep, Together
<1>8. CASE \E k \in Key : Filling(k)
  <2>1. PICK k \in Key : Filling(k)
    BY <1>8
  <2>2. Filling(k)'
    BY <1>1, <1>2, <1>5, <2>1 DEF Filling, InsertOf, Cacheable, CleanRef, vars, liveVars
  <2> QED
    BY <1>2, <1>3, <1>4, <2>2 DEF InStep, Together
<1>9. CASE \E id \in CacheId : Forgetting(id)
  <2>1. PICK id \in CacheId : Forgetting(id)
    BY <1>9
  <2>2. Forgetting(id)'
    BY <1>1, <1>2, <1>5, <2>1 DEF Forgetting, DropRecord, Cleanup, WithoutRef, CleanRef,
       vars, liveVars
  <2> QED
    BY <1>2, <1>3, <1>4, <2>2 DEF InStep, Together
<1> QED
  BY <1>6, <1>7, <1>8, <1>9 DEF InStep, Together

\* The ids of a batch that is not empty.
LEMMA IdsEmpty ==
  ASSUME NEW batch_ \in Seq(LiveRecord), batch_ # <<>>
  PROVE  Ids(batch_) # <<>>
<1>1. Len(batch_) # 0 /\ Len(batch_) \in Nat
  OBVIOUS
<1>2. 1 \in DOMAIN Ids(batch_)
  BY <1>1 DEF Ids
<1> QED
  BY <1>2

\* A call is made only when the last one has left the two sides in step.
LEMMA ReadyInStep ==
  ASSUME IInv, ConfInv, Ready
  PROVE  Quiet /\ InStep /\ misuse = "none"
<1>1. /\ Quiet /\ Ids(live_inflight) = batch /\ live_next_cache = next_cache
  BY DEF Ready, AssertsPass
<1>2. next_cache \in Nat
  BY CoreTypes
<1>3. misuse # "fill"
  <2> SUFFICES ASSUME misuse = "fill" PROVE FALSE
    OBVIOUS
  <2>1. live_next_cache = next_cache + 1
    BY DEF ConfInv, Behind, Refused
  <2> QED
    BY <1>1, <1>2, <2>1
<1>4. InStep
  BY <1>3 DEF ConfInv
<1>5. misuse # "mark"
  <2> SUFFICES ASSUME misuse = "mark" PROVE FALSE
    OBVIOUS
  <2>1. batch = <<>> /\ live_inflight # <<>> /\ live_inflight \in Seq(LiveRecord)
    BY <1>4 DEF InStep, Together, BatchHeld, LiveTypeOK
  <2> QED
    BY <1>1, <2>1, IdsEmpty
<1> QED
  BY <1>1, <1>3, <1>4, <1>5 DEF ConfInv

\* Every step keeps the core's invariant and the harness's.
LEMMA NextConfInv == IInv /\ ConfInv /\ [ConfNext]_confVars => IInv' /\ ConfInv'
<1> SUFFICES ASSUME IInv, ConfInv, [ConfNext]_confVars PROVE IInv' /\ ConfInv'
  OBVIOUS
<1>1. IInv'
  BY CoreMoves, NextIInv
<1>2. ASSUME NEW k \in Key, InsertDirty(k) PROVE ConfInv'
  <2>1. Ready /\ misuse' = "none"
    BY <1>2 DEF InsertDirty
  <2> QED
    BY <1>2, <2>1, ReadyInStep, InsertDirtyInv DEF ConfInv
<1>3. ASSUME NEW k \in Key, InsertCleanFromDurable(k) PROVE ConfInv'
  <2>1. Ready
    BY <1>3 DEF InsertCleanFromDurable
  <2>2. /\ misuse' = IF visible[k] = NoRef THEN "none" ELSE "fill"
        /\ Together'
        /\ visible[k] = NoRef => Filling(k)'
        /\ visible[k] # NoRef => Refused(k)'
    BY <1>3, <2>1, ReadyInStep, InsertCleanInv
  <2>3. CASE visible[k] = NoRef
    BY <2>2, <2>3 DEF ConfInv, InStep
  <2>4. CASE visible[k] # NoRef
    BY <2>2, <2>4 DEF ConfInv, Behind
  <2> QED
    BY <2>3, <2>4
<1>4. ASSUME NEW k \in Key, EvictClean(k) PROVE ConfInv'
  <2>1. Ready /\ misuse' = "none"
    BY <1>4 DEF EvictClean
  <2> QED
    BY <1>4, <2>1, ReadyInStep, EvictCleanInv DEF ConfInv
<1>5. ASSUME NEW limit \in Limit, FlushBatch(limit) PROVE ConfInv'
  <2>1. Ready /\ misuse' = "none"
    BY <1>5 DEF FlushBatch
  <2> QED
    BY <1>5, <2>1, ReadyInStep, FlushBatchInv DEF ConfInv
<1>6. CASE MarkInFlight
  <2>1. Ready /\ misuse' = "none"
    BY <1>6 DEF MarkInFlight
  <2> QED
    BY <1>1, <1>6, <2>1, ReadyInStep, MarkInFlightInv DEF ConfInv
<1>7. ASSUME NEW limit \in Limit, MarkNothing(limit) PROVE ConfInv'
  <2>1. Ready /\ misuse' \in {"none", "mark"}
    BY <1>7 DEF MarkNothing
  <2> QED
    BY <1>7, <2>1, ReadyInStep, MarkNothingInv DEF ConfInv
<1>8. CASE LiveStep
  <2>1. misuse' = misuse
    BY <1>8 DEF LiveStep
  <2> QED
    BY <1>1, <1>8, <2>1, LiveStepInv, RefusedLiveInv DEF ConfInv
<1>9. CASE CoreStep
  <2>1. misuse' = misuse
    BY <1>9 DEF CoreStep
  <2> QED
    BY <1>1, <1>9, <2>1, CoreStepInv, RefusedCoreInv DEF ConfInv
<1>10. CASE UNCHANGED confVars
  <2>1. misuse' = misuse
    BY <1>10 DEF confVars
  <2> QED
    BY <1>1, <1>10, <2>1, InStepStutter, RefusedStutter DEF ConfInv
<1>11. CASE Panicked
  BY <1>10, <1>11 DEF Panicked
<1> QED
  BY <1>1, <1>2, <1>3, <1>4, <1>5, <1>6, <1>7, <1>8, <1>9, <1>10, <1>11
     DEF ConfNext, MarkFlushed

\* In every reachable state of the harness the live map and the core are no
\* further apart than the call in progress makes them, the calls that end in
\* a failed assertion included.
THEOREM ConfInvariance == ConfSpec => []ConfInv
<1>1. ConfInit => IInv /\ ConfInv
  BY InitIInv, InitConfInv DEF ConfInit
<1> QED
  BY <1>1, NextConfInv, PTL DEF ConfSpec

\* Whatever its calls, the ModelSteps the harness applies are a behaviour of
\* the core from its initial state: what is proved of the core holds here.
THEOREM CoreFollows == ConfSpec => Spec
<1>1. ConfInit => Init /\ IInv /\ ConfInv
  BY InitIInv, InitConfInv DEF ConfInit
<1> QED
  BY <1>1, NextConfInv, CoreMoves, PTL DEF ConfSpec, Spec

\* The core's invariants hold with the harness's, and records stay at their ids.
LEMMA CoreInvariance == ConfSpec => [](IInv /\ CacheAtPlace /\ ConfInv)
<1>1. ConfInit => IInv /\ CacheAtPlace /\ ConfInv
  BY InitIInv, InitPlaces, InitConfInv DEF ConfInit
<1>2. IInv /\ CacheAtPlace /\ ConfInv /\ [ConfNext]_confVars
        => IInv' /\ CacheAtPlace' /\ ConfInv'
  BY NextConfInv, NextPlaces, CoreMoves DEF IInv
<1> QED
  BY <1>1, <1>2, PTL DEF ConfSpec

(***************************************************************************)
(* What the harness asserts.                                               *)
(***************************************************************************)

\* A call is over and the core has caught up, but for its clean ids.
AtEndOfCall ==
  /\ Together
  /\ todo = <<>> /\ LiveOp.pc = "idle" /\ CaughtUp
  /\ Len(LiveLog) = next_write /\ live_visible = visible
  /\ live_next_write = next_write

\* That is so after every call; only a fill of a key that has an entry takes
\* a clean id which the core does not.
LEMMA EndOfCall ==
  ASSUME IInv, ConfInv, Quiet
  PROVE  /\ AtEndOfCall
         /\ live_next_cache = next_cache + (IF misuse = "fill" THEN 1 ELSE 0)
<1>1. CASE misuse = "fill"
  <2>1. Behind
    BY <1>1 DEF ConfInv
  <2>2. PICK k \in Key : Refused(k)
    BY <2>1 DEF Behind
  <2>3. todo = <<>> /\ LiveOp.pc = "idle"
    BY DEF Quiet, Live!Quiet, LiveOp
  <2>4. /\ CaughtUp /\ Len(LiveLog) = next_write /\ live_visible = visible
        /\ live_next_write = next_write /\ live_next_cache = next_cache + 1
    BY <2>2 DEF Refused
  <2> QED
    BY <1>1, <2>1, <2>3, <2>4 DEF AtEndOfCall, Behind
<1>2. CASE misuse # "fill"
  <2>1. InStep
    BY <1>2 DEF ConfInv
  <2>2. /\ todo = <<>> /\ LiveOp = [pc |-> "idle"] /\ CaughtUp /\ SameCounters
        /\ Len(LiveLog) = next_write /\ live_visible = visible
    BY <2>1, AtRest
  <2>3. next_cache + 0 = next_cache
    BY CoreTypes
  <2> QED
    BY <1>2, <2>1, <2>2, <2>3 DEF AtEndOfCall, InStep, SameCounters
<1> QED
  BY <1>1, <1>2

\* Between calls the log of the live map and the history of the core are one:
\* the core holds the record of an id exactly if the live map has it queued.
LEMMA QueuesAgree ==
  ASSUME IInv, AtEndOfCall
  PROVE  /\ LiveQueue \in Seq(LiveRecord) /\ dirty_q = Ids(LiveQueue)
         /\ \A i \in 1 .. Len(LiveQueue) :
              LET r == LiveQueue[i] IN
              r.id \in WriteId /\ write_store[r.id] = Record(r.id, r.key, r.id)
         /\ \A id \in WriteId : write_store[id].present =>
              \E i \in 1 .. Len(LiveQueue) :
                LET r == LiveQueue[i] IN write_store[id] = Record(r.id, r.key, r.id)
<1>1. /\ CaughtUp /\ Len(LiveLog) = next_write /\ LiveTypeOK /\ SameHistory /\ ~crashed
  BY DEF AtEndOfCall, Together
<1>2. PICK R \in Nat : R = Len(live_retired) /\ R = Len(flushed)
  BY <1>1 DEF CaughtUp, CoreHas, LiveTypeOK
<1>3. PICK Q \in Nat : Q = Len(LiveQueue)
  BY <1>1, LiveLogParts
<1>4. /\ LiveQueue \in Seq(LiveRecord) /\ LiveLog \in Seq(LiveRecord)
      /\ next_write = R + Q
      /\ \A i \in 1 .. Q : LiveLog[R + i] = LiveQueue[i]
  BY <1>1, <1>2, <1>3, LiveLogParts
<1>5. \A i \in 1 .. next_write : LiveLog[i].id = i - 1
  BY <1>1, <1>4 DEF SameHistory
<1>6. ASSUME NEW i \in 1 .. Q
      PROVE  LiveQueue[i].id = R + i - 1
  <2>1. R + i \in 1 .. next_write /\ LiveQueue[i] = LiveLog[R + i]
    BY <1>4
  <2> QED
    BY <1>5, <2>1
<1>7. Len(dirty_q) = Q /\ \A i \in 1 .. Q : dirty_q[i] = R + i - 1
  <2>1. R + Len(dirty_q) = next_write /\ Len(dirty_q) \in Nat
    BY <1>1, <1>2, LogIndices DEF IInv, LogIsWriteOrder
  <2>2. Len(dirty_q) = Q
    BY <1>4, <2>1
  <2> QED
    BY <1>2, <2>2, LogIndices
<1>8. dirty_q = Ids(LiveQueue)
  <2>1. dirty_q \in Seq(WriteId)
    BY CoreTypes
  <2>2. Ids(LiveQueue) = [i \in 1 .. Q |-> LiveQueue[i].id]
    BY <1>3, <1>4 DEF Ids
  <2>3. dirty_q = [i \in 1 .. Q |-> dirty_q[i]]
    BY <1>7, <2>1
  <2> QED
    BY <1>6, <1>7, <2>2, <2>3
<1>9. ASSUME NEW id \in WriteId, R <= id, id < next_write
      PROVE  /\ write_store[id] = Record(id, LiveQueue[id + 1 - R].key, id)
             /\ id + 1 - R \in 1 .. Q /\ LiveQueue[id + 1 - R].id = id
  <2>1. id \in Nat
    BY MaxWriteAssumption DEF WriteId
  <2>2. write_store[id] = write_hist[id]
    BY <1>1, <1>2, <1>9 DEF IInv, StoreAgreesWithHistory
  <2>3. write_hist[id] = Record(id, LiveLog[id + 1].key, id)
    <3>1. id \in 0 .. next_write - 1
      BY <1>4, <1>9, <2>1
    <3> QED
      BY <1>1, <3>1 DEF SameHistory
  <2>4. id + 1 - R \in 1 .. Q
    BY <1>4, <1>9, <2>1
  <2>5. LiveLog[id + 1] = LiveQueue[id + 1 - R]
    <3>1. R + (id + 1 - R) = id + 1
      BY <2>1
    <3> QED
      BY <1>4, <2>4, <3>1
  <2>6. LiveQueue[id + 1 - R].id = R + (id + 1 - R) - 1
    BY <1>6, <2>4
  <2> QED
    BY <2>1, <2>2, <2>3, <2>4, <2>5, <2>6
<1>10. ASSUME NEW i \in 1 .. Q
       PROVE  /\ LiveQueue[i].id \in WriteId
              /\ write_store[LiveQueue[i].id]
                   = Record(LiveQueue[i].id, LiveQueue[i].key, LiveQueue[i].id)
  <2> DEFINE id == R + i - 1
  <2>1. LiveQueue[i].id = id /\ R <= id /\ id < next_write /\ id + 1 - R = i
    BY <1>4, <1>6
  <2>2. id \in WriteId
    BY <1>4, <2>1, CoreTypes, MaxWriteAssumption DEF WriteId
  <2> HIDE DEF id
  <2> QED
    BY <1>9, <2>1, <2>2
<1>11. ASSUME NEW id \in WriteId, write_store[id].present
       PROVE  R <= id /\ id < next_write
  <2>1. R <= id
    BY <1>1, <1>2, <1>11 DEF CaughtUp, CoreHas
  <2>2. write_hist[id].present
    BY <1>11 DEF IInv, StoreAgreesWithHistory
  <2> QED
    BY <2>1, <2>2 DEF IInv, HistoryComplete
<1>12. ASSUME NEW id \in WriteId, write_store[id].present
       PROVE  \E i \in 1 .. Q :
                write_store[id] = Record(LiveQueue[i].id, LiveQueue[i].key, LiveQueue[i].id)
  <2> DEFINE i == id + 1 - R
  <2>1. /\ i \in 1 .. Q /\ LiveQueue[i].id = id
        /\ write_store[id] = Record(id, LiveQueue[i].key, id)
    BY <1>9, <1>11, <1>12
  <2> HIDE DEF i
  <2> QED
    BY <2>1
<1> QED
  BY <1>3, <1>4, <1>8, <1>10, <1>12

\* Between calls the dirty records of the snapshot are those the core holds.
LEMMA DirtyAgree ==
  ASSUME IInv, AtEndOfCall
  PROVE  /\ LiveDirtyRecords = Present(write_store)
         /\ \A k \in Key : visible[k].kind = "Dirty" =>
              write_store[visible[k].id] = Record(visible[k].id, k, visible[k].id)
<1>1. live_visible = visible
  BY DEF AtEndOfCall
<1>2. DOMAIN write_store = WriteId /\ ~Absent.present
      /\ \A id \in WriteId : ~write_store[id].present => write_store[id] = Absent
  BY DEF IInv, TypeOK, Absent, DirtyRecord
<1>3. ASSUME NEW k \in Key, visible[k].kind = "Dirty"
      PROVE  /\ visible[k].id \in WriteId
             /\ write_store[visible[k].id] = Record(visible[k].id, k, visible[k].id)
  <2>1. /\ visible[k].id \in WriteId /\ write_store[visible[k].id].present
        /\ write_store[visible[k].id].key = k
    <3>1. visible[k].id \in WriteId
      BY <1>3, RefKinds DEF IInv
    <3>2. write_store[visible[k].id].present /\ write_hist[visible[k].id].key = k
      BY <1>3 DEF IInv, VisibleDirtyIsLast, LastWrite, WroteKey
    <3> QED
      BY <3>1, <3>2 DEF IInv, StoreAgreesWithHistory
  <2>2. PICK i \in 1 .. Len(LiveQueue) :
          write_store[visible[k].id]
            = Record(LiveQueue[i].id, LiveQueue[i].key, LiveQueue[i].id)
    BY <2>1, QueuesAgree
  <2>3. write_store[visible[k].id].id = visible[k].id
    BY <2>1 DEF IInv, StoreAgreesWithHistory, HistoryComplete
  <2>4. LiveQueue[i].id = visible[k].id /\ LiveQueue[i].key = k
    <3>1. \A id, key : Record(id, key, id).id = id /\ Record(id, key, id).key = key
      BY DEF Record
    <3> QED
      BY <2>1, <2>2, <2>3, <3>1
  <2> QED
    BY <2>1, <2>2, <2>4
<1>4. ASSUME NEW r \in LiveDirtyRecords
      PROVE  r \in Present(write_store)
  <2>1. PICK p \in VisibleDirty \cup Live!RecordOf(LiveQueue) : r = Record(p.id, p.key, p.id)
    BY <1>4 DEF LiveDirtyRecords
  <2>2. r.present
    BY <2>1 DEF Record
  <2>3. \E id \in WriteId : r = write_store[id]
    <3>1. CASE p \in VisibleDirty
      <4>1. PICK k \in Key : visible[k].kind = "Dirty" /\ p = [id |-> visible[k].id, key |-> k]
        BY <1>1, <3>1 DEF VisibleDirty
      <4>2. p.id = visible[k].id /\ p.key = k
        BY <4>1
      <4> QED
        BY <1>3, <2>1, <4>1, <4>2
    <3>2. CASE p \in Live!RecordOf(LiveQueue)
      <4>1. PICK i \in 1 .. Len(LiveQueue) : p = LiveQueue[i]
        BY <3>2, QueuesAgree DEF Live!RecordOf
      <4> QED
        BY <2>1, <4>1, QueuesAgree
    <3> QED
      BY <3>1, <3>2
  <2> QED
    BY <1>2, <2>2, <2>3 DEF Present
<1>5. ASSUME NEW r \in Present(write_store)
      PROVE  r \in LiveDirtyRecords
  <2>1. PICK id \in WriteId : r = write_store[id] /\ write_store[id].present
    BY <1>2, <1>5 DEF Present
  <2>2. PICK i \in 1 .. Len(LiveQueue) :
          r = Record(LiveQueue[i].id, LiveQueue[i].key, LiveQueue[i].id)
    BY <2>1, QueuesAgree
  <2>3. LiveQueue[i] \in Live!RecordOf(LiveQueue)
    BY QueuesAgree DEF Live!RecordOf
  <2> QED
    BY <2>2, <2>3 DEF LiveDirtyRecords
<1> QED
  BY <1>3, <1>4, <1>5

\* Between calls the clean records of the snapshot are those the core holds,
\* one for each key.
LEMMA CleanAgree ==
  ASSUME IInv, CacheAtPlace, AtEndOfCall
  PROVE  /\ LiveCleanRecords = Present(cache_store)
         /\ live_clean_count = Cardinality(LiveCleanRecords)
         /\ \A k \in Key : visible[k].kind = "Clean" =>
              cache_store[visible[k].id] = Record(visible[k].id, k, copied[visible[k].id])
<1>1. /\ live_visible = visible /\ todo = <<>> /\ LiveOp.pc = "idle"
      /\ SameClean /\ CleanAccounts
  BY DEF AtEndOfCall, Together
<1>2. NothingForgotten
  BY <1>1 DEF NothingForgotten, Upcoming
<1>3. DOMAIN cache_store = CacheId /\ ~Absent.present
      /\ \A id \in CacheId : ~cache_store[id].present => cache_store[id] = Absent
  BY DEF IInv, TypeOK, Absent, CleanRecord
<1>4. ASSUME NEW k \in Key, visible[k].kind = "Clean"
      PROVE  /\ visible[k].id \in CacheId
             /\ cache_store[visible[k].id] = Record(visible[k].id, k, copied[visible[k].id])
  <2>1. visible[k].id \in CacheId /\ visible[k] = CleanRef(visible[k].id)
    BY <1>4, RefKinds DEF IInv
  <2>2. cache_store[visible[k].id].present
    BY <1>1, <1>2, <2>1, CleanAtRest
  <2>3. /\ cache_store[visible[k].id].value = copied[visible[k].id]
        /\ cache_store[visible[k].id].key = k
        /\ cache_store[visible[k].id].id = visible[k].id
    BY <1>1, <1>2, <1>4, <2>1, <2>2, CleanAtRest DEF IInv, CleanIsDurable, CacheAtPlace
  <2>4. cache_store[visible[k].id] \in CleanRecord
    BY <2>1, <2>2, PresentRecords DEF IInv
  <2> QED
    BY <2>1, <2>3, <2>4 DEF CleanRecord, Record
<1> DEFINE V == Live!VisibleClean
<1>5. V = {k \in Key : visible[k].kind = "Clean"}
  BY <1>1 DEF Live!VisibleClean
<1>6. ASSUME NEW r \in LiveCleanRecords
      PROVE  r \in Present(cache_store)
  <2>1. PICK k \in Key : /\ visible[k].kind = "Clean"
                         /\ r = Record(visible[k].id, k, copied[visible[k].id])
    BY <1>1, <1>5, <1>6 DEF LiveCleanRecords
  <2>2. r.present
    BY <2>1 DEF Record
  <2> QED
    BY <1>3, <1>4, <2>1, <2>2 DEF Present
<1>7. ASSUME NEW r \in Present(cache_store)
      PROVE  r \in LiveCleanRecords
  <2>1. PICK id \in CacheId : r = cache_store[id] /\ cache_store[id].present
    BY <1>3, <1>7 DEF Present
  <2>2. PICK k \in Key : visible[k] = CleanRef(id)
    BY <1>1, <1>2, <2>1, CleanAtRest
  <2>3. visible[k].kind = "Clean" /\ visible[k].id = id
    BY <2>2 DEF CleanRef
  <2>4. r = Record(live_visible[k].id, k, copied[live_visible[k].id]) /\ k \in V
    BY <1>1, <1>4, <1>5, <2>1, <2>3
  <2> QED
    BY <2>4 DEF LiveCleanRecords
<1>8. live_clean_count = Cardinality(LiveCleanRecords)
  <2> DEFINE rec(k) == Record(live_visible[k].id, k, copied[live_visible[k].id])
             f == [k \in V |-> rec(k)]
  <2>1. IsFiniteSet(V) /\ live_clean_count = Cardinality(V) + 0 - 0
    BY <1>1 DEF CleanAccounts
  <2>2. LiveCleanRecords = {rec(k) : k \in V}
    BY DEF LiveCleanRecords
  <2>3. \A k \in V : rec(k).key = k
    BY DEF Record
  <2> HIDE DEF V, rec
  <2>4. f \in Bijection(V, LiveCleanRecords)
    <3>1. f \in [V -> LiveCleanRecords]
      BY <2>2
    <3>2. \A a, b \in V : f[a] = f[b] => a = b
      <4> SUFFICES ASSUME NEW a \in V, NEW b \in V, f[a] = f[b] PROVE a = b
        OBVIOUS
      <4>1. rec(a) = rec(b)
        OBVIOUS
      <4> QED
        BY <2>3, <4>1
    <3>3. \A r \in LiveCleanRecords : \E a \in V : f[a] = r
      BY <2>2
    <3> QED
      BY <3>1, <3>2, <3>3 DEF Bijection, Injection, Surjection, IsInjective
  <2>5. ExistsBijection(V, LiveCleanRecords)
    BY <2>4 DEF ExistsBijection
  <2>6. Cardinality(LiveCleanRecords) = Cardinality(V) /\ Cardinality(V) \in Nat
    BY <2>1, <2>5, FS_Bijection, FS_CardinalityType
  <2> QED
    BY <2>1, <2>6
<1> QED
  BY <1>4, <1>6, <1>7, <1>8

\* After a call the two agree, and so do all reads, but for the clean id of a
\* fill that found an entry and the batch of a mark that had none in flight.
LEMMA MatchesAtRest == IInv /\ CacheAtPlace /\ ConfInv => AssertMatchesModel
<1> SUFFICES ASSUME IInv, CacheAtPlace, ConfInv, Quiet
             PROVE  /\ SameState
                    /\ SameReads
                    /\ live_next_cache = next_cache + (IF misuse = "fill" THEN 1 ELSE 0)
                    /\ misuse = "mark" <=> Ids(live_inflight) # batch
                    /\ misuse = "mark" => batch = <<>>
                    /\ misuse = "none" <=> AssertsPass
  BY DEF AssertMatchesModel
<1>1. /\ AtEndOfCall /\ live_visible = visible /\ live_next_write = next_write
      /\ live_next_cache = next_cache + (IF misuse = "fill" THEN 1 ELSE 0)
      /\ BatchHeld /\ LiveTypeOK
  BY EndOfCall DEF AtEndOfCall, Together
<1>2. /\ misuse = "mark" <=> Ids(live_inflight) # batch
      /\ misuse = "mark" => batch = <<>>
  <2>1. CASE misuse = "mark"
    <3>1. batch = <<>> /\ live_inflight # <<>> /\ live_inflight \in Seq(LiveRecord)
      BY <1>1, <2>1 DEF BatchHeld, LiveTypeOK
    <3> QED
      BY <2>1, <3>1, IdsEmpty
  <2>2. CASE misuse # "mark"
    BY <1>1, <2>2 DEF BatchHeld
  <2> QED
    BY <2>1, <2>2
<1>3. SameState
  BY <1>1, QueuesAgree, DirtyAgree, CleanAgree DEF SameState
<1>4. ASSUME NEW k \in Key PROVE LiveRead(k) = CoreRead(k)
  <2>1. CASE visible[k] = NoRef
    BY <1>1, <2>1 DEF LiveRead, CoreRead
  <2>2. CASE visible[k].kind = "Dirty"
    <3>1. write_store[visible[k].id] = Record(visible[k].id, k, visible[k].id)
      BY <1>1, <2>2, DirtyAgree
    <3>2. write_store[visible[k].id].value = visible[k].id
      BY <3>1 DEF Record
    <3> QED
      BY <1>1, <2>2, <3>2 DEF LiveRead, CoreRead
  <2>3. CASE visible[k].kind = "Clean"
    <3>1. cache_store[visible[k].id] = Record(visible[k].id, k, copied[visible[k].id])
      BY <1>1, <2>3, CleanAgree
    <3>2. cache_store[visible[k].id].value = copied[visible[k].id]
      BY <3>1 DEF Record
    <3> QED
      BY <1>1, <2>3, <3>2 DEF LiveRead, CoreRead
  <2> QED
    BY <2>1, <2>2, <2>3, RefKinds DEF IInv
<1>5. SameReads
  BY <1>4 DEF SameReads
<1>6. misuse = "none" <=> AssertsPass
  <2>1. next_cache \in Nat
    BY CoreTypes
  <2>2. live_next_cache = next_cache <=> misuse # "fill"
    BY <1>1, <2>1
  <2>3. misuse \in {"none", "fill", "mark"}
    BY DEF ConfInv
  <2> QED
    BY <1>2, <1>3, <1>5, <2>2, <2>3 DEF AssertsPass
<1> QED
  BY <1>1, <1>2, <1>3, <1>5, <1>6

\* The assertions of the harness pass after every call but a fill of a key
\* that has an entry and a mark_flushed that finds a batch of its own, and
\* then exactly one thing they compare differs.
THEOREM Matches == ConfSpec => []AssertMatchesModel
BY CoreInvariance, MatchesAtRest, PTL

\* In a mark the next step's record is the one at the head of the queue, or
\* one that is flushed.
LEMMA MarkHead == IInv /\ ConfInv => MarkFollowsQueue
<1> SUFFICES ASSUME IInv, ConfInv, todo # <<>>
             PROVE  /\ Head(todo).action = "FlusherFlushNext" =>
                         dirty_q # <<>> /\ Head(dirty_q) = todo[2].id
                    /\ Head(todo).action = "FlusherDrop" => Contains(flushed, Head(todo).id)
  BY DEF MarkFollowsQueue
<1>1. LiveTypeOK /\ ~crashed
  BY DEF ConfInv, InStep, Behind, Together
<1>2. ASSUME NEW k \in Key, Refused(k)
      PROVE  Head(todo).action \notin {"FlusherFlushNext", "FlusherDrop"}
  <2>1. Head(todo) = InsertOf(k)
    BY <1>2 DEF Refused
  <2> QED
    BY <2>1 DEF InsertOf
<1>3. ASSUME NEW k \in Key, Writing(k) \/ Filling(k)
      PROVE  Head(todo).action \notin {"FlusherFlushNext", "FlusherDrop"}
  <2>1. Head(todo) = WriteOf(k, next_write) \/ Head(todo) = InsertOf(k)
    BY <1>1, <1>3, HeadOfPhase
  <2> QED
    BY <2>1 DEF WriteOf, InsertOf
<1>4. ASSUME NEW id \in CacheId, Forgetting(id)
      PROVE  Head(todo).action \notin {"FlusherFlushNext", "FlusherDrop"}
  <2>1. Head(todo) = DropRecord(id) \/ Head(todo) = Cleanup(id)
    BY <1>1, <1>4, HeadOfPhase
  <2> QED
    BY <2>1 DEF DropRecord, Cleanup
<1>5. CASE InStep /\ Marking(Len(todo))
  <2>1. PICK n \in Nat \ {0}, R \in Nat :
          /\ n = Len(todo) /\ R = Len(live_retired) /\ todo = MarkSteps(n)
          /\ CoreHas(R - n \div 2, R - (n + 1) \div 2) /\ Len(LiveLog) = next_write
    <3>1. Len(todo) # 0
      BY <1>1, <1>5, HeadOfPhase
    <3> QED
      BY <1>5, <3>1, MarkingParts
  <2>2. Head(todo) = IF (n - 1) % 2 = 1 THEN [action |-> "FlusherFlushNext"]
                     ELSE [action |-> "FlusherDrop", id |-> R - 1 - (n - 1) \div 2]
    BY <1>1, <1>5, <2>1, HeadOfPhase
  <2>3. R <= next_write
    <3>1. Len(LiveLog) = R + Len(LiveQueue) /\ Len(LiveQueue) \in Nat
      BY <1>1, <2>1, LiveLogParts
    <3> QED
      BY <2>1, <3>1
  <2>4. CASE (n - 1) % 2 = 1
    <3>1. PICK q \in Nat : n \div 2 = q + 1 /\ (n - 1) \div 2 = q /\ n = 2 * q + 2
      BY <2>4
    <3>2. Len(flushed) = R - (q + 1)
      BY <2>1, <3>1 DEF CoreHas
    <3>3. Len(dirty_q) \in Nat \ {0} /\ 1 \in DOMAIN dirty_q
      <4>1. Len(flushed) + Len(dirty_q) = next_write
        BY <1>1 DEF IInv, LogIsWriteOrder
      <4> QED
        BY <2>3, <3>2, <4>1, LogIndices
    <3>4. dirty_q # <<>> /\ Head(dirty_q) = R - 1 - q
      <4>1. dirty_q \in Seq(WriteId)
        BY CoreTypes
      <4>2. dirty_q # <<>> /\ Head(dirty_q) = dirty_q[1]
        BY <3>3, <4>1
      <4>3. dirty_q[1] = Len(flushed) + 1 - 1
        BY <3>3, LogIndices
      <4> QED
        BY <3>2, <4>2, <4>3
    <3>5. todo[2].id = R - 1 - q
      <4>1. 2 \in 1 .. n /\ (n - 2) % 2 = 0 /\ (n - 2) \div 2 = q
        BY <3>1
      <4>2. MarkSteps(n)[2] = [action |-> "FlusherDrop", id |-> R - 1 - (n - 2) \div 2]
        BY <2>1, <4>1 DEF MarkSteps
      <4>3. todo = MarkSteps(n)
        BY <2>1
      <4>4. R - 1 - (n - 2) \div 2 = R - 1 - q
        BY <4>1
      <4>5. todo[2] = [action |-> "FlusherDrop", id |-> R - 1 - q]
        BY <4>2, <4>3, <4>4
      <4> QED
        BY <4>5
    <3>6. Head(todo) = [action |-> "FlusherFlushNext"]
      BY <2>2, <2>4
    <3> QED
      BY <3>4, <3>5, <3>6
  <2>5. CASE (n - 1) % 2 # 1
    <3>1. PICK q \in Nat : n \div 2 = q /\ (n + 1) \div 2 = q + 1 /\ (n - 1) \div 2 = q
      BY <2>5, Halves
    <3>2. Len(flushed) = R - q /\ 0 <= R - (q + 1)
      BY <2>1, <3>1 DEF CoreHas
    <3>3. Head(todo).action = "FlusherDrop" /\ Head(todo).id = R - 1 - q
      BY <2>2, <2>5, <3>1
    <3>4. R - q \in DOMAIN flushed /\ flushed[R - q] = (R - q) - 1
      BY <3>2, LogIndices
    <3>5. Contains(flushed, R - 1 - q)
      <4>1. (R - q) - 1 = R - 1 - q
        OBVIOUS
      <4> QED
        BY <3>4, <4>1 DEF Contains
    <3> QED
      BY <3>3, <3>5
  <2> QED
    BY <2>4, <2>5
<1> QED
  BY <1>2, <1>3, <1>4, <1>5 DEF ConfInv, InStep, Behind

\* While the core catches up with a mark it flushes and drops the ids of the
\* batch, in the order of its own queue.
THEOREM MarkFollows == ConfSpec => []MarkFollowsQueue
BY CoreInvariance, MarkHead, PTL

\* A flush_batch gives the oldest queued ids, as many as it may.
LEMMA FlushGives ==
  ASSUME IInv, InStep, misuse = "none", NEW limit \in Limit, FlushBatch(limit)
  PROVE  batch' = IF batch # <<>> THEN batch
                  ELSE SubSeq(dirty_q, 1,
                              IF limit < Len(dirty_q) THEN limit ELSE Len(dirty_q))
<1>1. /\ Quiet /\ LiveFlush(limit) /\ batch' = Ids(live_held'[harness])
      /\ LiveTypeOK /\ AtEndOfCall
  <2>1. Quiet /\ LiveFlush(limit) /\ batch' = Ids(live_held'[harness])
    BY DEF FlushBatch, Ready
  <2>2. ConfInv
    BY DEF ConfInv
  <2> QED
    BY <2>1, <2>2, EndOfCall DEF InStep, Together
<1>2. batch = Ids(live_inflight) /\ limit \in Nat
  BY LimitAssumption DEF InStep, Together, BatchHeld
<1>3. \A s \in Seq(LiveRecord) : DOMAIN Ids(s) = 1 .. Len(s)
  BY DEF Ids
<1>4. CASE live_inflight # <<>>
  <2>1. Live!FlushAgain(harness)
    BY <1>1, <1>4 DEF LiveFlush, Live!FlushNew, Live!Dirty!Take, Live!FlushNothing
  <2>2. live_held'[harness] = live_inflight
    BY <1>1, <2>1 DEF Live!FlushAgain, LiveTypeOK
  <2>3. batch # <<>>
    <3>1. live_inflight \in Seq(LiveRecord) /\ Len(live_inflight) # 0
      BY <1>1, <1>4 DEF LiveTypeOK
    <3>2. 1 \in DOMAIN batch
      BY <1>2, <1>3, <3>1
    <3> QED
      BY <3>2
  <2> QED
    BY <1>1, <1>2, <2>2, <2>3
<1>5. CASE live_inflight = <<>>
  <2>1. batch = <<>> /\ live_pending \in Seq(LiveRecord) /\ Len(live_pending) \in Nat
    BY <1>1, <1>2, <1>5 DEF Ids, LiveTypeOK
  <2>2. dirty_q = Ids(live_pending)
    <3>1. LiveQueue = live_pending
      BY <1>5, <2>1, ConcatEmptySeq DEF LiveQueue
    <3> QED
      BY <1>1, <3>1, QueuesAgree
  <2>3. Len(dirty_q) = Len(live_pending) /\ dirty_q \in Seq(WriteId)
        /\ \A i \in 1 .. Len(live_pending) : dirty_q[i] = live_pending[i].id
    BY <2>1, <2>2, CoreTypes DEF Ids
  <2>4. CASE Live!FlushNew(harness, limit)
    <3> DEFINE n == IF Len(live_pending) < limit THEN Len(live_pending) ELSE limit
    <3>1. n \in 1 .. Len(live_pending) /\ live_held'[harness] = SubSeq(live_pending, 1, n)
      BY <1>1, <2>4 DEF Live!FlushNew, Live!Dirty!Take, LiveTypeOK
    <3>2. n = IF limit < Len(dirty_q) THEN limit ELSE Len(dirty_q)
      BY <1>2, <2>1, <2>3
    <3> HIDE DEF n
    <3>3. Ids(SubSeq(live_pending, 1, n)) = SubSeq(dirty_q, 1, n)
      <4>1. SubSeq(live_pending, 1, n) = [i \in 1 .. n |-> live_pending[i]]
        BY <2>1, <3>1
      <4>2. SubSeq(dirty_q, 1, n) = [i \in 1 .. n |-> dirty_q[i]]
        BY <2>3, <3>1
      <4>3. Ids(SubSeq(live_pending, 1, n)) = [i \in 1 .. n |-> live_pending[i].id]
        BY <4>1 DEF Ids
      <4>4. \A i \in 1 .. n : dirty_q[i] = live_pending[i].id
        BY <2>3, <3>1
      <4> QED
        BY <4>2, <4>3, <4>4
    <3> QED
      BY <1>1, <2>1, <3>1, <3>2, <3>3
  <2>5. CASE (limit = 0 \/ live_pending = <<>>) /\ Live!FlushNothing(harness)
    <3>1. live_held'[harness] = <<>>
      BY <1>1, <2>5 DEF Live!FlushNothing, LiveTypeOK
    <3>2. batch' = <<>>
      BY <1>1, <3>1 DEF Ids
    <3>3. (IF limit < Len(dirty_q) THEN limit ELSE Len(dirty_q)) = 0
      BY <1>2, <2>3, <2>5
    <3>4. SubSeq(dirty_q, 1, 0) = <<>>
      BY SubSeqEmpty
    <3> QED
      BY <2>1, <3>2, <3>3, <3>4
  <2>6. ~Live!FlushAgain(harness)
    BY <1>5 DEF Live!FlushAgain
  <2> QED
    BY <1>1, <2>4, <2>5, <2>6 DEF LiveFlush
<1> QED
  BY <1>4, <1>5

\* Whatever was called before, a flush_batch returns what the core's queue
\* would give.
THEOREM FlushReturns == ConfSpec => FlushReturnsQueue
<1>1. IInv /\ ConfInv /\ [ConfNext]_confVars =>
        [\A limit \in Limit : FlushBatch(limit) =>
           batch' = IF batch # <<>> THEN batch
                    ELSE SubSeq(dirty_q, 1,
                                IF limit < Len(dirty_q) THEN limit ELSE Len(dirty_q))
        ]_confVars
  BY FlushGives, ReadyInStep DEF FlushBatch
<1> QED
  BY <1>1, CoreInvariance, PTL DEF ConfSpec, FlushReturnsQueue

=============================================================================
