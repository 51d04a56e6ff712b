--------------------------- MODULE DirtyLogProofs ----------------------------
(***************************************************************************)
(* Proofs about the dirty log as it ships, for any finite sets of threads, *)
(* any limits, bound and width of the counter: the inductive invariant     *)
(* IInv, and from it what the log promises, step by step interleaved: each *)
(* id once, program order, the delayed count, that a stale mark retires    *)
(* nothing, and the refinement of OrderedLog.                              *)
(***************************************************************************)
EXTENDS DirtyLog, ProofLemmas

\* The batch in flight is none, or a batch that is not empty.
LEMMA InflightKinds ==
  ASSUME TypeOK
  PROVE  \/ ~inflight.some /\ inflight = NoBatch /\ Entries(inflight) = <<>>
         \/ /\ inflight.some /\ inflight # NoBatch
            /\ inflight.batch \in Seq(DirtyRecord) \ {<<>>}
            /\ Entries(inflight) = inflight.batch
<1>1. CASE inflight = NoBatch
  BY <1>1 DEF Entries, NoBatch
<1>2. CASE inflight \in [some : {TRUE}, batch : Seq(DirtyRecord) \ {<<>>}]
  <2>1. inflight.some = TRUE /\ inflight.batch \in Seq(DirtyRecord) \ {<<>>}
    BY <1>2
  <2> QED
    BY <2>1 DEF Entries, NoBatch
<1> QED
  BY <1>1, <1>2 DEF TypeOK

\* What is being drained is what the holder of the mutex has drained.
LEMMA DrainingOf ==
  /\ lock = {} => Draining = <<>>
  /\ \A f : lock = {f} => Draining = flusher[f].entries
<1>1. ASSUME NEW f, lock = {f} PROVE Draining = flusher[f].entries
  <2>1. (CHOOSE g \in lock : TRUE) = f
    BY <1>1
  <2> QED
    BY <1>1, <2>1 DEF Draining
<1> QED
  BY <1>1 DEF Draining

\* The parts of the log are sequences of records.
LEMMA LogParts ==
  ASSUME TypeOK, LockHeld
  PROVE  /\ Entries(inflight) \in Seq(DirtyRecord)
         /\ Draining \in Seq(DirtyRecord)
         /\ channel \in Seq(DirtyRecord)
         /\ retired \in Seq(DirtyRecord)
         /\ retired \o Entries(inflight) \in Seq(DirtyRecord)
         /\ (retired \o Entries(inflight)) \o Draining \in Seq(DirtyRecord)
         /\ Log \in Seq(DirtyRecord)
<1> DEFINE I == Entries(inflight)
<1>1. I \in Seq(DirtyRecord)
  <2>1. CASE Entries(inflight) = <<>>
    BY <2>1
  <2>2. CASE inflight.batch \in Seq(DirtyRecord) /\ I = inflight.batch
    BY <2>2
  <2> QED
    BY <2>1, <2>2, InflightKinds
<1>2. Draining \in Seq(DirtyRecord)
  <2>1. CASE lock = {}
    BY <2>1, DrainingOf
  <2>2. ASSUME NEW f \in Flusher, lock = {f} PROVE Draining \in Seq(DirtyRecord)
    BY <2>2, DrainingOf DEF TypeOK
  <2> QED
    BY <2>1, <2>2 DEF LockHeld
<1>3. retired \in Seq(DirtyRecord) /\ channel \in Seq(DirtyRecord)
  BY DEF TypeOK
<1> HIDE DEF I
<1>4. retired \o I \in Seq(DirtyRecord)
  BY <1>1, <1>3, ConcatProperties
<1>5. (retired \o I) \o Draining \in Seq(DirtyRecord)
  BY <1>2, <1>4, ConcatProperties
<1>6. ((retired \o I) \o Draining) \o channel \in Seq(DirtyRecord)
  BY <1>3, <1>5, ConcatProperties
<1> QED
  BY <1>1, <1>2, <1>3, <1>4, <1>5, <1>6 DEF I, Log

(***************************************************************************)
(* Types.                                                                  *)
(***************************************************************************)

\* The log starts out with its types.
LEMMA InitTypeOK == Init => TypeOK
BY MaxWriteAssumption, CountModulusAssumption
   DEF Init, TypeOK, NoId

\* A counter that wraps is a word of it.
LEMMA WrapType == \A n \in Int : Wrap(n) \in 0 .. CountModulus - 1
BY CountModulusAssumption, ModRange DEF Wrap

\* The steps of an append keep the types: a writer that sends has an id.
LEMMA AppendTypes ==
  ASSUME TypeOK, UnsentAhead, NEW w \in Writer, AppendStep(w)
  PROVE  TypeOK'
<1> USE DEF TypeOK
<1>1. CASE TakeId(w)
  <2> USE <1>1 DEF TakeId
  <2>1. next_id \in WriteId /\ next_id' \in 0 .. MaxWrite
    BY MaxWriteAssumption DEF WriteId
  <2>2. writer' \in [Writer -> [pc : {"idle", "send", "count"}, id : WriteId \cup {NoId}]]
    BY <2>1
  <2> QED
    BY <2>1, <2>2
<1>2. CASE Send(w)
  <2> USE <1>2 DEF Send
  <2>1. writer[w].id \in WriteId
    BY MaxWriteAssumption DEF UnsentAhead, WriteId
  <2>2. [id |-> writer[w].id, by |-> w] \in DirtyRecord
    BY <2>1 DEF DirtyRecord
  <2>3. channel' \in Seq(DirtyRecord)
    BY <2>2 DEF Push
  <2>4. [writer[w] EXCEPT !.pc = "count"]
          \in [pc : {"idle", "send", "count"}, id : WriteId \cup {NoId}]
    OBVIOUS
  <2> QED
    BY <2>3, <2>4
<1>3. CASE CountSent(w)
  <2> USE <1>3 DEF CountSent
  <2>1. pending_len' \in 0 .. CountModulus - 1
    BY WrapType, CountModulusAssumption
  <2>2. writer' \in [Writer -> [pc : {"idle", "send", "count"}, id : WriteId \cup {NoId}]]
    OBVIOUS
  <2> QED
    BY <2>1, <2>2
<1> QED
  BY <1>1, <1>2, <1>3 DEF AppendStep

\* The steps of a drain keep the types.
LEMMA DrainTypes ==
  ASSUME TypeOK, NEW f \in Flusher, DrainStep(f)
  PROVE  TypeOK'
<1> DEFINE FlusherType == [pc : {"idle", "drain", "uncount"}, limit : Nat,
                           entries : Seq(DirtyRecord), held : Seq(DirtyRecord)]
<1> USE DEF TypeOK
<1>1. CASE FlushPop(f)
  <2> USE <1>1 DEF FlushPop
  <2>1. Head(channel) \in DirtyRecord /\ Tail(channel) \in Seq(DirtyRecord)
    BY HeadTailProperties
  <2>2. Append(flusher[f].entries, Head(channel)) \in Seq(DirtyRecord)
    BY <2>1
  <2>3. flusher[f] \in FlusherType
    OBVIOUS
  <2>4. [flusher[f] EXCEPT !.pc = "uncount",
                           !.entries = Append(@, Head(channel))] \in FlusherType
    BY <2>2, <2>3
  <2>5. flusher' = [flusher EXCEPT ![f] = [flusher[f] EXCEPT
                      !.pc = "uncount", !.entries = Append(@, Head(channel))]]
    BY DEF Push
  <2>6. flusher' \in [Flusher -> FlusherType]
    BY <2>4, <2>5
  <2> QED
    BY <2>1, <2>6
<1>2. CASE FlushUncount(f)
  <2> USE <1>2 DEF FlushUncount
  <2>1. pending_len' \in 0 .. CountModulus - 1
    BY WrapType, CountModulusAssumption
  <2>2. flusher[f] \in FlusherType
    OBVIOUS
  <2>3. [flusher[f] EXCEPT !.pc = "drain"] \in FlusherType
    BY <2>2
  <2>4. flusher' \in [Flusher -> FlusherType]
    BY <2>3
  <2> QED
    BY <2>1, <2>4
<1>3. CASE FlushDone(f)
  <2> USE <1>3 DEF FlushDone
  <2>1. flusher[f].entries \in Seq(DirtyRecord)
    OBVIOUS
  <2>2. \/ inflight' = NoBatch
        \/ inflight' \in [some : {TRUE}, batch : Seq(DirtyRecord) \ {<<>>}]
    BY <2>1 DEF Installed, Some
  <2>3. flusher' \in [Flusher -> FlusherType]
    BY <2>1
  <2> QED
    BY <2>2, <2>3
<1> QED
  BY <1>1, <1>2, <1>3 DEF DrainStep

\* The other steps of a flusher keep the types.
LEMMA FlusherTypes ==
  ASSUME TypeOK, NEW f \in Flusher,
         \/ FlushAgain(f)
         \/ \E limit \in Limit : FlushStart(f, limit)
         \/ MarkFlushed(f)
  PROVE  TypeOK'
<1> DEFINE FlusherType == [pc : {"idle", "drain", "uncount"}, limit : Nat,
                           entries : Seq(DirtyRecord), held : Seq(DirtyRecord)]
<1> USE DEF TypeOK
<1>1. CASE FlushAgain(f)
  <2> USE <1>1 DEF FlushAgain
  <2>1. inflight.batch \in Seq(DirtyRecord)
    BY InflightKinds
  <2>2. flusher[f] \in FlusherType
    OBVIOUS
  <2>3. [flusher[f] EXCEPT !.held = inflight.batch] \in FlusherType
    BY <2>1, <2>2
  <2>4. flusher' \in [Flusher -> FlusherType]
    BY <2>3
  <2> QED
    BY <2>4
<1>2. ASSUME NEW limit \in Limit, FlushStart(f, limit) PROVE TypeOK'
  <2> USE <1>2 DEF FlushStart
  <2>1. flusher[f] \in FlusherType /\ limit \in Nat
    BY LimitAssumption
  <2>2. [flusher[f] EXCEPT !.pc = "drain", !.limit = limit] \in FlusherType
    BY <2>1
  <2>3. flusher' = [flusher EXCEPT ![f] =
                      [flusher[f] EXCEPT !.pc = "drain", !.limit = limit]]
    OBVIOUS
  <2>4. flusher' \in [Flusher -> FlusherType]
    BY <2>2, <2>3
  <2> QED
    BY <2>4
<1>3. CASE MarkFlushed(f)
  <2> USE <1>3 DEF MarkFlushed
  <2>1. inflight.batch \in Seq(DirtyRecord)
    BY InflightKinds
  <2>2. retired' \in Seq(DirtyRecord)
    BY <2>1, ConcatProperties
  <2> QED
    BY <2>2
<1> QED
  BY <1>1, <1>2, <1>3

\* The steps of an observer keep the types.
LEMMA ObserverTypes ==
  ASSUME TypeOK, LockHeld, NEW o \in Observer, LenInflight(o) \/ LenLoad(o)
  PROVE  TypeOK'
<1> USE DEF TypeOK
<1>1. CASE LenInflight(o)
  <2> USE <1>1 DEF LenInflight
  <2>1. Len(Entries(inflight)) \in Nat
    BY LogParts, LenProperties
  <2>2. observer' \in [Observer -> [pc : {"idle", "load"}, inflight_len : Nat]]
    BY <2>1
  <2> QED
    BY <2>2
<1>2. CASE LenLoad(o)
  <2> USE <1>2 DEF LenLoad
  <2>1. observer' \in [Observer -> [pc : {"idle", "load"}, inflight_len : Nat]]
    OBVIOUS
  <2> QED
    BY <2>1
<1> QED
  BY <1>1, <1>2

\* No step takes a variable out of its type.
LEMMA NextTypeOK == TypeOK /\ LockHeld /\ UnsentAhead /\ [Next]_vars => TypeOK'
<1> SUFFICES ASSUME TypeOK, LockHeld, UnsentAhead, [Next]_vars PROVE TypeOK'
  OBVIOUS
<1>1. CASE \E w \in Writer : AppendStep(w)
  BY <1>1, AppendTypes
<1>2. CASE \E f \in Flusher : DrainStep(f)
  BY <1>2, DrainTypes
<1>3. CASE \E f \in Flusher :
             \/ FlushAgain(f)
             \/ \E limit \in Limit : FlushStart(f, limit)
             \/ MarkFlushed(f)
  BY <1>3, FlusherTypes
<1>4. CASE \E o \in Observer : LenInflight(o) \/ LenLoad(o)
  BY <1>4, ObserverTypes
<1>5. CASE UNCHANGED vars
  BY <1>5 DEF vars, TypeOK
<1> QED
  BY <1>1, <1>2, <1>3, <1>4, <1>5 DEF Next

(***************************************************************************)
(* The mutex.                                                              *)
(***************************************************************************)

\* The mutex is taken for a drain, kept until the batch is in flight, and
\* given back.
LEMMA LockStep == TypeOK /\ LockHeld /\ [Next]_vars => LockHeld'
<1> SUFFICES ASSUME TypeOK, LockHeld, [Next]_vars PROVE LockHeld'
  OBVIOUS
<1>1. ASSUME UNCHANGED <<lock, inflight>>,
             \A g \in Flusher : /\ flusher'[g].pc = "idle" <=> flusher[g].pc = "idle"
                                /\ flusher'[g].entries = flusher[g].entries
      PROVE  LockHeld'
  BY <1>1 DEF LockHeld
<1>2. CASE \E w \in Writer : AppendStep(w)
  BY <1>1, <1>2 DEF AppendStep, TakeId, Send, CountSent
<1>3. CASE \E o \in Observer : LenInflight(o) \/ LenLoad(o)
  BY <1>1, <1>3 DEF LenInflight, LenLoad
<1>4. CASE UNCHANGED vars
  BY <1>1, <1>4 DEF vars
<1>5. ASSUME NEW f \in Flusher, FlushAgain(f) PROVE LockHeld'
  BY <1>1, <1>5 DEF FlushAgain, TypeOK
<1>6. ASSUME NEW f \in Flusher, NEW limit \in Limit, FlushStart(f, limit)
      PROVE  LockHeld'
  <2> USE <1>6 DEF FlushStart, MayDrain
  <2>1. inflight = NoBatch
    BY InflightKinds
  <2>2. \A g \in Flusher : flusher[g].pc = "idle" /\ flusher[g].entries = <<>>
    BY DEF LockHeld
  <2>3. flusher'[f].pc = "drain" /\ \A g \in Flusher : g # f => flusher'[g] = flusher[g]
    BY DEF TypeOK
  <2>4. lock' = {f} /\ inflight' = NoBatch
    BY <2>1
  <2> QED
    BY <2>2, <2>3, <2>4 DEF LockHeld
<1>7. ASSUME NEW f \in Flusher, FlushPop(f) \/ FlushUncount(f) PROVE LockHeld'
  <2>1. /\ flusher[f].pc # "idle" /\ flusher'[f].pc # "idle"
        /\ \A g \in Flusher : g # f => flusher'[g] = flusher[g]
        /\ UNCHANGED <<lock, inflight>>
    BY <1>7 DEF FlushPop, FlushUncount, TypeOK
  <2> QED
    BY <2>1 DEF LockHeld
<1>8. ASSUME NEW f \in Flusher, FlushDone(f) PROVE LockHeld'
  <2> USE <1>8 DEF FlushDone
  <2>1. /\ flusher'[f].pc = "idle" /\ flusher'[f].entries = <<>>
        /\ \A g \in Flusher : g # f => flusher'[g] = flusher[g]
    BY DEF TypeOK
  <2>2. lock = {f}
    BY DEF LockHeld
  <2>3. \A g \in Flusher : g # f => flusher[g].pc = "idle" /\ flusher[g].entries = <<>>
    BY <2>2 DEF LockHeld
  <2>4. lock' = {}
    OBVIOUS
  <2> QED
    BY <2>1, <2>3, <2>4 DEF LockHeld
<1>9. ASSUME NEW f \in Flusher, MarkFlushed(f) PROVE LockHeld'
  BY <1>9 DEF MarkFlushed, LockHeld
<1> QED
  BY <1>2, <1>3, <1>4, <1>5, <1>6, <1>7, <1>8, <1>9 DEF Next, DrainStep

(***************************************************************************)
(* The log: a send adds its record at the end, and no other step changes   *)
(* it.                                                                     *)
(***************************************************************************)

\* Steps that leave every part of the log alone.
LEMMA SameParts ==
  ASSUME UNCHANGED <<retired, inflight, lock, channel>>,
         \A f : lock = {f} => flusher'[f].entries = flusher[f].entries,
         lock = {} \/ \E f : lock = {f}
  PROVE  Log' = Log
<1>1. Draining' = Draining
  <2>1. CASE lock = {}
    BY <2>1 DEF Draining
  <2>2. ASSUME NEW f, lock = {f} PROVE Draining' = Draining
    <3>1. (CHOOSE g \in lock : TRUE) = f /\ (CHOOSE g \in lock' : TRUE) = f
      BY <2>2
    <3> QED
      BY <2>2, <3>1 DEF Draining
  <2> QED
    BY <2>1, <2>2
<1> QED
  BY <1>1 DEF Log

\* A send adds the record at the end.
LEMMA SendLog ==
  ASSUME TypeOK, LockHeld, TypeOK', NEW w \in Writer, Send(w)
  PROVE  /\ [id |-> writer[w].id, by |-> w] \in DirtyRecord
         /\ Log' = Append(Log, [id |-> writer[w].id, by |-> w])
<1> DEFINE r == [id |-> writer[w].id, by |-> w]
           front == (retired \o Entries(inflight)) \o Draining
<1> USE DEF Send
<1>1. channel \in Seq(DirtyRecord) /\ channel' = Append(channel, r)
  BY DEF TypeOK, Push
<1>2. r \in DirtyRecord
  <2>1. /\ channel' \in Seq(DirtyRecord)
        /\ Len(channel') = Len(channel) + 1 /\ Len(channel) \in Nat
    BY <1>1 DEF TypeOK
  <2>2. channel'[Len(channel) + 1] = r
    BY <1>1
  <2> QED
    BY <2>1, <2>2, ElementOfSeq
<1>3. Draining' = Draining
  BY DEF Draining
<1>4. front \in Seq(DirtyRecord)
  BY LogParts
<1>5. Log = front \o channel /\ Log' = front \o Append(channel, r)
  BY <1>1, <1>3 DEF Log
<1> HIDE DEF r, front
<1>6. front \o Append(channel, r) = Append(front \o channel, r)
  BY <1>1, <1>2, <1>4, ConcatAppend
<1>7. r \in DirtyRecord /\ Log' = Append(Log, r)
  BY <1>2, <1>5, <1>6
<1> QED
  BY <1>7 DEF r

\* Taking the mutex drains nothing.
LEMMA StartLog ==
  ASSUME TypeOK, LockHeld, NEW f \in Flusher, NEW limit \in Limit, FlushStart(f, limit)
  PROVE  Draining = <<>> /\ Draining' = <<>> /\ Log' = Log
<1> USE DEF FlushStart
<1>1. flusher[f].entries = <<>> /\ flusher'[f].entries = <<>>
  BY DEF LockHeld, TypeOK
<1>2. Draining = <<>> /\ Draining' = flusher'[f].entries
  <2>1. (CHOOSE g \in lock' : TRUE) = f
    OBVIOUS
  <2> QED
    BY <2>1 DEF Draining
<1> QED
  BY <1>1, <1>2 DEF Log

\* A pop moves the oldest record of the channel to the drain.
LEMMA PopLog ==
  ASSUME TypeOK, LockHeld, NEW f \in Flusher, FlushPop(f)
  PROVE  /\ Draining' = Append(Draining, Head(channel))
         /\ channel # <<>> /\ channel' = Tail(channel)
         /\ Log' = Log
<1> DEFINE front == retired \o Entries(inflight)
           h == Head(channel)
<1> USE DEF FlushPop
<1>1. lock = {f} /\ lock' = {f}
  BY DEF LockHeld
<1>2. Draining = flusher[f].entries /\ Draining' = flusher'[f].entries
  <2>1. (CHOOSE g \in lock : TRUE) = f /\ (CHOOSE g \in lock' : TRUE) = f
    BY <1>1
  <2> QED
    BY <1>1, <2>1 DEF Draining
<1>3. flusher'[f].entries = Append(flusher[f].entries, h)
  BY DEF TypeOK, Push
<1>4. /\ channel \in Seq(DirtyRecord) \ {<<>>}
      /\ h \in DirtyRecord /\ Tail(channel) \in Seq(DirtyRecord)
  BY HeadTailProperties DEF TypeOK
<1>5. front \in Seq(DirtyRecord) /\ Draining \in Seq(DirtyRecord)
  BY LogParts
<1>6. /\ Log = (front \o Draining) \o channel
      /\ Log' = (front \o Append(Draining, h)) \o Tail(channel)
  BY <1>2, <1>3 DEF Log
<1>7. Draining' = Append(Draining, h)
  BY <1>2, <1>3
<1> HIDE DEF front
<1>8. front \o Append(Draining, h) = Append(front \o Draining, h)
  BY <1>4, <1>5, ConcatAppend
<1>9. front \o Draining \in Seq(DirtyRecord)
  BY <1>5, ConcatProperties
<1>10. Append(front \o Draining, h) \o Tail(channel) = (front \o Draining) \o channel
  BY <1>4, <1>9, MoveHead
<1> QED
  BY <1>6, <1>7, <1>8, <1>10

\* Putting the drained batch in flight moves it within the log.
LEMMA DoneLog ==
  ASSUME TypeOK, LockHeld, NEW f \in Flusher, FlushDone(f)
  PROVE  /\ Entries(inflight) = <<>> /\ Draining' = <<>>
         /\ Draining = flusher[f].entries /\ Entries(inflight') = Draining
         /\ Log' = Log
<1> DEFINE D == Draining
<1> USE DEF FlushDone
<1>1. lock = {f} /\ inflight = NoBatch
  BY DEF LockHeld
<1>2. Draining = flusher[f].entries /\ Draining' = <<>>
  BY <1>1, DrainingOf DEF Draining
<1>3. Entries(inflight) = <<>> /\ Entries(inflight') = Draining
  BY <1>1, <1>2 DEF Entries, Installed, Some, NoBatch
<1>4. retired \in Seq(DirtyRecord) /\ D \in Seq(DirtyRecord)
  BY LogParts
<1>5. /\ Log = ((retired \o <<>>) \o D) \o channel
      /\ Log' = ((retired \o D) \o <<>>) \o channel
  BY <1>2, <1>3 DEF Log
<1> HIDE DEF D
<1>6. retired \o <<>> = retired /\ retired \o D \in Seq(DirtyRecord)
  BY <1>4, ConcatProperties, ConcatEmptySeq
<1>7. (retired \o D) \o <<>> = retired \o D
  BY <1>6, ConcatEmptySeq
<1> QED
  BY <1>2, <1>3, <1>5, <1>6, <1>7

\* Retiring the batch in flight moves it within the log.
LEMMA MarkLog ==
  ASSUME TypeOK, LockHeld, NEW f \in Flusher, MarkFlushed(f)
  PROVE  /\ inflight.batch \in Seq(DirtyRecord) \ {<<>>}
         /\ Entries(inflight) = inflight.batch /\ Entries(inflight') = <<>>
         /\ Draining' = Draining
         /\ Log' = Log
<1> DEFINE B == inflight.batch
<1> USE DEF MarkFlushed
<1>1. B \in Seq(DirtyRecord) \ {<<>>} /\ Entries(inflight) = B
  BY InflightKinds
<1>2. Entries(inflight') = <<>> /\ Draining' = Draining
  BY DEF Entries, NoBatch, Draining
<1>3. retired \o B \in Seq(DirtyRecord)
  BY <1>1, LogParts
<1>4. /\ Log = ((retired \o B) \o Draining) \o channel
      /\ Log' = (((retired \o B) \o <<>>) \o Draining) \o channel
  BY <1>1, <1>2 DEF Log
<1>5. (retired \o B) \o <<>> = retired \o B
  BY <1>3, ConcatEmptySeq
<1> QED
  BY <1>1, <1>2, <1>4, <1>5

\* No step but a send changes the log.
LEMMA LogStep ==
  ASSUME TypeOK, LockHeld, [Next]_vars
  PROVE  Log' = Log \/ \E w \in Writer : Send(w)
<1>1. ASSUME UNCHANGED <<retired, inflight, lock, channel, flusher>> PROVE Log' = Log
  BY <1>1, SameParts DEF LockHeld
<1>2. ASSUME NEW w \in Writer, TakeId(w) \/ CountSent(w) PROVE Log' = Log
  BY <1>1, <1>2 DEF TakeId, CountSent
<1>3. CASE \E o \in Observer : LenInflight(o) \/ LenLoad(o)
  BY <1>1, <1>3 DEF LenInflight, LenLoad
<1>4. CASE UNCHANGED vars
  BY <1>1, <1>4 DEF vars
<1>5. ASSUME NEW f \in Flusher, FlushAgain(f) \/ FlushUncount(f) PROVE Log' = Log
  <2>1. /\ UNCHANGED <<retired, inflight, lock, channel>>
        /\ \A g \in Flusher : flusher'[g].entries = flusher[g].entries
    <3>1. CASE FlushAgain(f)
      BY <3>1 DEF FlushAgain, TypeOK
    <3>2. CASE FlushUncount(f)
      BY <3>2 DEF FlushUncount, TypeOK
    <3> QED
      BY <1>5, <3>1, <3>2
  <2>2. \A g : lock = {g} => g \in Flusher
    BY DEF TypeOK
  <2> QED
    BY <2>1, <2>2, SameParts DEF LockHeld
<1>6. ASSUME NEW f \in Flusher, NEW limit \in Limit, FlushStart(f, limit)
      PROVE  Log' = Log
  BY <1>6, StartLog
<1>7. ASSUME NEW f \in Flusher, FlushPop(f) PROVE Log' = Log
  BY <1>7, PopLog
<1>8. ASSUME NEW f \in Flusher, FlushDone(f) PROVE Log' = Log
  BY <1>8, DoneLog
<1>9. ASSUME NEW f \in Flusher, MarkFlushed(f) PROVE Log' = Log
  BY <1>9, MarkLog
<1> QED
  BY <1>2, <1>3, <1>4, <1>5, <1>6, <1>7, <1>8, <1>9 DEF Next, AppendStep, DrainStep

(***************************************************************************)
(* The ids: unsent, or once in the log, and each writer's in order.        *)
(***************************************************************************)

\* Who has an id to send changes only when an id is taken and when it is sent.
LEMMA WritersStep ==
  ASSUME TypeOK, [Next]_vars
  PROVE  \/ \E w \in Writer : TakeId(w)
         \/ \E w \in Writer : Send(w)
         \/ /\ next_id' = next_id
            /\ \A u \in Writer : /\ writer'[u].pc = "send" <=> writer[u].pc = "send"
                                 /\ writer[u].pc = "send" => writer'[u] = writer[u]
<1>1. ASSUME NEW w \in Writer, CountSent(w)
      PROVE  /\ next_id' = next_id
             /\ \A u \in Writer : /\ writer'[u].pc = "send" <=> writer[u].pc = "send"
                                  /\ writer[u].pc = "send" => writer'[u] = writer[u]
  BY <1>1 DEF CountSent, TypeOK
<1>2. CASE UNCHANGED <<next_id, writer>>
  BY <1>2
<1>3. CASE \E f \in Flusher :
             \/ FlushAgain(f)
             \/ \E limit \in Limit : FlushStart(f, limit)
             \/ DrainStep(f)
             \/ MarkFlushed(f)
  BY <1>2, <1>3 DEF FlushAgain, FlushStart, DrainStep, FlushPop, FlushUncount,
                    FlushDone, MarkFlushed
<1>4. CASE \E o \in Observer : LenInflight(o) \/ LenLoad(o)
  BY <1>2, <1>4 DEF LenInflight, LenLoad
<1>5. CASE UNCHANGED vars
  BY <1>2, <1>5 DEF vars
<1> QED
  BY <1>1, <1>3, <1>4, <1>5 DEF Next, AppendStep

\* The three conditions on ids.
IdInv == UnsentAhead /\ EachIdOnce /\ ProgramOrder

\* An id is unsent if some writer has it to send.
LEMMA UnsentDef ==
  \A n : n \in UnsentIds <=> \E w \in Writer : writer[w].pc = "send" /\ writer[w].id = n
BY DEF UnsentIds

\* Taking an id adds it to the unsent ones; it is past all others.
LEMMA TakeIds ==
  ASSUME TypeOK, LockHeld, IdInv, NEW w \in Writer, TakeId(w), Log' = Log
  PROVE  IdInv'
<1> USE DEF TakeId
<1>1. next_id \in Nat /\ next_id' = next_id + 1
  BY MaxWriteAssumption DEF TypeOK
<1>2. /\ writer'[w].pc = "send" /\ writer'[w].id = next_id
      /\ \A u \in Writer : u # w => writer'[u] = writer[u]
      /\ writer[w].pc # "send"
  BY DEF TypeOK
<1>3. \A i \in DOMAIN Log : Log[i].id \in 0 .. next_id - 1
  BY DEF IdInv, EachIdOnce
<1>4. \A u \in Writer : writer[u].pc = "send" => writer[u].id \in 0 .. next_id - 1
  BY DEF IdInv, UnsentAhead
<1>5. UnsentIds' = UnsentIds \cup {next_id}
  <2>1. \A n : n \in UnsentIds' <=>
               \E u \in Writer : writer'[u].pc = "send" /\ writer'[u].id = n
    BY DEF UnsentIds
  <2>2. \A n : n \in UnsentIds' <=> n \in UnsentIds \/ n = next_id
    BY <1>2, <2>1, UnsentDef
  <2> QED
    BY <2>2
<1>6. UnsentAhead'
  <2> SUFFICES ASSUME NEW u \in Writer, writer'[u].pc = "send"
               PROVE  /\ writer'[u].id \in 0 .. next_id' - 1
                      /\ \A v \in Writer \ {u} :
                           writer'[v].pc = "send" => writer'[v].id # writer'[u].id
                      /\ \A i \in DOMAIN Log : Log[i].by = u => Log[i].id < writer'[u].id
    BY DEF UnsentAhead
  <2>1. CASE u = w
    BY <1>1, <1>2, <1>3, <1>4, <2>1
  <2>2. CASE u # w
    BY <1>1, <1>2, <1>4, <2>2 DEF IdInv, UnsentAhead
  <2> QED
    BY <2>1, <2>2
<1>7. EachIdOnce'
  <2>1. {Log[i].id : i \in DOMAIN Log} = (0 .. next_id - 1) \ UnsentIds
    BY DEF IdInv, EachIdOnce
  <2>2. (0 .. next_id' - 1) \ UnsentIds' = (0 .. next_id - 1) \ UnsentIds
    BY <1>1, <1>5
  <2> QED
    BY <2>1, <2>2 DEF IdInv, EachIdOnce
<1>8. ProgramOrder'
  BY DEF IdInv, ProgramOrder
<1> QED
  BY <1>6, <1>7, <1>8 DEF IdInv

\* Sending an id moves it from the unsent ones to the end of the log.
LEMMA SendIds ==
  ASSUME TypeOK, LockHeld, IdInv, TypeOK', NEW w \in Writer, Send(w)
  PROVE  IdInv'
<1> DEFINE r == [id |-> writer[w].id, by |-> w]
<1>1. r \in DirtyRecord /\ Log' = Append(Log, r)
  BY SendLog
<1>2. r.id = writer[w].id /\ r.by = w
  OBVIOUS
<1>3. /\ writer[w].pc = "send" /\ next_id' = next_id
      /\ writer'[w].pc # "send" /\ \A u \in Writer : u # w => writer'[u] = writer[u]
  BY DEF Send, TypeOK
<1>4. /\ r.id \in 0 .. next_id - 1 /\ r.id \in UnsentIds
      /\ \A u \in Writer : u # w /\ writer[u].pc = "send" => writer[u].id # r.id
      /\ \A i \in DOMAIN Log : Log[i].by = w => Log[i].id < r.id
  BY <1>3, UnsentDef DEF IdInv, UnsentAhead
<1> HIDE DEF r
<1>5. Log \in Seq(DirtyRecord) /\ DOMAIN Log = 1 .. Len(Log) /\ Len(Log) \in Nat
  BY LogParts
<1>6. /\ DOMAIN Log' = 1 .. Len(Log) + 1
      /\ \A i \in DOMAIN Log : Log'[i] = Log[i]
      /\ Log'[Len(Log) + 1] = r
  BY <1>1, <1>5, AppendProperties
<1>7. UnsentIds' = UnsentIds \ {r.id}
  <2>1. \A n : n \in UnsentIds' <=>
               \E u \in Writer : writer'[u].pc = "send" /\ writer'[u].id = n
    BY DEF UnsentIds
  <2>2. \A n : n \in UnsentIds' <=> n \in UnsentIds /\ n # r.id
    BY <1>2, <1>3, <1>4, <2>1, UnsentDef
  <2> QED
    BY <2>2
<1>8. /\ \A i, j \in DOMAIN Log : i # j => Log[i].id # Log[j].id
      /\ {Log[i].id : i \in DOMAIN Log} = (0 .. next_id - 1) \ UnsentIds
  BY DEF IdInv, EachIdOnce
<1>9. \A i \in DOMAIN Log : Log[i].id # r.id
  BY <1>4, <1>8
<1>10. EachIdOnce'
  <2>1. \A i, j \in DOMAIN Log' : i # j => Log'[i].id # Log'[j].id
    BY <1>5, <1>6, <1>8, <1>9
  <2>2. {Log'[i].id : i \in DOMAIN Log'} = {Log[i].id : i \in DOMAIN Log} \cup {r.id}
    BY <1>5, <1>6
  <2>3. (0 .. next_id' - 1) \ UnsentIds' = ((0 .. next_id - 1) \ UnsentIds) \cup {r.id}
    BY <1>3, <1>4, <1>7
  <2> QED
    BY <1>8, <2>1, <2>2, <2>3 DEF EachIdOnce
<1>11. UnsentAhead'
  <2> SUFFICES ASSUME NEW u \in Writer, writer'[u].pc = "send"
               PROVE  /\ writer'[u].id \in 0 .. next_id' - 1
                      /\ \A v \in Writer \ {u} :
                           writer'[v].pc = "send" => writer'[v].id # writer'[u].id
                      /\ \A i \in DOMAIN Log' :
                           Log'[i].by = u => Log'[i].id < writer'[u].id
    BY DEF UnsentAhead
  <2>1. u # w /\ writer'[u] = writer[u]
    BY <1>3
  <2>2. /\ writer[u].id \in 0 .. next_id - 1
        /\ \A v \in Writer \ {u} : writer[v].pc = "send" => writer[v].id # writer[u].id
        /\ \A i \in DOMAIN Log : Log[i].by = u => Log[i].id < writer[u].id
    BY <2>1 DEF IdInv, UnsentAhead
  <2>3. \A i \in DOMAIN Log' : Log'[i].by = u => Log'[i].id < writer'[u].id
    BY <1>2, <1>5, <1>6, <2>1, <2>2
  <2> QED
    BY <1>3, <2>1, <2>2, <2>3
<1>12. ProgramOrder'
  <2> SUFFICES ASSUME NEW i \in DOMAIN Log', NEW j \in DOMAIN Log',
                      i < j, Log'[i].by = Log'[j].by
               PROVE  Log'[i].id < Log'[j].id
    BY DEF ProgramOrder
  <2>1. i \in DOMAIN Log /\ (j \in DOMAIN Log \/ j = Len(Log) + 1)
    BY <1>5, <1>6
  <2>2. CASE j \in DOMAIN Log
    BY <1>6, <2>1, <2>2 DEF IdInv, ProgramOrder
  <2>3. CASE j = Len(Log) + 1
    BY <1>2, <1>4, <1>6, <2>1, <2>3
  <2> QED
    BY <2>1, <2>2, <2>3
<1> QED
  BY <1>10, <1>11, <1>12 DEF IdInv

\* The other steps take and send no id.
LEMMA SameIds ==
  ASSUME IdInv, Log' = Log, next_id' = next_id,
         \A u \in Writer : /\ writer'[u].pc = "send" <=> writer[u].pc = "send"
                           /\ writer[u].pc = "send" => writer'[u] = writer[u]
  PROVE  IdInv'
<1>1. UnsentIds' = UnsentIds
  <2>1. \A n : n \in UnsentIds' <=>
               \E u \in Writer : writer'[u].pc = "send" /\ writer'[u].id = n
    BY DEF UnsentIds
  <2>2. \A n : n \in UnsentIds' <=> n \in UnsentIds
    BY <2>1, UnsentDef
  <2> QED
    BY <2>2
<1>2. EachIdOnce' /\ ProgramOrder'
  BY <1>1 DEF IdInv, EachIdOnce, ProgramOrder
<1>3. UnsentAhead'
  BY DEF IdInv, UnsentAhead
<1> QED
  BY <1>2, <1>3 DEF IdInv

\* Every step keeps the conditions on ids.
LEMMA IdStep ==
  ASSUME TypeOK, LockHeld, IdInv, TypeOK', [Next]_vars
  PROVE  IdInv'
<1>1. ASSUME NEW w \in Writer, TakeId(w) PROVE IdInv'
  <2>1. Log' = Log
    BY <1>1, SameParts DEF TakeId, LockHeld
  <2> QED
    BY <1>1, <2>1, TakeIds
<1>2. ASSUME NEW w \in Writer, Send(w) PROVE IdInv'
  BY <1>2, SendIds
<1> QED
  BY <1>1, <1>2, LogStep, WritersStep, SameIds

(***************************************************************************)
(* The count.                                                              *)
(***************************************************************************)
Uncounting == {f \in Flusher : flusher[f].pc = "uncount"}
Counting == {w \in Writer : writer[w].pc = "count"}

\* The count is the length of the channel, corrected by the pops not yet
\* uncounted and the sends not yet counted.
LEMMA PendingDef ==
  PendingLenAccounts <=>
    pending_len = Wrap(Len(channel) + Cardinality(Uncounting) - Cardinality(Counting))
BY DEF PendingLenAccounts, Uncounting, Counting

\* The numbers in it.
LEMMA CountTypes ==
  /\ IsFiniteSet(Uncounting) /\ Cardinality(Uncounting) \in Nat
  /\ IsFiniteSet(Counting) /\ Cardinality(Counting) \in Nat
<1>1. Uncounting \in SUBSET Flusher /\ Counting \in SUBSET Writer
  BY DEF Uncounting, Counting
<1> QED
  BY <1>1, FiniteThreadsAssumption, FS_Subset, FS_CardinalityType

\* Wrapping and then adding is adding and then wrapping.
LEMMA WrapAdd == \A a, b \in Int : Wrap(Wrap(a) + b) = Wrap(a + b)
BY CountModulusAssumption, ModAdd DEF Wrap

\* A record sent and not yet counted is made up for by its writer.
LEMMA SendCount ==
  ASSUME TypeOK, PendingLenAccounts, TypeOK', NEW w \in Writer, Send(w)
  PROVE  PendingLenAccounts'
<1> USE DEF Send
<1>1. Uncounting' = Uncounting
  BY DEF Uncounting
<1>2. w \notin Counting /\ Counting' = Counting \cup {w}
  BY DEF Counting, TypeOK
<1>3. Cardinality(Counting') = Cardinality(Counting) + 1
  BY <1>2, CountTypes, CountUp
<1>4. Len(channel) \in Nat /\ Len(channel') = Len(channel) + 1
  BY DEF TypeOK, Push
<1>5. Len(channel) + Cardinality(Uncounting) - Cardinality(Counting)
        = Len(channel') + Cardinality(Uncounting') - Cardinality(Counting')
  BY <1>1, <1>3, <1>4, CountTypes
<1>6. pending_len' = Wrap(Len(channel) + Cardinality(Uncounting) - Cardinality(Counting))
  BY PendingDef
<1> QED
  BY <1>5, <1>6 DEF PendingLenAccounts, Uncounting, Counting

\* Counting it settles the debt.
LEMMA CountSentCount ==
  ASSUME TypeOK, PendingLenAccounts, NEW w \in Writer, CountSent(w)
  PROVE  PendingLenAccounts'
<1> DEFINE n == Len(channel) + Cardinality(Uncounting) - Cardinality(Counting)
<1> USE DEF CountSent
<1>1. Uncounting' = Uncounting
  BY DEF Uncounting
<1>2. w \in Counting /\ Counting' = Counting \ {w}
  BY DEF Counting, TypeOK
<1>3. Cardinality(Counting') = Cardinality(Counting) - 1
  BY <1>2, CountTypes, CountDown
<1>4. Len(channel) \in Nat /\ Len(channel') = Len(channel)
  BY DEF TypeOK
<1>5. n \in Int
      /\ n + 1 = Len(channel') + Cardinality(Uncounting') - Cardinality(Counting')
  BY <1>1, <1>3, <1>4, CountTypes
<1>6. pending_len' = Wrap(Wrap(n) + 1)
  BY PendingDef
<1> HIDE DEF n
<1>7. pending_len' = Wrap(n + 1)
  BY <1>5, <1>6, WrapAdd
<1> QED
  BY <1>5, <1>7 DEF PendingLenAccounts, Uncounting, Counting

\* A record popped and not yet uncounted is made up for by its flusher.
LEMMA PopCount ==
  ASSUME TypeOK, PendingLenAccounts, NEW f \in Flusher, FlushPop(f)
  PROVE  PendingLenAccounts'
<1> USE DEF FlushPop
<1>1. Counting' = Counting
  BY DEF Counting
<1>2. f \notin Uncounting /\ Uncounting' = Uncounting \cup {f}
  BY DEF Uncounting, TypeOK
<1>3. Cardinality(Uncounting') = Cardinality(Uncounting) + 1
  BY <1>2, CountTypes, CountUp
<1>4. Len(channel) \in Nat /\ Len(channel') = Len(channel) - 1
  BY HeadTailProperties DEF TypeOK
<1>5. Len(channel) + Cardinality(Uncounting) - Cardinality(Counting)
        = Len(channel') + Cardinality(Uncounting') - Cardinality(Counting')
  BY <1>1, <1>3, <1>4, CountTypes
<1>6. pending_len' = Wrap(Len(channel) + Cardinality(Uncounting) - Cardinality(Counting))
  BY PendingDef
<1> QED
  BY <1>5, <1>6 DEF PendingLenAccounts, Uncounting, Counting

\* Uncounting it settles the debt.
LEMMA UncountCount ==
  ASSUME TypeOK, PendingLenAccounts, NEW f \in Flusher, FlushUncount(f)
  PROVE  PendingLenAccounts'
<1> DEFINE n == Len(channel) + Cardinality(Uncounting) - Cardinality(Counting)
<1> USE DEF FlushUncount
<1>1. Counting' = Counting
  BY DEF Counting
<1>2. f \in Uncounting /\ Uncounting' = Uncounting \ {f}
  BY DEF Uncounting, TypeOK
<1>3. Cardinality(Uncounting') = Cardinality(Uncounting) - 1
  BY <1>2, CountTypes, CountDown
<1>4. Len(channel) \in Nat /\ Len(channel') = Len(channel)
  BY DEF TypeOK
<1>5. n \in Int
      /\ n + (-1) = Len(channel') + Cardinality(Uncounting') - Cardinality(Counting')
  BY <1>1, <1>3, <1>4, CountTypes
<1>6. pending_len' = Wrap(Wrap(n) + (-1))
  <2>1. pending_len = Wrap(n) /\ pending_len \in Int
    BY PendingDef, CountModulusAssumption DEF TypeOK
  <2>2. pending_len - 1 = pending_len + (-1)
    BY <2>1
  <2> QED
    BY <2>1, <2>2
<1> HIDE DEF n
<1>7. pending_len' = Wrap(n + (-1))
  BY <1>5, <1>6, WrapAdd
<1> QED
  BY <1>5, <1>7 DEF PendingLenAccounts, Uncounting, Counting

\* The other steps neither send, pop nor count.
LEMMA SameCount ==
  ASSUME PendingLenAccounts, UNCHANGED <<pending_len, channel>>,
         \A w \in Writer : writer'[w].pc = "count" <=> writer[w].pc = "count",
         \A f \in Flusher : flusher'[f].pc = "uncount" <=> flusher[f].pc = "uncount"
  PROVE  PendingLenAccounts'
<1>1. /\ {f \in Flusher : flusher'[f].pc = "uncount"} = {f \in Flusher : flusher[f].pc = "uncount"}
      /\ {w \in Writer : writer'[w].pc = "count"} = {w \in Writer : writer[w].pc = "count"}
  OBVIOUS
<1> QED
  BY <1>1 DEF PendingLenAccounts

\* Every step keeps the count's account.
LEMMA CountStep ==
  ASSUME TypeOK, LockHeld, PendingLenAccounts, TypeOK', [Next]_vars
  PROVE  PendingLenAccounts'
<1>1. ASSUME NEW w \in Writer, TakeId(w) PROVE PendingLenAccounts'
  BY <1>1, SameCount DEF TakeId, TypeOK
<1>2. CASE \E o \in Observer : LenInflight(o) \/ LenLoad(o)
  BY <1>2, SameCount DEF LenInflight, LenLoad
<1>3. ASSUME NEW f \in Flusher, FlushAgain(f) PROVE PendingLenAccounts'
  BY <1>3, SameCount DEF FlushAgain, TypeOK
<1>4. ASSUME NEW f \in Flusher, NEW limit \in Limit, FlushStart(f, limit)
      PROVE  PendingLenAccounts'
  BY <1>4, SameCount DEF FlushStart, TypeOK
<1>5. ASSUME NEW f \in Flusher, FlushDone(f) PROVE PendingLenAccounts'
  BY <1>5, SameCount DEF FlushDone, TypeOK
<1>6. ASSUME NEW f \in Flusher, MarkFlushed(f) PROVE PendingLenAccounts'
  BY <1>6, SameCount DEF MarkFlushed
<1>7. CASE UNCHANGED vars
  BY <1>7, SameCount DEF vars
<1> QED
  BY <1>1, <1>2, <1>3, <1>4, <1>5, <1>6, <1>7,
     SendCount, CountSentCount, PopCount, UncountCount
     DEF Next, AppendStep, DrainStep

(***************************************************************************)
(* The batches the flushers hold.                                          *)
(***************************************************************************)

\* Retiring the batch in flight retires what was held of it.
LEMMA MarkHeld ==
  ASSUME TypeOK, LockHeld, HeldBatchKnown, NEW f \in Flusher, MarkFlushed(f)
  PROVE  HeldBatchKnown'
<1> DEFINE B == inflight.batch
<1>1. /\ B \in Seq(DirtyRecord) \ {<<>>} /\ retired \in Seq(DirtyRecord)
      /\ retired' = retired \o B /\ flusher' = flusher
  BY MarkLog DEF MarkFlushed, TypeOK
<1> HIDE DEF B
<1>2. /\ Len(retired) \in Nat /\ Len(B) \in Nat \ {0}
      /\ DOMAIN retired = 1 .. Len(retired)
      /\ DOMAIN retired' = 1 .. Len(retired) + Len(B)
      /\ \A i \in 1 .. Len(retired) + Len(B) :
           retired'[i] = IF i <= Len(retired) THEN retired[i] ELSE B[i - Len(retired)]
  BY <1>1, EmptySeq, LenProperties, ConcatProperties
<1>3. \A i \in DOMAIN retired : i \in DOMAIN retired' /\ retired'[i] = retired[i]
  BY <1>2
<1>4. /\ Len(retired) + Len(B) \in DOMAIN retired'
      /\ retired'[Len(retired) + Len(B)].id = last_id(B)
  <2>1. retired'[Len(retired) + Len(B)] = B[Len(B)]
    <3>1. (Len(retired) + Len(B)) - Len(retired) = Len(B)
      BY <1>2
    <3> QED
      BY <1>2, <3>1
  <2> QED
    BY <1>1, <1>2, <2>1 DEF last_id
<1> QED
  BY <1>1, <1>3, <1>4 DEF HeldBatchKnown, B

\* A flusher that drained holds what it put in flight.
LEMMA DoneHeld ==
  ASSUME TypeOK, LockHeld, HeldBatchKnown, NEW f \in Flusher, FlushDone(f)
  PROVE  HeldBatchKnown'
<1> USE DEF FlushDone
<1>1. inflight = NoBatch
  BY DEF LockHeld
<1>2. /\ flusher'[f].held = flusher[f].entries
      /\ \A g \in Flusher : g # f => flusher'[g] = flusher[g]
  BY DEF TypeOK
<1>3. flusher[f].entries # <<>> =>
        inflight'.some /\ inflight'.batch = flusher[f].entries
  BY DEF Installed, Some
<1>4. ~inflight.some
  BY <1>1 DEF NoBatch
<1> QED
  BY <1>2, <1>3, <1>4 DEF HeldBatchKnown

\* Every step keeps the batches known.
LEMMA HeldStep ==
  ASSUME TypeOK, LockHeld, HeldBatchKnown, [Next]_vars
  PROVE  HeldBatchKnown'
<1>1. ASSUME UNCHANGED <<inflight, retired>>,
             \A g \in Flusher : \/ flusher'[g].held = flusher[g].held
                                \/ inflight.some /\ flusher'[g].held = inflight.batch
      PROVE  HeldBatchKnown'
  BY <1>1 DEF HeldBatchKnown
<1>2. CASE \E w \in Writer : AppendStep(w)
  BY <1>1, <1>2 DEF AppendStep, TakeId, Send, CountSent
<1>3. CASE \E o \in Observer : LenInflight(o) \/ LenLoad(o)
  BY <1>1, <1>3 DEF LenInflight, LenLoad
<1>4. ASSUME NEW f \in Flusher, FlushAgain(f) PROVE HeldBatchKnown'
  <2>1. /\ flusher'[f].held = inflight.batch /\ inflight.some
        /\ \A g \in Flusher : g # f => flusher'[g] = flusher[g]
    BY <1>4 DEF FlushAgain, TypeOK
  <2> QED
    BY <1>1, <1>4, <2>1 DEF FlushAgain
<1>5. ASSUME NEW f \in Flusher, NEW limit \in Limit, FlushStart(f, limit)
      PROVE  HeldBatchKnown'
  BY <1>1, <1>5 DEF FlushStart, TypeOK
<1>6. ASSUME NEW f \in Flusher, FlushPop(f) PROVE HeldBatchKnown'
  BY <1>1, <1>6 DEF FlushPop, TypeOK
<1>7. ASSUME NEW f \in Flusher, FlushUncount(f) PROVE HeldBatchKnown'
  BY <1>1, <1>7 DEF FlushUncount, TypeOK
<1>8. CASE UNCHANGED vars
  BY <1>1, <1>8 DEF vars
<1> QED
  BY <1>2, <1>3, <1>4, <1>5, <1>6, <1>7, <1>8, DoneHeld, MarkHeld
     DEF Next, DrainStep

(***************************************************************************)
(* The inductive invariant.                                                *)
(***************************************************************************)

\* It holds of the empty log.
LEMMA InitIInv == Init => IInv
<1> SUFFICES ASSUME Init PROVE IInv
  OBVIOUS
<1>1. TypeOK /\ LockHeld
  BY InitTypeOK DEF Init, LockHeld
<1>2. Log = <<>>
  BY DEF Init, Log, Draining, Entries, NoBatch
<1>3. UnsentIds = {}
  BY DEF Init, UnsentIds
<1>4. UnsentAhead /\ EachIdOnce /\ ProgramOrder
  BY <1>2, <1>3 DEF Init, UnsentAhead, EachIdOnce, ProgramOrder
<1>5. PendingLenAccounts
  <2>1. Cardinality(Uncounting) = 0 /\ Cardinality(Counting) = 0
    BY FS_EmptySet DEF Init, Uncounting, Counting
  <2>2. Wrap(0) = 0
    BY CountModulusAssumption DEF Wrap
  <2>3. Len(channel) = 0 /\ pending_len = 0
    BY DEF Init
  <2> QED
    BY <2>1, <2>2, <2>3, PendingDef
<1>6. HeldBatchKnown
  BY DEF Init, HeldBatchKnown
<1> QED
  BY <1>1, <1>4, <1>5, <1>6 DEF IInv

\* Every step preserves it.
LEMMA NextIInv == IInv /\ [Next]_vars => IInv'
<1> SUFFICES ASSUME IInv, [Next]_vars PROVE IInv'
  OBVIOUS
<1>1. /\ TypeOK /\ LockHeld /\ UnsentAhead /\ PendingLenAccounts
      /\ HeldBatchKnown /\ IdInv
  BY DEF IInv, IdInv
<1>2. TypeOK' /\ LockHeld'
  BY <1>1, NextTypeOK, LockStep
<1>3. IdInv'
  BY <1>1, <1>2, IdStep
<1>4. PendingLenAccounts' /\ HeldBatchKnown'
  BY <1>1, <1>2, CountStep, HeldStep
<1> QED
  BY <1>2, <1>3, <1>4 DEF IInv, IdInv

\* Whatever the interleaving: the mutex covers each drain, every id is in one
\* place, every batch still held is known, and the count is accounted for.
THEOREM Invariance == Spec => []IInv
BY InitIInv, NextIInv, PTL DEF Spec

\* The shipped log keeps its types.
THEOREM TypeCorrect == Spec => []TypeOK
<1>1. IInv => TypeOK
  BY DEF IInv
<1> QED
  BY <1>1, Invariance, PTL

\* No id is lost or repeated between append and retirement.
THEOREM IdsOnce == Spec => []EachIdOnce
<1>1. IInv => EachIdOnce
  BY DEF IInv
<1> QED
  BY <1>1, Invariance, PTL

\* The records of one writer stay in its order.
THEOREM WriterOrder == Spec => []ProgramOrder
<1>1. IInv => ProgramOrder
  BY DEF IInv
<1> QED
  BY <1>1, Invariance, PTL

\* The count of pending records is off by exactly the updates to come.
THEOREM CountAccounts == Spec => []PendingLenAccounts
<1>1. IInv => PendingLenAccounts
  BY DEF IInv
<1> QED
  BY <1>1, Invariance, PTL

\* With no append or flush half-way, len is exact.
THEOREM QuietLen == Spec => []QuietLenExact
<1>1. IInv => QuietLenExact
  <2> SUFFICES ASSUME IInv, NEW o \in Observer,
                      observer[o].inflight_len = Len(Entries(inflight)),
                      \A w \in Writer : writer[w].pc # "count",
                      \A f \in Flusher : flusher[f].pc = "idle"
               PROVE  LenAnswer(o) = Wrap(Len(channel) + Len(Entries(inflight)))
    BY DEF QuietLenExact
  <2>1. Uncounting = {} /\ Counting = {}
    BY DEF Uncounting, Counting
  <2>2. Cardinality(Uncounting) = 0 /\ Cardinality(Counting) = 0
    BY <2>1, FS_EmptySet
  <2>3. Len(channel) \in Nat /\ Len(Entries(inflight)) \in Nat
    BY LogParts, LenProperties DEF IInv
  <2>4. pending_len = Wrap(Len(channel))
    BY <2>2, <2>3, PendingDef DEF IInv
  <2> QED
    BY <2>3, <2>4, WrapAdd DEF LenAnswer
<1> QED
  BY <1>1, Invariance, PTL

\* Equal length and equal last id mean the batch in flight itself: its last
\* record is not among the retired ones.
LEMMA HeldOrStale ==
  ASSUME IInv, NEW f \in Flusher, MarkFlushed(f)
  PROVE  flusher[f].held = inflight.batch
<1> DEFINE B == inflight.batch
           front == retired \o B
<1>0. TypeOK /\ LockHeld
  BY DEF IInv
<1>1. /\ B \in Seq(DirtyRecord) \ {<<>>} /\ Entries(inflight) = B
      /\ SameBatch(B, flusher[f].held)
  BY <1>0, MarkLog DEF MarkFlushed
<1>2. retired \in Seq(DirtyRecord) /\ Draining \in Seq(DirtyRecord)
      /\ channel \in Seq(DirtyRecord) /\ flusher[f].held \in Seq(DirtyRecord)
  BY <1>0, LogParts DEF TypeOK
<1>3. Log = (front \o Draining) \o channel
  BY <1>1 DEF Log
<1> HIDE DEF B
<1>4. Len(retired) \in Nat /\ Len(B) \in Nat \ {0}
  BY <1>1, <1>2, EmptySeq
<1>5. /\ front \in Seq(DirtyRecord) /\ Len(front) = Len(retired) + Len(B)
      /\ \A i \in 1 .. Len(retired) + Len(B) :
           front[i] = IF i <= Len(retired) THEN retired[i] ELSE B[i - Len(retired)]
  BY <1>1, <1>2, ConcatProperties
<1> HIDE DEF front
<1>6. /\ front \o Draining \in Seq(DirtyRecord)
      /\ Len(front \o Draining) = Len(front) + Len(Draining)
      /\ \A i \in 1 .. Len(front) : (front \o Draining)[i] = front[i]
  <2>1. /\ front \o Draining \in Seq(DirtyRecord)
        /\ Len(front \o Draining) = Len(front) + Len(Draining)
        /\ \A i \in 1 .. Len(front) + Len(Draining) :
             (front \o Draining)[i] = IF i <= Len(front) THEN front[i]
                                      ELSE Draining[i - Len(front)]
    <3>1. front \in Seq(DirtyRecord) /\ Draining \in Seq(DirtyRecord)
      BY <1>2, <1>5
    <3> QED
      BY <3>1, ConcatProperties
  <2>2. Len(front) \in Nat /\ Len(Draining) \in Nat
    BY <1>2, <1>5
  <2> QED
    BY <2>1, <2>2
<1>7. /\ DOMAIN Log = 1 .. Len(front) + Len(Draining) + Len(channel)
      /\ \A i \in 1 .. Len(front) : Log[i] = front[i]
  <2>1. Len(front) \in Nat /\ Len(Draining) \in Nat /\ Len(channel) \in Nat
    BY <1>2, <1>5
  <2> QED
    BY <1>2, <1>3, <1>6, <2>1, ConcatProperties, LenProperties
<1>8. last_id(B) = last_id(flusher[f].held) /\ flusher[f].held # <<>>
  BY <1>1, <1>4 DEF SameBatch
<1>9. ASSUME NEW i \in DOMAIN retired PROVE retired[i].id # last_id(B)
  <2> DEFINE j == Len(retired) + Len(B)
  <2>1. i \in 1 .. Len(retired) /\ j \in 1 .. Len(front) /\ i \in 1 .. Len(front)
        /\ i # j /\ Len(Draining) \in Nat /\ Len(channel) \in Nat
    BY <1>2, <1>4, <1>5
  <2>2. i \in DOMAIN Log /\ j \in DOMAIN Log
    BY <1>4, <1>5, <1>7, <2>1
  <2>3. Log[i] = retired[i]
    BY <1>4, <1>5, <1>7, <2>1
  <2>4. Log[j] = B[Len(B)]
    <3>1. j - Len(retired) = Len(B) /\ ~(j <= Len(retired))
      BY <1>4
    <3> QED
      BY <1>4, <1>5, <1>7, <2>1, <3>1
  <2>5. Log[i].id # Log[j].id
    BY <2>1, <2>2 DEF IInv, EachIdOnce
  <2> QED
    BY <1>1, <2>3, <2>4, <2>5 DEF last_id
<1> QED
  BY <1>8, <1>9 DEF IInv, HeldBatchKnown, B

\* In the shipped build too, a stale or repeated mark changes nothing.
THEOREM StaleMarks == Spec => MarkRetiresWhatWasHeld
<1>1. IInv => [\A f \in Flusher :
                 MarkFlushed(f) => flusher[f].held = inflight.batch]_vars
  BY HeldOrStale
<1> QED
  BY <1>1, Invariance, PTL DEF MarkRetiresWhatWasHeld

(***************************************************************************)
(* The refinement of OrderedLog: a send appends, the end of a drain takes  *)
(* the batch, a mark retires it; the other steps do not show.              *)
(***************************************************************************)

\* The abstract log's records are those of Log.
LEMMA AbstractLog ==
  ASSUME TypeOK, LockHeld
  PROVE  OL!Appended = Log
<1> DEFINE front == retired \o Entries(inflight)
<1>1. front \in Seq(DirtyRecord) /\ Draining \in Seq(DirtyRecord)
      /\ channel \in Seq(DirtyRecord)
  BY LogParts
<1>2. OL!Appended = front \o (Draining \o channel) /\ Log = (front \o Draining) \o channel
  BY DEF OL!Appended, Log, inflightView, pendingView
<1> HIDE DEF front
<1>3. (front \o Draining) \o channel = front \o (Draining \o channel)
  BY <1>1, ConcatAssociative
<1> QED
  BY <1>2, <1>3

\* The empty log maps to the empty log.
LEMMA InitRefines == Init => OL!Init
BY DEF Init, OL!Init, inflightView, pendingView, Draining, Entries, NoBatch

\* A send appends a record whose id no record of the log has.
LEMMA SendRefines ==
  ASSUME IInv, IInv', NEW w \in Writer, Send(w)
  PROVE  OL!Next
<1> DEFINE r == [id |-> writer[w].id, by |-> w]
<1>0. TypeOK /\ LockHeld /\ TypeOK'
  BY DEF IInv
<1>1. r \in DirtyRecord /\ channel' = Append(channel, r)
  BY <1>0, SendLog DEF Send, Push
<1>2. ASSUME NEW i \in DOMAIN Log PROVE Log[i] # r
  <2>1. writer[w].id \in UnsentIds
    BY UnsentDef DEF Send
  <2>2. Log[i].id \notin UnsentIds
    BY DEF IInv, EachIdOnce
  <2>3. r.id = writer[w].id
    OBVIOUS
  <2> QED
    BY <2>1, <2>2, <2>3
<1>3. Draining \in Seq(DirtyRecord) /\ channel \in Seq(DirtyRecord)
  BY <1>0, LogParts
<1>4. Draining' = Draining /\ UNCHANGED <<inflight, retired>>
  BY DEF Send, Draining
<1> HIDE DEF r
<1>5. pendingView' = Append(pendingView, r)
  <2>1. Draining \o Append(channel, r) = Append(Draining \o channel, r)
    BY <1>1, <1>3, ConcatAppend
  <2> QED
    BY <1>1, <1>4, <2>1 DEF pendingView
<1>6. \A i \in DOMAIN OL!Appended : OL!Appended[i] # r
  BY <1>0, <1>2, AbstractLog
<1>7. OL!AppendRecord(r)
  BY <1>4, <1>5, <1>6 DEF OL!AppendRecord, inflightView
<1> QED
  BY <1>1, <1>7 DEF OL!Next

\* A pop moves a record within what is pending.
LEMMA PopRefines ==
  ASSUME IInv, NEW f \in Flusher, FlushPop(f)
  PROVE  UNCHANGED OL!vars
<1>0. TypeOK /\ LockHeld
  BY DEF IInv
<1>1. /\ Draining' = Append(Draining, Head(channel))
      /\ channel # <<>> /\ channel' = Tail(channel)
  BY <1>0, PopLog
<1>2. Draining \in Seq(DirtyRecord) /\ channel \in Seq(DirtyRecord)
  BY <1>0, LogParts
<1>3. pendingView' = pendingView
  <2>1. Append(Draining, Head(channel)) \o Tail(channel) = Draining \o channel
    BY <1>1, <1>2, MoveHead
  <2> QED
    BY <1>1, <2>1 DEF pendingView
<1>4. UNCHANGED <<inflight, retired>>
  BY DEF FlushPop
<1> QED
  BY <1>3, <1>4 DEF OL!vars, inflightView

\* The end of a drain takes the drained records, if there are any.
LEMMA DoneRefines ==
  ASSUME IInv, NEW f \in Flusher, FlushDone(f)
  PROVE  [OL!Next]_OL!vars
<1> DEFINE D == Draining
           n == Len(D)
<1>0. TypeOK /\ LockHeld
  BY DEF IInv
<1>1. /\ inflightView = <<>> /\ inflightView' = D /\ Draining' = <<>>
      /\ channel' = channel /\ retired' = retired
  BY <1>0, DoneLog DEF inflightView, FlushDone
<1>2. D \in Seq(DirtyRecord) /\ channel \in Seq(DirtyRecord)
  BY <1>0, LogParts
<1>3. pendingView = D \o channel /\ pendingView' = channel
  BY <1>1, <1>2, ConcatEmptySeq DEF pendingView
<1> HIDE DEF D
<1>4. CASE D = <<>>
  BY <1>1, <1>2, <1>3, <1>4, ConcatEmptySeq DEF OL!vars
<1>5. CASE D # <<>>
  <2>1. SubSeq(pendingView, 1, n) = D
        /\ SubSeq(pendingView, n + 1, Len(pendingView)) = channel
    BY <1>2, <1>3, SplitConcat
  <2>2. n \in 1 .. Len(pendingView)
    <3>1. n \in Nat \ {0} /\ Len(channel) \in Nat
      BY <1>2, <1>5, EmptySeq
    <3>2. Len(pendingView) = n + Len(channel)
      BY <1>2, <1>3, ConcatProperties
    <3> QED
      BY <3>1, <3>2
  <2>3. OL!Take(n)
    BY <1>1, <1>3, <2>1, <2>2 DEF OL!Take
  <2> QED
    BY <2>2, <2>3 DEF OL!Next
<1> QED
  BY <1>4, <1>5

\* A mark retires the batch in flight.
LEMMA MarkRefines ==
  ASSUME IInv, NEW f \in Flusher, MarkFlushed(f)
  PROVE  OL!Next
<1>0. TypeOK /\ LockHeld
  BY DEF IInv
<1>1. /\ inflightView = inflight.batch /\ inflightView # <<>> /\ inflightView' = <<>>
      /\ Draining' = Draining /\ channel' = channel
      /\ retired' = retired \o inflight.batch
  BY <1>0, MarkLog DEF inflightView, MarkFlushed
<1> QED
  BY <1>1 DEF OL!Retire, OL!Next, pendingView

\* Every step is a step of OrderedLog, or changes nothing there.
LEMMA StepRefines ==
  ASSUME IInv, IInv', [Next]_vars
  PROVE  [OL!Next]_OL!vars
<1>0. TypeOK /\ LockHeld
  BY DEF IInv
<1>1. ASSUME UNCHANGED <<retired, inflight, channel>>, Draining' = Draining
      PROVE  UNCHANGED OL!vars
  BY <1>1 DEF OL!vars, pendingView, inflightView
<1>2. ASSUME UNCHANGED <<retired, inflight, channel, lock, flusher>>
      PROVE  UNCHANGED OL!vars
  BY <1>1, <1>2 DEF Draining
<1>3. ASSUME NEW w \in Writer, TakeId(w) \/ CountSent(w) PROVE UNCHANGED OL!vars
  BY <1>2, <1>3 DEF TakeId, CountSent
<1>4. ASSUME NEW w \in Writer, Send(w) PROVE OL!Next
  BY <1>4, SendRefines
<1>5. ASSUME NEW f \in Flusher, FlushAgain(f) PROVE UNCHANGED OL!vars
  BY <1>1, <1>5 DEF FlushAgain, Draining
<1>6. ASSUME NEW f \in Flusher, NEW limit \in Limit, FlushStart(f, limit)
      PROVE  UNCHANGED OL!vars
  BY <1>0, <1>1, <1>6, StartLog DEF FlushStart
<1>7. ASSUME NEW f \in Flusher, FlushPop(f) PROVE UNCHANGED OL!vars
  BY <1>7, PopRefines
<1>8. ASSUME NEW f \in Flusher, FlushUncount(f) PROVE UNCHANGED OL!vars
  <2>1. flusher'[f].entries = flusher[f].entries
    BY <1>0, <1>8 DEF FlushUncount, TypeOK
  <2>2. lock = {f} /\ lock' = {f}
    BY <1>0, <1>8 DEF FlushUncount, LockHeld
  <2>3. (CHOOSE g \in lock : TRUE) = f /\ (CHOOSE g \in lock' : TRUE) = f
    BY <2>2
  <2>4. Draining' = Draining
    BY <2>1, <2>2, <2>3 DEF Draining
  <2> QED
    BY <1>1, <1>8, <2>4 DEF FlushUncount
<1>9. ASSUME NEW f \in Flusher, FlushDone(f) PROVE [OL!Next]_OL!vars
  BY <1>9, DoneRefines
<1>10. ASSUME NEW f \in Flusher, MarkFlushed(f) PROVE OL!Next
  BY <1>10, MarkRefines
<1>11. CASE \E o \in Observer : LenInflight(o) \/ LenLoad(o)
  BY <1>2, <1>11 DEF LenInflight, LenLoad
<1>12. CASE UNCHANGED vars
  BY <1>2, <1>12 DEF vars
<1> QED
  BY <1>3, <1>4, <1>5, <1>6, <1>7, <1>8, <1>9, <1>10, <1>11, <1>12
     DEF Next, AppendStep, DrainStep

\* The lock-free log, with its three-step appends and its record-by-record
\* drain, is a FIFO log with atomic appends, batches and retirements, for any
\* number of threads.
THEOREM Refinement == Spec => ImplementsOrderedLog
<1>1. IInv /\ IInv' /\ [Next]_vars => [OL!Next]_OL!vars
  BY StepRefines
<1> QED
  BY <1>1, InitRefines, Invariance, PTL DEF Spec, ImplementsOrderedLog, OL!Spec
=============================================================================
