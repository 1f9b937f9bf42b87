------------------------ MODULE SpotEventPipeline_proofs ------------------------
(***************************************************************************)
(* For every set of notices, capacity, batch size, TTL and choice of       *)
(* failures: the deduplicator inside the pipeline stays the exact memory   *)
(* of the last TTL, crashes included, and the event loop handles what it   *)
(* lets through.                                                           *)
(***************************************************************************)
EXTENDS SpotEventPipeline, SequenceTheorems, TLAPS

\* The theorems about the deduplicator, for its copy in the pipeline.
DedupProofs == INSTANCE EventDeduper_proofs WITH Keys <- Notices

\* The inductive invariant.
Inv == TypeOK /\ Dedup!Inv /\ MarkedIsHandled

-----------------------------------------------------------------------------


(* The deduplicator. *)

\* The two copies of it are one.
LEMMA SameDedup ==
  /\ Dedup!Inv <=> DedupProofs!Inv
  /\ \A n : Dedup!Mark(n) <=> DedupProofs!Mark(n)
  /\ \A n : Dedup!Duplicate(n) <=> DedupProofs!Duplicate(n)
  /\ Dedup!Elapse <=> DedupProofs!Elapse
  /\ Dedup!Live = DedupProofs!Live
<1>1. Dedup!Live = DedupProofs!Live
  BY DEF Dedup!Live, DedupProofs!Live
<1>2. \A f, n, v : Dedup!With(f, n, v) = DedupProofs!With(f, n, v)
  BY DEF Dedup!With, DedupProofs!With
<1>3. Dedup!Inv <=> DedupProofs!Inv
  BY DEF Dedup!Inv, Dedup!TypeOK, Dedup!MemoryExact,
         DedupProofs!Inv, DedupProofs!TypeOK, DedupProofs!MemoryExact
<1>4. \A n : Dedup!Duplicate(n) <=> DedupProofs!Duplicate(n)
  BY <1>1 DEF Dedup!Duplicate, DedupProofs!Duplicate
<1>5. \A n : Dedup!Mark(n) <=> DedupProofs!Mark(n)
  BY <1>1, <1>2 DEF Dedup!Mark, DedupProofs!Mark
<1>6. Dedup!Elapse <=> DedupProofs!Elapse
  BY DEF Dedup!Elapse, DedupProofs!Elapse
<1> QED
  BY <1>1, <1>3, <1>4, <1>5, <1>6

\* Before its first call, and after the process was started again, the map is
\* empty and the memory exact.
LEMMA EmptyMemory ==
  ASSUME now \in Nat, entries = [k \in {} |-> 0], accepted = [k \in {} |-> 0],
         verdict = "none"
  PROVE  Dedup!Inv
BY DEF Dedup!Inv, Dedup!TypeOK, Dedup!MemoryExact

\* Its own steps keep its invariant.
LEMMA DedupSteps ==
  ASSUME Dedup!Inv,
         (\E n \in Notices : Dedup!Mark(n) \/ Dedup!Duplicate(n)) \/ Dedup!Elapse
  PROVE  Dedup!Inv'
<1>1. DedupProofs!Inv
  BY SameDedup
<1>2. ASSUME NEW n \in Notices, Dedup!Mark(n) PROVE DedupProofs!Inv'
  <2>1. DedupProofs!Mark(n)
    BY <1>2, SameDedup
  <2> QED
    BY <1>1, <2>1, DedupProofs!MarkKeepsInv, DedupTTLAssumption, BoundsAssumption
<1>3. ASSUME NEW n \in Notices, Dedup!Duplicate(n) PROVE DedupProofs!Inv'
  <2>1. DedupProofs!Duplicate(n)
    BY <1>3, SameDedup
  <2> QED
    BY <1>1, <2>1, DedupProofs!DuplicateKeepsInv, DedupTTLAssumption, BoundsAssumption
<1>4. ASSUME Dedup!Elapse PROVE DedupProofs!Inv'
  <2>1. [DedupProofs!Next]_(DedupProofs!vars)
    BY <1>4, SameDedup DEF DedupProofs!Next
  <2> QED
    BY <1>1, <2>1, DedupProofs!InvStep, DedupTTLAssumption, BoundsAssumption
<1>5. DedupProofs!Inv'
  BY <1>2, <1>3, <1>4
<1> QED
  BY <1>5, SameDedup, PTL

LEMMA DedupStutter ==
  ASSUME Dedup!Inv, UNCHANGED dedup
  PROVE  Dedup!Inv'
BY DEF dedup, Dedup!Inv, Dedup!TypeOK, Dedup!MemoryExact

\* What is marked afterwards was marked before and not expired, or is new.
LEMMA MarkedAfter ==
  ASSUME NEW n
  PROVE  /\ Dedup!Duplicate(n) => DOMAIN entries' \subseteq DOMAIN entries
         /\ Dedup!Mark(n) => DOMAIN entries' \subseteq DOMAIN entries \cup {n}
<1>1. Dedup!Live \subseteq DOMAIN entries
  BY DEF Dedup!Live
<1> QED
  BY <1>1 DEF Dedup!Duplicate, Dedup!Mark, Dedup!With

-----------------------------------------------------------------------------
(* The pipeline. *)

LEMMA InitInv == Init => Inv
<1> SUFFICES ASSUME Init PROVE Inv
  OBVIOUS
<1>1. Dedup!Inv
  BY EmptyMemory DEF Init, Dedup!Init
<1>2. TypeOK
  BY <1>1, BoundsAssumption, CapacityAssumption DEF Init, TypeOK, Dedup!Inv
<1>3. MarkedIsHandled
  BY DEF Init, Dedup!Init, MarkedIsHandled
<1> QED
  BY <1>1, <1>2, <1>3 DEF Inv

\* The queue and the watcher leave deduplicator and event loop alone.
LEMMA QueueKeeps ==
  ASSUME Inv, UNCHANGED <<dedup, current, handled, crashes>>,
         queue' \in [Notices -> {"unsent", "visible", "inflight", "gone"}],
         phase' \in {"receive", "delete", "send"},
         batch' \subseteq Notices,
         channel' \in Seq(Notices), Len(channel') <= Capacity
  PROVE  Inv'
<1>1. Dedup!Inv'
  BY DedupStutter DEF Inv
<1>2. TypeOK'
  BY <1>1 DEF Inv, TypeOK, Dedup!Inv
<1>3. MarkedIsHandled'
  BY DEF Inv, MarkedIsHandled, dedup
<1> QED
  BY <1>1, <1>2, <1>3 DEF Inv

\* What the invariant says of the queue's and the watcher's state.
LEMMA InvTypes ==
  ASSUME Inv
  PROVE  /\ queue \in [Notices -> {"unsent", "visible", "inflight", "gone"}]
         /\ phase \in {"receive", "delete", "send"} /\ batch \subseteq Notices
         /\ channel \in Seq(Notices) /\ Len(channel) <= Capacity
         /\ current \in Notices \cup {None} /\ handled \subseteq Notices
         /\ crashes \in 0 .. MaxCrashes /\ now \in Nat
BY DEF Inv, TypeOK, Dedup!TypeOK

LEMMA QueueInv ==
  ASSUME Inv, NEW n \in Notices, Send(n) \/ Reappear(n)
  PROVE  Inv'
BY InvTypes, QueueKeeps DEF Send, Reappear

LEMMA WatcherInv == Inv /\ Watcher => Inv'
<1> SUFFICES ASSUME Inv, Watcher PROVE Inv'
  OBVIOUS
<1>1. ASSUME NEW B \in SUBSET Notices, Receive(B) PROVE Inv'
  BY <1>1, InvTypes, QueueKeeps DEF Receive
<1>2. \A D : Deleted(D) \in [Notices -> {"unsent", "visible", "inflight", "gone"}]
  BY InvTypes DEF Deleted
<1>3. ASSUME NEW D \in SUBSET Notices, DeleteOk(D) PROVE Inv'
  BY <1>2, <1>3, InvTypes, QueueKeeps DEF DeleteOk
<1>4. ASSUME DeleteError PROVE Inv'
  BY <1>2, <1>4, InvTypes, QueueKeeps DEF DeleteError
<1>5. ASSUME NEW n \in Notices, Deliver(n) PROVE Inv'
  <2>1. channel' \in Seq(Notices) /\ Len(channel') <= Capacity
    BY <1>5, InvTypes, CapacityAssumption DEF Deliver
  <2> QED
    BY <1>5, <2>1, InvTypes, QueueKeeps DEF Deliver, Done
<1>6. ASSUME NEW n \in Notices, Drop(n) PROVE Inv'
  BY <1>6, InvTypes, QueueKeeps DEF Drop, Done
<1> QED
  BY <1>1, <1>3, <1>4, <1>5, <1>6 DEF Watcher

\* The event at the head of the channel is a notice.
LEMMA HeadTyped ==
  ASSUME Inv, channel # <<>>
  PROVE  /\ Head(channel) \in Notices
         /\ Tail(channel) \in Seq(Notices) /\ Len(Tail(channel)) <= Capacity
BY InvTypes, CapacityAssumption

LEMMA SkipInv == Inv /\ Skip => Inv'
<1> SUFFICES ASSUME Inv, Skip PROVE Inv'
  OBVIOUS
<1> DEFINE n == Head(channel)
<1>1. n \in Notices /\ Dedup!Duplicate(n) /\ channel' = Tail(channel)
      /\ UNCHANGED <<queue, phase, batch, current, handled, crashes>>
  BY HeadTyped DEF Skip
<1>2. Tail(channel) \in Seq(Notices) /\ Len(Tail(channel)) <= Capacity
  BY HeadTyped DEF Skip
<1> HIDE DEF n
<1>3. Dedup!Inv'
  BY <1>1, DedupSteps DEF Inv
<1>4. TypeOK'
  BY <1>1, <1>2, <1>3, InvTypes DEF TypeOK, Dedup!Inv
<1>5. MarkedIsHandled'
  BY <1>1, MarkedAfter DEF Inv, MarkedIsHandled
<1> QED
  BY <1>3, <1>4, <1>5 DEF Inv

\* Handle marks the notice it begins to handle.
LEMMA HandleInv == Inv /\ Handle => Inv'
<1> SUFFICES ASSUME Inv, Handle PROVE Inv'
  OBVIOUS
<1> DEFINE n == Head(channel)
<1>1. n \in Notices /\ Dedup!Mark(n) /\ channel' = Tail(channel)
      /\ current = None /\ current' = n
      /\ UNCHANGED <<queue, phase, batch, handled, crashes>>
  BY HeadTyped DEF Handle
<1>2. Tail(channel) \in Seq(Notices) /\ Len(Tail(channel)) <= Capacity
  BY HeadTyped DEF Handle
<1> HIDE DEF n
<1>3. Dedup!Inv'
  BY <1>1, DedupSteps DEF Inv
<1>4. TypeOK'
  BY <1>1, <1>2, <1>3, InvTypes DEF TypeOK, Dedup!Inv
<1>5. None \notin DOMAIN entries
  BY NoneAssumption DEF Inv, TypeOK, Dedup!TypeOK
<1>6. MarkedIsHandled'
  BY <1>1, <1>5, MarkedAfter DEF Inv, MarkedIsHandled
<1> QED
  BY <1>3, <1>4, <1>6 DEF Inv

LEMMA FinishInv == Inv /\ Finish => Inv'
<1> SUFFICES ASSUME Inv, Finish PROVE Inv'
  OBVIOUS
<1>1. Dedup!Inv'
  BY DedupStutter DEF Inv, Finish
<1>2. TypeOK'
  BY <1>1, InvTypes DEF TypeOK, Finish, Dedup!Inv
<1>3. MarkedIsHandled'
  BY DEF Inv, MarkedIsHandled, Finish, dedup
<1> QED
  BY <1>1, <1>2, <1>3 DEF Inv

LEMMA ElapseInv == Inv /\ Elapse => Inv'
<1> SUFFICES ASSUME Inv, Elapse PROVE Inv'
  OBVIOUS
<1>1. Dedup!Elapse /\ UNCHANGED <<queue, phase, batch, channel, current, handled, crashes>>
  BY DEF Elapse
<1>2. Dedup!Inv'
  BY <1>1, DedupSteps DEF Inv
<1>3. TypeOK'
  BY <1>1, <1>2, InvTypes DEF TypeOK, Dedup!Inv
<1>4. MarkedIsHandled'
  BY <1>1 DEF Inv, MarkedIsHandled, Dedup!Elapse
<1> QED
  BY <1>2, <1>3, <1>4 DEF Inv

LEMMA CrashInv == Inv /\ Crash => Inv'
<1> SUFFICES ASSUME Inv, Crash PROVE Inv'
  OBVIOUS
<1>1. Dedup!Inv'
  BY InvTypes DEF Crash, Dedup!Inv, Dedup!TypeOK, Dedup!MemoryExact
<1>2. TypeOK'
  BY <1>1, InvTypes, CapacityAssumption, BoundsAssumption DEF TypeOK, Crash, Dedup!Inv
<1>3. MarkedIsHandled'
  BY DEF MarkedIsHandled, Crash
<1> QED
  BY <1>1, <1>2, <1>3 DEF Inv

LEMMA StepInv == Inv /\ [Next]_vars => Inv'
<1> SUFFICES ASSUME Inv, [Next]_vars PROVE Inv'
  OBVIOUS
<1>1. CASE UNCHANGED vars
  BY <1>1, InvTypes, QueueKeeps DEF vars
<1>2. ASSUME Next PROVE Inv'
  BY <1>2, QueueInv, WatcherInv, SkipInv, HandleInv, FinishInv, ElapseInv, CrashInv
     DEF Next, EventLoop
<1> QED
  BY <1>1, <1>2

LEMMA AlwaysInv == Spec => []Inv
BY InitInv, StepInv, PTL DEF Spec

-----------------------------------------------------------------------------
(* The results. *)

\* Every reachable state has its type; the channel never holds more than its
\* capacity.
THEOREM PipelineTyped == Spec => []TypeOK
<1>1. Inv => TypeOK
  BY DEF Inv
<1> QED
  BY <1>1, AlwaysInv, PTL

\* What the event loop would skip as a duplicate was handled, or is being handled.
THEOREM NothingSkippedUnhandled == Spec => []MarkedIsHandled
<1>1. Inv => MarkedIsHandled
  BY DEF Inv
<1> QED
  BY <1>1, AlwaysInv, PTL

\* No notice is handled twice within the TTL by one process, however often the
\* queue delivers it.
THEOREM HandlesOncePerTTL == Spec => HandledOncePerTTL
<1> DEFINE P == \A n \in Notices :
       current # n /\ current' = n =>
         n \notin DOMAIN accepted \/ now >= accepted[n] + TTL
<1>1. Inv /\ [Next]_vars => P
  <2> SUFFICES ASSUME Inv, [Next]_vars, NEW n \in Notices, current # n, current' = n
               PROVE  n \notin DOMAIN accepted \/ now >= accepted[n] + TTL
    OBVIOUS
  <2>1. n # None
    BY NoneAssumption
  <2>2. CASE Handle
    <3>1. Dedup!Mark(n)
      BY <2>2 DEF Handle
    <3>2. n \notin Dedup!Live
      BY <3>1 DEF Dedup!Mark
    <3>3. n \in DOMAIN accepted => accepted[n] \in Nat
      BY DEF Inv, TypeOK, Dedup!TypeOK
    <3> QED
      BY <3>2, <3>3, InvTypes, DedupTTLAssumption
         DEF Inv, Dedup!Inv, Dedup!MemoryExact, Dedup!Live
  <2>3. ASSUME Watcher PROVE FALSE
    BY <2>3 DEF Watcher, Receive, DeleteOk, DeleteError, Deliver, Drop
  <2>4. ASSUME NEW m \in Notices, Send(m) \/ Reappear(m) PROVE FALSE
    BY <2>4 DEF Send, Reappear
  <2>5. ASSUME Skip \/ Finish \/ Elapse \/ Crash \/ UNCHANGED vars PROVE FALSE
    BY <2>1, <2>5 DEF Skip, Finish, Elapse, Crash, vars
  <2> QED
    BY <2>2, <2>3, <2>4, <2>5 DEF Next, EventLoop
<1>2. Inv /\ [Next]_vars => [P]_vars
  BY <1>1
<1> QED
  BY <1>2, AlwaysInv, PTL DEF Spec, HandledOncePerTTL

-----------------------------------------------------------------------------
(* The refinement of NoticeDelivery. *)

Sent == {n \in Notices : queue[n] # "unsent"}

\* A poll holds events of messages the queue has received.
BatchSent == batch \subseteq Sent

\* A message that was sent stays so, whatever the queue makes of it.
LEMMA SentStays ==
  ASSUME Inv, [Next]_vars
  PROVE  \A n \in Sent : n \in Sent'
<1> SUFFICES ASSUME NEW n \in Notices, queue[n] # "unsent"
             PROVE  queue'[n] # "unsent"
  BY DEF Sent
<1>1. queue \in [Notices -> {"unsent", "visible", "inflight", "gone"}]
  BY InvTypes
<1>2. ASSUME NEW m \in Notices, Send(m) \/ Reappear(m) PROVE queue'[n] # "unsent"
  BY <1>1, <1>2 DEF Send, Reappear
<1>3. ASSUME NEW B \in SUBSET Notices, Receive(B) PROVE queue'[n] # "unsent"
  BY <1>3 DEF Receive
<1>4. \A D : Deleted(D)[n] # "unsent"
  BY DEF Deleted
<1>5. ASSUME NEW B \in SUBSET Notices, DeleteOk(B) PROVE queue'[n] # "unsent"
  BY <1>4, <1>5 DEF DeleteOk
<1>6. ASSUME DeleteError PROVE queue'[n] # "unsent"
  BY <1>4, <1>6 DEF DeleteError
<1>7. ASSUME NEW m \in Notices, Deliver(m) \/ Drop(m) PROVE queue'[n] # "unsent"
  BY <1>7 DEF Deliver, Drop
<1>8. ASSUME EventLoop \/ Elapse \/ Crash \/ UNCHANGED vars PROVE queue'[n] # "unsent"
  BY <1>8 DEF EventLoop, Skip, Handle, Finish, Elapse, Crash, vars
<1> QED
  BY <1>2, <1>3, <1>5, <1>6, <1>7, <1>8 DEF Next, Watcher

LEMMA BatchSentStep ==
  ASSUME Inv, BatchSent, [Next]_vars
  PROVE  BatchSent'
<1>1. CASE batch' \subseteq batch
  BY <1>1, SentStays DEF BatchSent
<1>2. ASSUME NEW B \in SUBSET Notices, Receive(B) PROVE BatchSent'
  BY <1>2 DEF Receive, BatchSent, Sent
<1>3. ASSUME ~(\E B \in SUBSET Notices : Receive(B)) PROVE batch' \subseteq batch
  <2>1. ASSUME NEW m \in Notices, Send(m) \/ Reappear(m) \/ Deliver(m) \/ Drop(m)
        PROVE  batch' \subseteq batch
    BY <2>1 DEF Send, Reappear, Deliver, Drop, Done
  <2>2. ASSUME NEW B \in SUBSET Notices, DeleteOk(B) PROVE batch' \subseteq batch
    BY <2>2 DEF DeleteOk
  <2>3. ASSUME DeleteError \/ EventLoop \/ Elapse \/ Crash \/ UNCHANGED vars
        PROVE  batch' \subseteq batch
    BY <2>3 DEF DeleteError, EventLoop, Skip, Handle, Finish, Elapse, Crash, vars
  <2> QED
    BY <1>3, <2>1, <2>2, <2>3 DEF Next, Watcher
<1> QED
  BY <1>1, <1>2, <1>3

\* What an event added to the channel, and one taken off it, do to the set of the
\* notices in it: another event of the same notice may stay behind.
LEMMA QueuedAfterAppend ==
  ASSUME Inv, NEW n \in Notices, channel' = Append(channel, n)
  PROVE  Queued' = Queued \cup {n}
<1>1. channel \in Seq(Notices)
  BY InvTypes
<1>2. /\ Len(channel') = Len(channel) + 1 /\ Len(channel) \in Nat
      /\ DOMAIN channel = 1 .. Len(channel) /\ DOMAIN channel' = 1 .. Len(channel')
      /\ \A i \in 1 .. Len(channel) : channel'[i] = channel[i]
      /\ channel'[Len(channel) + 1] = n
  BY <1>1, AppendProperties
<1>3. DOMAIN channel' = DOMAIN channel \cup {Len(channel) + 1}
  BY <1>2
<1> QED
  BY <1>2, <1>3 DEF Queued

LEMMA QueuedAfterTail ==
  ASSUME Inv, channel # <<>>, channel' = Tail(channel)
  PROVE  /\ Head(channel) \in Queued
         /\ Queued' \in {Queued, Queued \ {Head(channel)}}
<1>1. channel \in Seq(Notices)
  BY InvTypes
<1>2. /\ Len(channel') = Len(channel) - 1 /\ Len(channel) \in Nat \ {0}
      /\ DOMAIN channel = 1 .. Len(channel) /\ DOMAIN channel' = 1 .. Len(channel')
      /\ \A i \in 1 .. Len(channel') : channel'[i] = channel[i + 1]
      /\ Head(channel) = channel[1]
  BY <1>1, HeadTailProperties
<1>3. 1 \in DOMAIN channel
  BY <1>2
<1>4. Queued' \subseteq Queued
  <2>1. \A i \in DOMAIN channel' : i + 1 \in DOMAIN channel
    BY <1>2
  <2> QED
    BY <1>2, <2>1 DEF Queued
<1>5. Queued \subseteq Queued' \cup {channel[1]}
  <2>1. ASSUME NEW i \in DOMAIN channel, i # 1
        PROVE  i - 1 \in DOMAIN channel' /\ channel'[i - 1] = channel[i]
    <3>1. i - 1 \in 1 .. Len(channel') /\ (i - 1) + 1 = i
      BY <1>2, <2>1
    <3> QED
      BY <1>2, <3>1
  <2> QED
    BY <2>1 DEF Queued
<1>6. channel[1] \in Queued
  BY <1>3 DEF Queued
<1>7. Queued' = Queued \/ Queued' = Queued \ {channel[1]}
  BY <1>4, <1>5
<1> QED
  BY <1>2, <1>6, <1>7

LEMMA InitDelivers == Init => Delivery!Init
BY DEF Init, Delivery!Init, Queued

\* The queue and the watcher: a message is sent, or an event enters the channel.
LEMMA SendDelivers ==
  ASSUME Inv, NEW n \in Notices, Send(n)
  PROVE  Delivery!Send(n)
BY InvTypes DEF Send, Delivery!Send, Queued

LEMMA DeliverDelivers ==
  ASSUME Inv, BatchSent, NEW n \in Notices, Deliver(n)
  PROVE  Delivery!Take(n)
<1>1. Queued' = Queued \cup {n}
  BY QueuedAfterAppend DEF Deliver
<1>2. n \in Sent
  BY DEF Deliver, Done, BatchSent
<1> QED
  BY <1>1, <1>2 DEF Deliver, Delivery!Take, Sent

\* A step that leaves the channel and the event loop alone, and sends nothing, is
\* none of NoticeDelivery.
LEMMA OthersStutter ==
  ASSUME UNCHANGED <<channel, current, handled, crashes>>, Sent' = Sent
  PROVE  UNCHANGED Delivery!vars
BY DEF Delivery!vars, Queued, Sent

LEMMA WatcherStutters ==
  ASSUME Inv, BatchSent, [Next]_vars,
         \/ \E n \in Notices : Reappear(n) \/ Drop(n)
         \/ \E B \in SUBSET Notices : Receive(B) \/ DeleteOk(B)
         \/ DeleteError \/ Elapse \/ UNCHANGED vars
  PROVE  UNCHANGED Delivery!vars
<1>1. Sent \subseteq Sent'
  BY SentStays
<1>2. queue \in [Notices -> {"unsent", "visible", "inflight", "gone"}]
  BY InvTypes
<1>3. Sent' \subseteq Sent /\ UNCHANGED <<channel, current, handled, crashes>>
  <2>1. ASSUME NEW n \in Notices, Reappear(n)
        PROVE  Sent' \subseteq Sent /\ UNCHANGED <<channel, current, handled, crashes>>
    BY <1>2, <2>1 DEF Reappear, Sent
  <2>2. ASSUME NEW B \in SUBSET Notices, Receive(B)
        PROVE  Sent' \subseteq Sent /\ UNCHANGED <<channel, current, handled, crashes>>
    BY <2>2 DEF Receive, Sent
  <2>3. ASSUME NEW D \in SUBSET batch, queue' = Deleted(D) PROVE Sent' \subseteq Sent
    BY <2>3 DEF Deleted, Sent, BatchSent
  <2>4. ASSUME NEW B \in SUBSET Notices, DeleteOk(B)
        PROVE  Sent' \subseteq Sent /\ UNCHANGED <<channel, current, handled, crashes>>
    BY <2>3, <2>4 DEF DeleteOk
  <2>5. ASSUME DeleteError
        PROVE  Sent' \subseteq Sent /\ UNCHANGED <<channel, current, handled, crashes>>
    BY <2>3, <2>5 DEF DeleteError
  <2>6. ASSUME (\E n \in Notices : Drop(n)) \/ Elapse \/ UNCHANGED vars
        PROVE  Sent' \subseteq Sent /\ UNCHANGED <<channel, current, handled, crashes>>
    BY <2>6 DEF Drop, Elapse, vars, Sent
  <2> QED
    BY <2>1, <2>2, <2>4, <2>5, <2>6
<1> QED
  BY <1>1, <1>3, OthersStutter

\* The event loop turns a notice away only when it was handled: the deduplicator
\* remembers no other, and the loop is not handling it now.
LEMMA SkipDelivers ==
  ASSUME Inv, Skip
  PROVE  \E n \in Notices : Delivery!TurnAway(n)
<1> DEFINE n == Head(channel)
<1>1. n \in Notices /\ n # None
  BY HeadTyped, NoneAssumption DEF Skip
<1>2. n \in Queued /\ Queued' \in {Queued, Queued \ {n}}
  BY QueuedAfterTail DEF Skip
<1>3. n \in handled
  <2>1. n \in DOMAIN entries
    BY DEF Skip, Dedup!Duplicate, Dedup!Live
  <2>2. current = None
    BY DEF Skip
  <2> QED
    BY <1>1, <2>1, <2>2 DEF Inv, MarkedIsHandled
<1>4. UNCHANGED <<queue, current, handled, crashes>>
  BY DEF Skip
<1> HIDE DEF n
<1> QED
  BY <1>1, <1>2, <1>3, <1>4 DEF Delivery!TurnAway, Delivery!TurnTo

LEMMA HandleDelivers ==
  ASSUME Inv, Handle
  PROVE  \E n \in Notices : Delivery!Begin(n)
<1> DEFINE n == Head(channel)
<1>1. n \in Notices
  BY HeadTyped DEF Handle
<1>2. n \in Queued /\ Queued' \in {Queued, Queued \ {n}}
  BY QueuedAfterTail DEF Handle
<1>3. current = None /\ current' = n /\ UNCHANGED <<queue, handled, crashes>>
  BY DEF Handle
<1> HIDE DEF n
<1> QED
  BY <1>1, <1>2, <1>3 DEF Delivery!Begin, Delivery!TurnTo

LEMMA FinishDelivers == Finish => Delivery!End
BY DEF Finish, Delivery!End, Queued

LEMMA CrashDelivers == Crash => Delivery!Die
BY DEF Crash, Delivery!Die, Queued

LEMMA StepDelivers ==
  Inv /\ BatchSent /\ [Next]_vars => [Delivery!Next]_(Delivery!vars)
<1> SUFFICES ASSUME Inv, BatchSent, [Next]_vars
             PROVE  Delivery!Next \/ UNCHANGED Delivery!vars
  OBVIOUS
<1>1. ASSUME NEW n \in Notices, Send(n) \/ Deliver(n) PROVE Delivery!Next
  BY <1>1, SendDelivers, DeliverDelivers DEF Delivery!Next
<1>2. ASSUME EventLoop \/ Crash PROVE Delivery!Next
  BY <1>2, SkipDelivers, HandleDelivers, FinishDelivers, CrashDelivers
     DEF EventLoop, Delivery!Next
<1>3. ASSUME ~EventLoop, ~Crash, ~(\E n \in Notices : Send(n) \/ Deliver(n))
      PROVE  UNCHANGED Delivery!vars
  <2>1. \/ \E n \in Notices : Reappear(n) \/ Drop(n)
        \/ \E B \in SUBSET Notices : Receive(B) \/ DeleteOk(B)
        \/ DeleteError \/ Elapse \/ UNCHANGED vars
    BY <1>3 DEF Next, Watcher
  <2> QED
    BY <2>1, WatcherStutters
<1> QED
  BY <1>1, <1>2, <1>3

\* From the channel on no notice is lost: what processSpotInterruptionEvent has put
\* into it is handled, or skipped because its notice was handled, and only the
\* death of the process takes it away, for every capacity and choice of failures.
THEOREM ImplementsDelivery == Spec => DeliversNotices
<1>1. Init => BatchSent
  BY DEF Init, BatchSent
<1>2. Inv /\ BatchSent /\ [Next]_vars => BatchSent'
  BY BatchSentStep
<1> QED
  BY <1>1, <1>2, InitDelivers, StepDelivers, AlwaysInv, PTL
     DEF Spec, DeliversNotices, Delivery!Spec

=============================================================================
