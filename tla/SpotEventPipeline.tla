--------------------------- MODULE SpotEventPipeline ---------------------------
(***************************************************************************)
(* The way of a spot interruption notice from the SQS queue to the event   *)
(* loop:                                                                   *)
(*                                                                         *)
(*   - the watcher goroutine receives a batch of messages, deletes them,   *)
(*     and sends an event for each to a bounded channel without blocking   *)
(*     (eventbridge/client.go, watcher/eventbridge_watcher.go);            *)
(*   - the event loop takes events off the channel, asks the deduplicator  *)
(*     and handles those it lets through (orchestrator.go).                *)
(*                                                                         *)
(* The queue delivers a message again when it was received and not         *)
(* deleted.  A notice stands for its message and for its deduplication     *)
(* key: the key is made of the instance, the node and the time in the      *)
(* notice, so every delivery of a message has the same one.  Messages that *)
(* are no spot warnings, and notices for nodes that run none of the pods,  *)
(* end without an event and are left out.                                  *)
(***************************************************************************)
EXTENDS Integers, Sequences, FiniteSets

CONSTANTS
  Notices,     \* the notices EventBridge may send
  None,        \* no notice
  Capacity,    \* capacity of the event channel
  BatchSize,   \* MaxNumberOfMessages
  TTL,         \* SpotEventDedupTTL
  Failures,    \* what may fail: "delete", "entry", "lookup"
  MaxTime,     \* bound on the clock
  MaxCrashes   \* bound on the deaths of the process

ASSUME NoneAssumption == None \notin Notices
ASSUME CapacityAssumption == Capacity \in Nat \ {0}
ASSUME BatchAssumption == BatchSize \in Nat \ {0}
ASSUME DedupTTLAssumption == TTL \in Nat \ {0}
ASSUME BoundsAssumption == MaxTime \in Nat /\ MaxCrashes \in Nat
ASSUME PipelineFailureAssumption == Failures \subseteq {"delete", "entry", "lookup"}

VARIABLES
  queue,      \* queue[n]: where the message of n is in SQS
  phase,      \* where the watcher is in a poll
  batch,      \* the events of this poll not yet sent to the channel
  channel,    \* the event channel
  current,    \* the notice the event loop is handling
  now, entries, verdict, accepted,  \* the deduplicator
  handled,    \* history: the notices handled to the end
  crashes     \* history: how often the process has died

dedup == <<now, entries, verdict, accepted>>
vars  == <<queue, phase, batch, channel, current, dedup, handled, crashes>>

Dedup == INSTANCE EventDeduper WITH Keys <- Notices

Queued == {channel[i] : i \in DOMAIN channel}

InMemory == batch \cup Queued \cup ({current} \ {None})

Gone == {n \in Notices : queue[n] = "gone"}

TypeOK ==
  /\ queue \in [Notices -> {"unsent", "visible", "inflight", "gone"}]
  /\ phase \in {"receive", "delete", "send"}
  /\ batch \subseteq Notices
  /\ channel \in Seq(Notices)
  /\ Len(channel) <= Capacity
  /\ current \in Notices \cup {None}
  /\ Dedup!TypeOK
  /\ handled \subseteq Notices
  /\ crashes \in 0 .. MaxCrashes

Init ==
  /\ queue = [n \in Notices |-> "unsent"]
  /\ phase = "receive"
  /\ batch = {}
  /\ channel = <<>>
  /\ current = None
  /\ Dedup!Init
  /\ handled = {}
  /\ crashes = 0

-----------------------------------------------------------------------------
(* The queue. *)

Send(n) ==
  /\ queue[n] = "unsent"
  /\ queue' = [queue EXCEPT ![n] = "visible"]
  /\ UNCHANGED <<phase, batch, channel, current, dedup, handled, crashes>>

\* The visibility timeout of a message that was received and not deleted.
Reappear(n) ==
  /\ queue[n] = "inflight"
  /\ queue' = [queue EXCEPT ![n] = "visible"]
  /\ UNCHANGED <<phase, batch, channel, current, dedup, handled, crashes>>

-----------------------------------------------------------------------------
(* The watcher: PollForSpotInterruptions, then processSpotInterruptionEvent. *)

\* ReceiveMessage; a poll that brings nothing is over.
Receive(B) ==
  /\ phase = "receive"
  /\ \A n \in B : queue[n] = "visible"
  /\ Cardinality(B) <= BatchSize
  /\ queue' = [n \in Notices |-> IF n \in B THEN "inflight" ELSE queue[n]]
  /\ batch' = B
  /\ phase' = IF B = {} THEN "receive" ELSE "delete"
  /\ UNCHANGED <<channel, current, dedup, handled, crashes>>

Deleted(D) == [n \in Notices |-> IF n \in D THEN "gone" ELSE queue[n]]

\* DeleteMessageBatch returns no error.  An entry that failed is reported in a
\* result nobody looks at.
DeleteOk(D) ==
  /\ phase = "delete"
  /\ D \subseteq batch
  /\ D = batch \/ "entry" \in Failures
  /\ queue' = Deleted(D)
  /\ phase' = "send"
  /\ UNCHANGED <<batch, channel, current, dedup, handled, crashes>>

\* It returns an error, and the queue may have deleted entries all the same.
\* The poll returns its events with the error, and the watcher looks at the
\* error only.
DeleteError ==
  /\ phase = "delete"
  /\ "delete" \in Failures
  /\ \E D \in SUBSET batch : queue' = Deleted(D)
  /\ batch' = {}
  /\ phase' = "receive"
  /\ UNCHANGED <<channel, current, dedup, handled, crashes>>

\* The event of n has been sent or given up; the last one ends the poll.
Done(n) ==
  /\ phase = "send"
  /\ n \in batch
  /\ batch' = batch \ {n}
  /\ phase' = IF batch = {n} THEN "receive" ELSE "send"

\* Mutant: nothing bounds the channel.
DeliverUnbounded(n) ==
  /\ Done(n)
  /\ channel' = Append(channel, n)
  /\ UNCHANGED <<queue, current, dedup, handled, crashes>>

\* Mutant: a full channel makes room for the newest event.
DeliverDroppingOldest(n) ==
  /\ Done(n)
  /\ channel' = Append(IF Len(channel) < Capacity THEN channel ELSE Tail(channel), n)
  /\ UNCHANGED <<queue, current, dedup, handled, crashes>>

Deliver(n) ==
  /\ Done(n)
  /\ Len(channel) < Capacity
  /\ channel' = Append(channel, n)
  /\ UNCHANGED <<queue, current, dedup, handled, crashes>>

\* The node of the instance, or the running pods on it that belong to a managed
\* Deployment: the look-up fails, or finds none any more, as when they are gone by
\* the time the notice is processed.
LookupFails == "lookup" \in Failures

\* Mutant: the watcher asks the deduplicator before it sends.
DropMarked(n) ==
  /\ Done(n)
  /\ Len(channel) >= Capacity
  /\ Dedup!Mark(n)
  /\ UNCHANGED <<queue, channel, current, handled, crashes>>

\* The full channel and the failed look-up alike leave the message deleted.
Drop(n) ==
  /\ Done(n)
  /\ Len(channel) >= Capacity \/ LookupFails
  /\ UNCHANGED <<queue, channel, current, dedup, handled, crashes>>

-----------------------------------------------------------------------------
(* The event loop: handleSpotInterruption. *)

\* A duplicate is skipped.
Skip ==
  /\ current = None
  /\ channel # <<>>
  /\ Dedup!Duplicate(Head(channel))
  /\ channel' = Tail(channel)
  /\ UNCHANGED <<queue, phase, batch, current, handled, crashes>>

\* Mutant: the answer of the deduplicator is ignored.
HandleAnyway ==
  /\ current = None
  /\ channel # <<>>
  /\ Dedup!CheckAndMark(Head(channel))
  /\ current' = Head(channel)
  /\ channel' = Tail(channel)
  /\ UNCHANGED <<queue, phase, batch, handled, crashes>>

Handle ==
  /\ current = None
  /\ channel # <<>>
  /\ Dedup!Mark(Head(channel))
  /\ current' = Head(channel)
  /\ channel' = Tail(channel)
  /\ UNCHANGED <<queue, phase, batch, handled, crashes>>

\* Mutant: the handler waits for a rollout when there is nothing left to do.
FinishOnce ==
  /\ current # None
  /\ current \notin handled
  /\ handled' = handled \cup {current}
  /\ current' = None
  /\ UNCHANGED <<queue, phase, batch, channel, dedup, crashes>>

\* The migration is over, well or badly: in both cases nobody comes back to it.
Finish ==
  /\ current # None
  /\ handled' = handled \cup {current}
  /\ current' = None
  /\ UNCHANGED <<queue, phase, batch, channel, dedup, crashes>>

-----------------------------------------------------------------------------

Elapse ==
  /\ Dedup!Elapse
  /\ UNCHANGED <<queue, phase, batch, channel, current, handled, crashes>>

\* Nothing but the queue survives the process.
Crash ==
  /\ crashes < MaxCrashes
  /\ crashes' = crashes + 1
  /\ phase' = "receive"
  /\ batch' = {}
  /\ channel' = <<>>
  /\ current' = None
  /\ entries' = [k \in {} |-> 0]
  /\ accepted' = [k \in {} |-> 0]
  /\ verdict' = "none"
  /\ UNCHANGED <<queue, now, handled>>

Watcher ==
  \/ \E B \in SUBSET Notices : Receive(B) \/ DeleteOk(B)
  \/ DeleteError
  \/ \E n \in Notices : Deliver(n) \/ Drop(n)

EventLoop == Skip \/ Handle \/ Finish

Next ==
  \/ \E n \in Notices : Send(n) \/ Reappear(n)
  \/ Watcher
  \/ EventLoop
  \/ Elapse
  \/ Crash

Spec == Init /\ [][Next]_vars

\* The goroutines keep running, and the handler of the event loop returns (see
\* HandlerReturns of ComputeMigration).  SQS makes messages visible again, does
\* not pass one over for ever, and does not fail to delete it for ever.
Fairness ==
  /\ WF_vars(Watcher)
  /\ WF_vars(EventLoop)
  /\ \A n \in Notices :
       /\ WF_vars(Reappear(n))
       /\ SF_vars(\E B \in SUBSET Notices : n \in B /\ Receive(B))
       /\ SF_vars(\E D \in SUBSET Notices : n \in D /\ DeleteOk(D))

FairSpec == Spec /\ Fairness

-----------------------------------------------------------------------------

\* Deleted from the queue, and neither in memory nor handled.
Vanished == Gone \ (InMemory \cup handled)

\* A duplicate the deduplicator has the event loop skip was handled, or is being
\* handled: marking comes before handling, so nothing may come in between.  What
\* was handled stays so over a crash; the marks do not.
MarkedIsHandled == DOMAIN entries \subseteq handled \cup {current}

Delivery == INSTANCE NoticeDelivery
  WITH sent <- {n \in Notices : queue[n] # "unsent"}, taken <- Queued,
       deaths <- crashes

\* From the channel on the pipeline implements NoticeDelivery: an event in the
\* channel is handled, or skipped because its notice was handled, and only a crash
\* loses it.  Losses are confined to the poll that delivers it.
DeliversNotices == Delivery!Spec

\* Two deliveries of a notice are not both handled within the TTL, unless the
\* process died in between, whatever the queue, the watcher and the channel do.
HandledOncePerTTL ==
  [][\A n \in Notices :
       current # n /\ current' = n =>
         n \notin DOMAIN accepted \/ now >= accepted[n] + TTL]_vars

\* Every notice is handled as long as none has vanished: partial deletes, failed
\* polls, redelivery and crashes only delay it.
EveryNoticeHandled ==
  [](Vanished = {}) => \A n \in Notices : queue[n] = "visible" ~> n \in handled

=============================================================================
