---------------------------- MODULE Lifecycle_proofs ----------------------------
(***************************************************************************)
(* The invariant of Lifecycle is inductive, for every capacity of the      *)
(* channel and any number of restarted watchers; and what a panic can come *)
(* from.                                                                   *)
(***************************************************************************)
EXTENDS Lifecycle, TLAPS

USE DEF Running

LEMMA InitInv ==
  ASSUME Init
  PROVE  Inv
<1>1. TypeOK
  <2>1. queued \in 0 .. Capacity
    BY BoundAssumption DEF Init
  <2>2. recovery \in {"select", "attempt", "over"}
    BY DEF Init
  <2>3. QED
    BY <2>1, <2>2 DEF Init, TypeOK
<1>2. RunsUntilStopped
  BY BoundAssumption DEF Init, RunsUntilStopped, Watchers
<1>3. NoPollAfterClose /\ RestartedAfterClose
  BY DEF Init, NoPollAfterClose, RestartedAfterClose, Watchers
<1>4. QED
  BY <1>1, <1>2, <1>3 DEF Inv

-----------------------------------------------------------------------------

\* Steps that leave the watchers and their channel alone keep the invariant if they
\* keep the types and what holds until the signal.
LEMMA ElsewhereInv ==
  ASSUME Inv, TypeOK', RunsUntilStopped', UNCHANGED <<open, watcher>>
  PROVE  Inv'
BY DEF Inv, NoPollAfterClose, RestartedAfterClose

LEMMA MainInv ==
  ASSUME Inv, Signal \/ Main
  PROVE  Inv'
<1>1. TypeOK'
  BY DEF Inv, TypeOK, Signal, Main, MainHears, MainReturns, GraceOver,
         channel, manager
<1>2. RunsUntilStopped'
  <2>1. CASE Signal
    BY <2>1 DEF Signal, RunsUntilStopped
  <2>2. CASE Main
    <3>1. cancelled
      BY <2>2 DEF Inv, RunsUntilStopped, TypeOK, Main, MainHears, MainReturns,
                  GraceOver
    <3>2. QED
      BY <2>2, <3>1 DEF RunsUntilStopped, Main, MainHears, MainReturns, GraceOver
  <2>3. QED
    BY <2>1, <2>2
<1>3. UNCHANGED <<open, watcher>>
  BY DEF Signal, Main, MainHears, MainReturns, GraceOver, channel
<1>4. QED
  BY <1>1, <1>2, <1>3, ElsewhereInv

LEMMA EventLoopInv ==
  ASSUME Inv, EventLoop
  PROVE  Inv'
<1> USE DEF channel, manager
<1>1. CASE TakeEvent
  <2>1. TypeOK'
    BY <1>1, BoundAssumption DEF Inv, TypeOK, TakeEvent
  <2>2. RunsUntilStopped'
    BY <1>1 DEF Inv, RunsUntilStopped, TakeEvent
  <2>3. QED
    BY <1>1, <2>1, <2>2, ElsewhereInv DEF TakeEvent
<1>2. CASE HandlerReturns
  <2>1. TypeOK' /\ RunsUntilStopped'
    BY <1>2 DEF Inv, TypeOK, RunsUntilStopped, HandlerReturns
  <2>2. QED
    BY <1>2, <2>1, ElsewhereInv DEF HandlerReturns
<1>3. CASE StopRecovery
  <2>1. TypeOK' /\ RunsUntilStopped'
    BY <1>3 DEF Inv, TypeOK, RunsUntilStopped, StopRecovery
  <2>2. QED
    BY <1>3, <2>1, ElsewhereInv DEF StopRecovery
<1>4. CASE StopCache
  <2>1. cancelled
    BY <1>4 DEF Inv, TypeOK, RunsUntilStopped, StopCache
  <2>2. TypeOK' /\ RunsUntilStopped'
    BY <1>4, <2>1 DEF Inv, TypeOK, RunsUntilStopped, StopCache, CloseCache, Panic
  <2>3. QED
    BY <1>4, <2>2, ElsewhereInv DEF StopCache
<1>5. ASSUME NEW w \in Watchers, RestartWatcher(w) PROVE Inv'
  <2>1. cancelled
    BY <1>5 DEF Inv, RunsUntilStopped, RestartWatcher
  <2>2. TypeOK'
    BY <1>5 DEF Inv, TypeOK, RestartWatcher, WatcherGoto
  <2>3. RunsUntilStopped'
    BY <1>5, <2>1 DEF RunsUntilStopped, RestartWatcher
  <2>4. NoPollAfterClose' /\ RestartedAfterClose'
    BY <1>5 DEF Inv, TypeOK, NoPollAfterClose, RestartedAfterClose, RestartWatcher,
                WatcherGoto
  <2>5. QED
    BY <2>2, <2>3, <2>4 DEF Inv
<1>6. QED
  BY <1>1, <1>2, <1>3, <1>4, <1>5 DEF EventLoop

LEMMA RecoveryInv ==
  ASSUME Inv, RecoveryManager
  PROVE  Inv'
<1> USE DEF channel
<1>1. CASE RecoveryTick
  <2>1. TypeOK' /\ RunsUntilStopped'
    BY <1>1 DEF Inv, TypeOK, RunsUntilStopped, RecoveryTick
  <2>2. QED
    BY <1>1, <2>1, ElsewhereInv DEF RecoveryTick
<1>2. CASE AttemptReturns
  <2>1. TypeOK' /\ RunsUntilStopped'
    BY <1>2 DEF Inv, TypeOK, RunsUntilStopped, AttemptReturns
  <2>2. QED
    BY <1>2, <2>1, ElsewhereInv DEF AttemptReturns
<1>3. CASE RecoveryStops
  <2>1. cancelled
    BY <1>3 DEF Inv, RunsUntilStopped, RecoveryStops, TypeOK
  <2>2. config.manager \in {"regular", "optimized", "cached"}
    BY ConfigAssumption DEF Inv, TypeOK
  <2>3. exit' \in {exit, "panic"} /\ refreshing' \in BOOLEAN
    BY <1>3, <2>2 DEF Inv, TypeOK, RecoveryStops, CloseCache, Panic
  <2>4. TypeOK'
    BY <1>3, <2>3 DEF Inv, TypeOK, RecoveryStops
  <2>5. RunsUntilStopped'
    BY <1>3, <2>1 DEF RunsUntilStopped, RecoveryStops
  <2>6. QED
    BY <1>3, <2>4, <2>5, ElsewhereInv DEF RecoveryStops
<1>4. QED
  BY <1>1, <1>2, <1>3 DEF RecoveryManager

-----------------------------------------------------------------------------

\* A watcher that takes a step is the first, or the channel is closed.
LEMMA FirstOrClosed ==
  ASSUME Inv, NEW w \in Watchers, watcher[w] # "none"
  PROVE  w = 1 \/ ~open
BY DEF Inv, RestartedAfterClose

LEMMA WatcherInv ==
  ASSUME Inv, NEW w \in Watchers, Watcher(w)
  PROVE  Inv'
<1> USE DEF channel, manager
<1>1. watcher \in [Watchers -> {"none", "top", "poll", "send", "pause", "over"}]
  BY DEF Inv, TypeOK
<1>2. watcher[w] # "none" /\ (~cancelled => w = 1)
  BY FirstOrClosed
     DEF Inv, RunsUntilStopped, Watcher, WatcherStops, WatcherPolls, PollReturns,
         SendEvent, PauseEnds
<1>3. CASE WatcherStops(w)
  <2>1. TypeOK'
    BY <1>3 DEF Inv, TypeOK, WatcherStops, WatcherGoto, Panic
  <2>2. RunsUntilStopped'
    BY <1>3 DEF RunsUntilStopped, WatcherStops
  <2>3. ~open'
    BY <1>3 DEF WatcherStops
  \* While the channel was open there was no watcher but w, the first.
  <2>4. NoPollAfterClose'
    <3>1. ASSUME NEW v \in Watchers, v # w
          PROVE  watcher[v] \in {"none", "top", "over"}
      <4>1. CASE open
        BY <1>2, <3>1, <4>1, FirstOrClosed DEF Inv, RestartedAfterClose
      <4>2. CASE ~open
        BY <4>2 DEF Inv, NoPollAfterClose
      <4>3. QED
        BY <4>1, <4>2
    <3>2. QED
      BY <1>1, <1>3, <3>1 DEF NoPollAfterClose, WatcherStops, WatcherGoto
  <2>5. QED
    BY <2>1, <2>2, <2>3, <2>4 DEF Inv, RestartedAfterClose
<1>4. CASE WatcherPolls(w)
  <2>1. open /\ ~cancelled
    BY <1>4 DEF Inv, RunsUntilStopped, WatcherPolls
  <2>2. TypeOK'
    BY <1>4 DEF Inv, TypeOK, WatcherPolls, WatcherGoto
  <2>3. RunsUntilStopped'
    BY <1>1, <1>2, <1>4 DEF Inv, RunsUntilStopped, WatcherPolls, WatcherGoto
  <2>4. NoPollAfterClose' /\ RestartedAfterClose'
    BY <1>1, <1>2, <1>4, <2>1
       DEF Inv, NoPollAfterClose, RestartedAfterClose, WatcherPolls, WatcherGoto
  <2>5. QED
    BY <2>2, <2>3, <2>4 DEF Inv
<1>5. ASSUME watcher[w] \in {"poll", "send", "pause"},
             NEW l \in {"send", "top", "pause", "over"},
             WatcherGoto(w, l), l = "over" => cancelled,
             UNCHANGED <<config, cancelled, main, loop, open, manager>>,
             UNCHANGED exit, queued' \in 0 .. Capacity
      PROVE  Inv'
  <2>1. open
    BY <1>5 DEF Inv, NoPollAfterClose
  <2>2. TypeOK'
    BY <1>5 DEF Inv, TypeOK, WatcherGoto
  <2>3. RunsUntilStopped'
    BY <1>1, <1>2, <1>5 DEF Inv, RunsUntilStopped, WatcherGoto
  <2>4. NoPollAfterClose' /\ RestartedAfterClose'
    BY <1>1, <1>2, <1>5, <2>1, FirstOrClosed
       DEF Inv, NoPollAfterClose, RestartedAfterClose, WatcherGoto
  <2>5. QED
    BY <2>2, <2>3, <2>4 DEF Inv
<1>6. CASE PollReturns(w)
  BY <1>5, <1>6 DEF PollReturns, Inv, TypeOK
<1>7. CASE SendEvent(w)
  <2>1. open
    BY <1>7 DEF Inv, NoPollAfterClose, SendEvent
  <2>2. queued' \in 0 .. Capacity
    BY <1>7, <2>1, BoundAssumption DEF Inv, TypeOK, SendEvent
  <2>3. QED
    BY <1>5, <1>7, <2>1, <2>2 DEF SendEvent
<1>8. CASE PauseEnds(w)
  BY <1>5, <1>8 DEF PauseEnds, Inv, TypeOK
<1>9. QED
  BY <1>3, <1>4, <1>6, <1>7, <1>8 DEF Watcher

-----------------------------------------------------------------------------
(* Who has closed what. *)

ClosedByFirst == ~open => watcher[1] = "over"

\* The cache refreshes itself until the event loop or the recovery manager stops it.
CacheStoppedBy ==
  /\ config.manager = "cached" /\ ~refreshing =>
       loop = "over" \/ (config.recovery /\ recovery = "over")
  /\ loop = "stopCache" => config.manager = "cached"
  /\ ~config.recovery => recovery = "over"

Closers == ClosedByFirst /\ CacheStoppedBy /\ PanicsOnlyByClosingTwice

LEMMA InitClosers ==
  ASSUME Init
  PROVE  Closers
BY DEF Init, Closers, ClosedByFirst, CacheStoppedBy, PanicsOnlyByClosingTwice

\* A step that closes nothing and ends nothing but itself.
LEMMA NothingClosed ==
  ASSUME Inv, Closers, UNCHANGED <<config, open, refreshing>>, exit' # "panic",
         open \/ watcher'[1] = watcher[1],
         loop = "over" => loop' = "over", recovery = "over" => recovery' = "over",
         loop' = "stopCache" => config.manager = "cached"
  PROVE  Closers'
BY DEF Closers, ClosedByFirst, CacheStoppedBy, PanicsOnlyByClosingTwice

LEMMA WatcherClosers ==
  ASSUME Inv, Closers, NEW w \in Watchers, Watcher(w)
  PROVE  Closers'
<1> USE DEF channel, manager
<1>1. watcher \in [Watchers -> {"none", "top", "poll", "send", "pause", "over"}]
      /\ 1 \in Watchers
  BY BoundAssumption DEF Inv, TypeOK, Watchers
<1>2. CASE WatcherStops(w)
  <2>1. /\ watcher'[w] = "over" /\ ~open'
        /\ \A v \in Watchers \ {w} : watcher'[v] = watcher[v]
    BY <1>1, <1>2 DEF WatcherStops, WatcherGoto
  <2>2. open => w = 1
    BY <1>2, FirstOrClosed DEF WatcherStops
  <2>3. ClosedByFirst'
    BY <1>1, <2>1, <2>2 DEF Closers, ClosedByFirst
  <2>4. CacheStoppedBy'
    BY <1>2 DEF WatcherStops, Closers, CacheStoppedBy
  \* The first watcher is over when the channel is closed again.
  <2>5. exit' = "panic" => w # 1
    BY <1>2 DEF WatcherStops, Closers, ClosedByFirst, Running
  <2>6. PanicsOnlyByClosingTwice'
    BY <2>1, <2>5 DEF PanicsOnlyByClosingTwice
  <2> QED
    BY <2>3, <2>4, <2>6 DEF Closers
<1>3. ASSUME \/ WatcherPolls(w) \/ PollReturns(w) \/ SendEvent(w) \/ PauseEnds(w)
      PROVE  Closers'
  <2>1. open
    BY <1>3 DEF Inv, RunsUntilStopped, NoPollAfterClose, WatcherPolls, PollReturns,
                SendEvent, PauseEnds
  <2>2. UNCHANGED <<config, open, refreshing, loop, recovery, exit>> /\ exit = "none"
    BY <1>3, <2>1 DEF WatcherPolls, PollReturns, SendEvent, PauseEnds
  <2> QED
    BY <2>1, <2>2, NothingClosed DEF Closers, CacheStoppedBy
<1> QED
  BY <1>2, <1>3 DEF Watcher

LEMMA StopsClosers ==
  ASSUME Inv, Closers, StopCache \/ RecoveryStops
  PROVE  Closers'
<1> USE DEF channel, manager
<1>1. config.manager \in {"regular", "optimized", "cached"} /\ config.recovery \in BOOLEAN
  BY ConfigAssumption DEF Inv, TypeOK
<1>2. CASE StopCache
  BY <1>2 DEF StopCache, CloseCache, Panic, Closers, ClosedByFirst, CacheStoppedBy,
              PanicsOnlyByClosingTwice
<1>3. CASE RecoveryStops
  <2>1. config.recovery /\ recovery' = "over"
    BY <1>1, <1>3 DEF RecoveryStops, Closers, CacheStoppedBy
  <2>2. CASE config.manager = "regular"
    BY <1>3, <2>1, <2>2 DEF RecoveryStops, Closers, ClosedByFirst, CacheStoppedBy,
                            PanicsOnlyByClosingTwice
  <2>3. CASE config.manager = "optimized"
    BY <1>3, <2>1, <2>3 DEF RecoveryStops, Panic, Closers, ClosedByFirst, CacheStoppedBy,
                            PanicsOnlyByClosingTwice
  <2>4. CASE config.manager = "cached"
    BY <1>3, <2>1, <2>4 DEF RecoveryStops, CloseCache, Panic, Closers, ClosedByFirst,
                            CacheStoppedBy, PanicsOnlyByClosingTwice
  <2> QED
    BY <1>1, <2>2, <2>3, <2>4
<1> QED
  BY <1>2, <1>3

LEMMA ClosersStep == Inv /\ Closers /\ [Next]_vars => Closers'
<1> SUFFICES ASSUME Inv, Closers, [Next]_vars
             PROVE  Closers'
  OBVIOUS
<1> USE DEF channel, manager
<1>1. ASSUME NEW w \in Watchers, Watcher(w) PROVE Closers'
  BY <1>1, WatcherClosers
<1>2. CASE StopCache \/ RecoveryStops
  BY <1>2, StopsClosers
<1>3. CASE Signal \/ Main
  BY <1>3, NothingClosed
     DEF Signal, Main, MainHears, MainReturns, GraceOver, Closers, CacheStoppedBy
<1>4. CASE TakeEvent \/ HandlerReturns \/ StopRecovery
  BY <1>4, NothingClosed DEF TakeEvent, HandlerReturns, StopRecovery
<1>5. ASSUME NEW w \in Watchers, RestartWatcher(w) PROVE Closers'
  <2>1. w # 1
    BY <1>5 DEF RestartWatcher, Closers, ClosedByFirst
  <2>2. watcher'[1] = watcher[1]
    BY <1>5, <2>1, BoundAssumption DEF RestartWatcher, WatcherGoto, Inv, TypeOK, Watchers
  <2> QED
    BY <1>5, <2>2, NothingClosed DEF RestartWatcher
<1>6. CASE RecoveryTick \/ AttemptReturns
  BY <1>6, NothingClosed DEF RecoveryTick, AttemptReturns, Closers, CacheStoppedBy
<1>7. CASE UNCHANGED vars
  BY <1>7 DEF vars, Closers, ClosedByFirst, CacheStoppedBy, PanicsOnlyByClosingTwice
<1> QED
  BY <1>1, <1>2, <1>3, <1>4, <1>5, <1>6, <1>7 DEF Next, EventLoop, RecoveryManager

-----------------------------------------------------------------------------

LEMMA StepInv ==
  ASSUME Inv, [Next]_vars
  PROVE  Inv'
<1>1. CASE UNCHANGED vars
  BY <1>1 DEF vars, channel, manager, Inv, TypeOK, RunsUntilStopped,
              NoPollAfterClose, RestartedAfterClose
<1>2. CASE Next
  BY <1>2, MainInv, EventLoopInv, WatcherInv, RecoveryInv DEF Next
<1>3. QED
  BY <1>1, <1>2

\* Main, event loop, watchers and recovery manager keep the invariant whatever the
\* configuration, the capacity of the channel and the number of restarts.
THEOREM InvHolds == Spec => []Inv
BY InitInv, StepInv, PTL DEF Spec

\* Nothing but the signal ends a goroutine, closes the channel or kills the process.
THEOREM RunsOn == Spec => []RunsUntilStopped
<1>1. Inv => RunsUntilStopped
  BY DEF Inv
<1>2. QED
  BY <1>1, InvHolds, PTL

\* No event is ever sent on the closed channel, by any number of watchers.
THEOREM QuietAfterClose == Spec => []NoPollAfterClose
<1>1. Inv => NoPollAfterClose
  BY DEF Inv
<1>2. QED
  BY <1>1, InvHolds, PTL

\* Whatever panics a shutdown ends in, it is the second close of the event channel or
\* of the cache; with the regular manager only the first of these can happen.
THEOREM PanicsAreDoubleCloses == Spec => []PanicsOnlyByClosingTwice
<1>1. Init => Closers
  BY InitClosers
<1>2. Closers => PanicsOnlyByClosingTwice
  BY DEF Closers
<1> QED
  BY <1>1, <1>2, InvHolds, ClosersStep, PTL DEF Spec

=============================================================================
