------------------------------- MODULE Lifecycle -------------------------------
(***************************************************************************)
(* From the start of the process to its end (main.go, Orchestrator.Start,  *)
(* EventBridgeSpotWatcher.Start, the two recovery managers and the cache): *)
(* the goroutines main, event loop, watcher and recovery manager, the      *)
(* event channel, the two stop channels, and the panics of closing or      *)
(* sending on a closed channel.  What a handler, a poll or a recovery does *)
(* is the subject of the other modules: here it takes its time and returns,*)
(* or, as far as the handler is concerned, does not.                       *)
(*                                                                         *)
(* A definition whose comment begins with "Mutant" is a plausible mistake  *)
(* in the definition below it; no specification uses it.                   *)
(***************************************************************************)
EXTENDS Naturals

CONSTANTS
  Managers,     \* the recovery managers the configuration may ask for
  Recovery,     \* the values of config.RecoveryEnabled
  Capacity,     \* of the event channel
  MaxWatchers   \* bound on the goroutines that run the watcher

ASSUME ConfigAssumption ==
  Managers \subseteq {"regular", "optimized", "cached"} /\ Recovery \subseteq BOOLEAN
ASSUME BoundAssumption == Capacity \in Nat /\ MaxWatchers \in Nat \ {0}

Watchers == 1 .. MaxWatchers

VARIABLES
  config,     \* manager and RecoveryEnabled, fixed by Init
  cancelled,  \* the context of main, and with it all others, is done
  main,       \* what main waits for
  exit,       \* how the process has ended
  loop,       \* the event loop
  open,       \* the event channel is not closed
  queued,     \* the number of events in it
  watcher,    \* watcher[w]: the w-th goroutine that runs EventBridgeSpotWatcher.Start
  recovery,   \* the recovery manager
  stopped,    \* its stop channel is closed
  refreshing  \* the cache refreshes itself: its stop channel is not closed

channel == <<open, queued>>
manager == <<recovery, stopped, refreshing>>
vars == <<config, cancelled, main, exit, loop, channel, watcher, manager>>

TypeOK ==
  /\ config \in [manager : Managers, recovery : Recovery]
  /\ cancelled \in BOOLEAN
  /\ main \in {"start", "grace"}
  /\ exit \in {"none", "stopped", "timeout", "panic"}
  /\ loop \in {"select", "handle", "stopCache", "over"}
  /\ open \in BOOLEAN
  /\ queued \in 0 .. Capacity
  /\ watcher \in [Watchers -> {"none", "top", "poll", "send", "pause", "over"}]
  /\ recovery \in {"select", "attempt", "over"}
  /\ stopped \in BOOLEAN
  /\ refreshing \in BOOLEAN

\* A recovery manager that is disabled returns at once.
Init ==
  /\ config \in [manager : Managers, recovery : Recovery]
  /\ cancelled = FALSE
  /\ main = "start"
  /\ exit = "none"
  /\ loop = "select"
  /\ open = TRUE
  /\ queued = 0
  /\ watcher = [w \in Watchers |-> IF w = 1 THEN "top" ELSE "none"]
  /\ recovery = IF config.recovery THEN "select" ELSE "over"
  /\ stopped = FALSE
  /\ refreshing = (config.manager = "cached")

-----------------------------------------------------------------------------

Running == exit = "none"

Panic == exit' = "panic"

WatcherGoto(w, l) == watcher' = [watcher EXCEPT ![w] = l]

\* close() of the cache's stop channel, which panics when it is closed already.
CloseCache ==
  IF refreshing THEN refreshing' = FALSE /\ UNCHANGED exit
                ELSE Panic /\ UNCHANGED refreshing

-----------------------------------------------------------------------------
(* main *)

\* SIGTERM or SIGINT.
Signal ==
  /\ Running
  /\ ~cancelled
  /\ cancelled' = TRUE
  /\ UNCHANGED <<config, main, exit, loop, channel, watcher, manager>>

MainHears ==
  /\ Running
  /\ main = "start"
  /\ cancelled
  /\ main' = "grace"
  /\ UNCHANGED <<config, cancelled, exit, loop, channel, watcher, manager>>

\* The return of main ends every goroutine.
MainReturns ==
  /\ Running
  /\ loop = "over"
  /\ exit' = "stopped"
  /\ UNCHANGED <<config, cancelled, main, loop, channel, watcher, manager>>

\* Mutant: main waits for the event loop, however long it takes.
GraceWithLoop ==
  /\ Running
  /\ main = "grace"
  /\ loop = "over"
  /\ exit' = "timeout"
  /\ UNCHANGED <<config, cancelled, main, loop, channel, watcher, manager>>

\* Ten seconds have passed.
GraceOver ==
  /\ Running
  /\ main = "grace"
  /\ exit' = "timeout"
  /\ UNCHANGED <<config, cancelled, main, loop, channel, watcher, manager>>

-----------------------------------------------------------------------------
(* Orchestrator.Start: the select of the event loop takes any case that is ready. *)

TakeEvent ==
  /\ Running
  /\ loop = "select"
  /\ queued > 0
  /\ queued' = queued - 1
  /\ loop' = "handle"
  /\ UNCHANGED <<config, cancelled, main, exit, open, watcher, manager>>

\* An error of the handler is logged and kept in State.
HandlerReturns ==
  /\ Running
  /\ loop = "handle"
  /\ loop' = "select"
  /\ UNCHANGED <<config, cancelled, main, exit, channel, watcher, manager>>

\* A closed channel is ready for ever, and each time starts the watcher anew; the
\* channel is not made anew.
RestartWatcher(w) ==
  /\ Running
  /\ loop = "select"
  /\ ~open
  /\ queued = 0
  /\ watcher[w] = "none"
  /\ WatcherGoto(w, "top")
  /\ UNCHANGED <<config, cancelled, main, exit, loop, channel, manager>>

\* recoveryManager.Stop(), which for the optimised one stops the cache as well.
StopRecovery ==
  /\ Running
  /\ loop = "select"
  /\ cancelled
  /\ stopped' = TRUE
  /\ loop' = IF config.manager = "cached" THEN "stopCache" ELSE "over"
  /\ UNCHANGED <<config, cancelled, main, exit, channel, watcher, recovery, refreshing>>

StopCache ==
  /\ Running
  /\ loop = "stopCache"
  /\ CloseCache
  /\ loop' = "over"
  /\ UNCHANGED <<config, cancelled, main, channel, watcher, recovery, stopped>>

-----------------------------------------------------------------------------
(* EventBridgeSpotWatcher.Start *)

\* Its context is done: it closes the channel, which panics the second time.
WatcherStops(w) ==
  /\ Running
  /\ watcher[w] = "top"
  /\ cancelled
  /\ IF open THEN open' = FALSE /\ UNCHANGED exit ELSE Panic /\ UNCHANGED open
  /\ WatcherGoto(w, "over")
  /\ UNCHANGED <<config, cancelled, main, loop, queued, manager>>

\* Mutant: a restarted watcher has a context of its own, which is not done.
WatcherPollsOnItsOwn(w) ==
  /\ Running
  /\ watcher[w] = "top"
  /\ cancelled => w # 1
  /\ WatcherGoto(w, "poll")
  /\ UNCHANGED <<config, cancelled, main, exit, loop, channel, manager>>

WatcherPolls(w) ==
  /\ Running
  /\ watcher[w] = "top"
  /\ ~cancelled
  /\ WatcherGoto(w, "poll")
  /\ UNCHANGED <<config, cancelled, main, exit, loop, channel, manager>>

\* With events, with none, or with an error.
PollReturns(w) ==
  /\ Running
  /\ watcher[w] = "poll"
  /\ \E l \in {"send", "top", "pause"} : WatcherGoto(w, l)
  /\ UNCHANGED <<config, cancelled, main, exit, loop, channel, manager>>

\* Mutant: the channel takes one event more.
SendEventBeyond(w) ==
  /\ Running
  /\ watcher[w] = "send"
  /\ IF ~open THEN Panic /\ UNCHANGED queued
     ELSE /\ queued' = IF queued <= Capacity THEN queued + 1 ELSE queued
          /\ UNCHANGED exit
  /\ \E l \in {"send", "top"} : WatcherGoto(w, l)
  /\ UNCHANGED <<config, cancelled, main, loop, open, manager>>

\* The send does not block: a full channel drops the event, a closed one panics.
SendEvent(w) ==
  /\ Running
  /\ watcher[w] = "send"
  /\ IF ~open THEN Panic /\ UNCHANGED queued
     ELSE /\ queued' = IF queued < Capacity THEN queued + 1 ELSE queued
          /\ UNCHANGED exit
  /\ \E l \in {"send", "top"} : WatcherGoto(w, l)
  /\ UNCHANGED <<config, cancelled, main, loop, open, manager>>

\* Mutant: a poll that fails ends the watcher, as any other error of Start would.
PauseGivesUp(w) ==
  /\ Running
  /\ watcher[w] = "pause"
  /\ \E l \in {"over", "top"} : WatcherGoto(w, l)
  /\ UNCHANGED <<config, cancelled, main, exit, loop, channel, manager>>

\* Five seconds after an error it polls again; if its context is done first it
\* returns without closing the channel.
PauseEnds(w) ==
  /\ Running
  /\ watcher[w] = "pause"
  /\ \E l \in {"top"} \cup {k \in {"over"} : cancelled} : WatcherGoto(w, l)
  /\ UNCHANGED <<config, cancelled, main, exit, loop, channel, manager>>

-----------------------------------------------------------------------------
(* The recovery manager. *)

RecoveryTick ==
  /\ Running
  /\ recovery = "select"
  /\ recovery' = "attempt"
  /\ UNCHANGED <<config, cancelled, main, exit, loop, channel, watcher, stopped, refreshing>>

AttemptReturns ==
  /\ Running
  /\ recovery = "attempt"
  /\ recovery' = "select"
  /\ UNCHANGED <<config, cancelled, main, exit, loop, channel, watcher, stopped, refreshing>>

\* The optimised one stops its cache, and panics when it has none.
RecoveryStops ==
  /\ Running
  /\ recovery = "select"
  /\ cancelled \/ stopped
  /\ recovery' = "over"
  /\ CASE config.manager = "regular"   -> UNCHANGED <<exit, refreshing>>
       [] config.manager = "optimized" -> Panic /\ UNCHANGED refreshing
       [] config.manager = "cached"    -> CloseCache
  /\ UNCHANGED <<config, cancelled, main, loop, channel, watcher, stopped>>

-----------------------------------------------------------------------------

Main == MainHears \/ MainReturns \/ GraceOver

EventLoop ==
  \/ TakeEvent \/ HandlerReturns \/ StopRecovery \/ StopCache
  \/ \E w \in Watchers : RestartWatcher(w)

Watcher(w) ==
  WatcherStops(w) \/ WatcherPolls(w) \/ PollReturns(w) \/ SendEvent(w) \/ PauseEnds(w)

RecoveryManager == RecoveryTick \/ AttemptReturns \/ RecoveryStops

Next ==
  \/ Signal
  \/ Main
  \/ EventLoop
  \/ \E w \in Watchers : Watcher(w)
  \/ RecoveryManager

Spec == Init /\ [][Next]_vars

\* main runs and its timer goes off.  Nobody owes a signal, and no handler, poll or
\* recovery its return.
FairSpec == Spec /\ WF_vars(Main)

-----------------------------------------------------------------------------

\* Until the process is told to stop nothing ends: neither a poll that fails nor a
\* full channel nor an error of a handler costs a goroutine or the channel.
RunsUntilStopped ==
  ~cancelled =>
    /\ exit = "none" /\ main = "start"
    /\ loop \in {"select", "handle"}
    /\ open
    /\ watcher[1] \notin {"none", "over"}
    /\ \A w \in Watchers \ {1} : watcher[w] = "none"
    /\ config.recovery => recovery # "over"
    /\ ~stopped
    /\ refreshing = (config.manager = "cached")

\* Once the channel is closed no watcher polls, sends or pauses, the restarted ones
\* included: nothing is ever sent on the closed channel.
NoPollAfterClose ==
  ~open => \A w \in Watchers : watcher[w] \in {"none", "top", "over"}

\* A shutdown that panics has closed something twice: a watcher started again has
\* closed the event channel once more, or a recovery manager other than the regular
\* one has stopped a cache that is not there or that the event loop stops too.  No
\* panic is a send on a closed channel, and none of them comes of anything else.
PanicsOnlyByClosingTwice ==
  exit = "panic" =>
    \/ \E w \in Watchers \ {1} : watcher[w] = "over"
    \/ /\ config.recovery /\ recovery = "over"
       /\ \/ config.manager = "optimized"
          \/ config.manager = "cached" /\ loop = "over"

\* Restarted watchers exist only beside a closed channel.
RestartedAfterClose ==
  \A w \in Watchers \ {1} : watcher[w] # "none" => ~open

\* The inductive invariant.
Inv == TypeOK /\ RunsUntilStopped /\ NoPollAfterClose /\ RestartedAfterClose

\* The process ends once it is told to, though the event loop may be in a handler
\* that never returns.
StopEnds == cancelled ~> exit # "none"

-----------------------------------------------------------------------------
(* What the documentation says, and the code does not do. *)

\* main.go: "initiating graceful shutdown".  It can be a panic.
ShutsDownGracefully == exit # "panic"

=============================================================================
