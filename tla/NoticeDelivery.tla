----------------------------- MODULE NoticeDelivery -----------------------------
(***************************************************************************)
(* What the event channel and the loop behind it promise: a notice that    *)
(* was taken is handled to its end, or turned away because it was handled, *)
(* and nothing but the death of the process comes in between.  How often a *)
(* notice is taken, and in which order, is left open.                      *)
(***************************************************************************)
EXTENDS Integers

CONSTANTS
  Notices,  \* the notices there are
  None      \* no notice

VARIABLES
  sent,     \* the notices somebody has sent
  taken,    \* the notices taken for handling and not yet turned to
  current,  \* the notice being handled
  handled,  \* the notices handled to the end
  deaths    \* how often the process has died

vars == <<sent, taken, current, handled, deaths>>

Init ==
  /\ sent = {}
  /\ taken = {}
  /\ current = None
  /\ handled = {}
  /\ deaths = 0

Send(n) ==
  /\ sent' = sent \cup {n}
  /\ UNCHANGED <<taken, current, handled, deaths>>

\* Nothing is taken that was not sent.
Take(n) ==
  /\ n \in sent
  /\ taken' = taken \cup {n}
  /\ UNCHANGED <<sent, current, handled, deaths>>

\* One taking of n is over; it may have been taken more than once.
TurnTo(n) ==
  /\ n \in taken
  /\ taken' \in {taken, taken \ {n}}

\* Notices are handled one at a time.
Begin(n) ==
  /\ current = None
  /\ TurnTo(n)
  /\ current' = n
  /\ UNCHANGED <<sent, handled, deaths>>

\* Only what was handled is turned away.
TurnAway(n) ==
  /\ n \in handled
  /\ TurnTo(n)
  /\ UNCHANGED <<sent, current, handled, deaths>>

End ==
  /\ current # None
  /\ handled' = handled \cup {current}
  /\ current' = None
  /\ UNCHANGED <<sent, taken, deaths>>

\* The one way to lose a notice that was taken.
Die ==
  /\ taken' = {}
  /\ current' = None
  /\ deaths' = deaths + 1
  /\ UNCHANGED <<sent, handled>>

Next ==
  \/ \E n \in Notices : Send(n) \/ Take(n) \/ Begin(n) \/ TurnAway(n)
  \/ End
  \/ Die

Spec == Init /\ [][Next]_vars

=============================================================================
