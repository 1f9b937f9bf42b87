----------------------------- MODULE OncePerWindow -----------------------------
(***************************************************************************)
(* What a deduplicator promises: a key is accepted unless it was accepted  *)
(* less than Window ago, and then it is not.  Acceptances of one key are   *)
(* therefore at least Window apart, and no key is turned away otherwise.   *)
(***************************************************************************)
EXTENDS Integers

CONSTANTS Keys, Window

VARIABLES
  now,       \* the time
  accepted,  \* accepted[k]: when k was last accepted, for the keys that were
  verdict    \* the last answer: "accept", "duplicate", or "none" so far

vars == <<now, accepted, verdict>>

Recent(k) == k \in DOMAIN accepted /\ now < accepted[k] + Window

Init ==
  /\ now = 0
  /\ accepted = [k \in {} |-> 0]
  /\ verdict = "none"

Accept(k) ==
  /\ ~Recent(k)
  /\ accepted' = [j \in DOMAIN accepted \cup {k} |->
                    IF j = k THEN now ELSE accepted[j]]
  /\ verdict' = "accept"
  /\ UNCHANGED now

Refuse(k) ==
  /\ Recent(k)
  /\ verdict' = "duplicate"
  /\ UNCHANGED <<now, accepted>>

Pass ==
  /\ now' > now
  /\ UNCHANGED <<accepted, verdict>>

Next == (\E k \in Keys : Accept(k) \/ Refuse(k)) \/ Pass

Spec == Init /\ [][Next]_vars

=============================================================================
