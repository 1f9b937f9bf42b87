--------------------------- MODULE MCRecoveryRounds ---------------------------
(* RecoveryRounds as TLC checks it: one Deployment with every annotation and a *)
(* neighbour, under the configurations that differ in what a round does.       *)
EXTENDS RecoveryRounds, TLC

CONSTANTS a, b

Plain == [mode |-> "namespace", caching |-> "off", limiter |-> "off", batch |-> "off"]

\* Without the cache every annotation of a, with it those that differ in effect.
MCSettings ==
  LET optedIn == [optIn |-> "true", enabled |-> "none", service |-> TRUE]
      enabled == [optIn |-> "none", enabled |-> "true", service |-> TRUE]
      neither == [optIn |-> "none", enabled |-> "none", service |-> TRUE]
      every == {[optIn |-> o, enabled |-> e, service |-> s] :
                  o \in {"true", "yes", "none"}, e \in {"true", "1", "false", "none"},
                  s \in BOOLEAN}
      uncached == {Plain} \cup
        {[Plain EXCEPT !.mode = "single"], [Plain EXCEPT !.mode = "cluster"],
         [Plain EXCEPT !.batch = "on"], [Plain EXCEPT !.batch = "empty"],
         [Plain EXCEPT !.limiter = "on"], [Plain EXCEPT !.limiter = "empty"],
         [Plain EXCEPT !.mode = "single", !.batch = "on"]}
      cached == [Plain EXCEPT !.caching = "on"]
      Of(c, ofA, ofB) == [config |-> c, spec |-> (a :> ofA @@ b :> ofB)]
  IN {Of(c, s, optedIn) : c \in uncached, s \in every}
       \cup {Of(cached, s, enabled) : s \in {optedIn, neither}}

=============================================================================
