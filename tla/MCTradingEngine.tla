---- MODULE MCTradingEngine ----
(***************************************************************************)
(* Instances of TradingEngine for TLC.                                     *)
(***************************************************************************)
EXTENDS TradingEngine, TLC

AllRequests == {"start", "stop", "kill", "clear"}
StartsAndStops == AllRequests \ {"clear"}
AllKinds == {"hold", "market", "limit"}
Immediate == {"hold", "market"}

\* Results of execute_with_stop that need no emergency.
SafeResults == {"SUCCEEDED", "FAILED", "RESCUED"}
AllResults == SafeResults \cup {"UNSAFE"}

\* Symbols and callers are interchangeable; sound for the runs without liveness.
Symmetry == Permutations(Symbols) \cup Permutations(Clients)
====
