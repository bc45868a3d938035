---- MODULE MCDecisionRoute ----
(***************************************************************************)
(* Instances of DecisionRoute for TLC.                                     *)
(***************************************************************************)
EXTENDS DecisionRoute

OneOrTwo == {<<"a">>, <<"a", "b">>}
AllModes == {"off", "shadow"}
\* An odd number of tokens does not divide among two symbols.
OddTokens == {3}

\* A confirmed rise, and one against the higher intervals.
Chart(up, high) ==
  [complete |-> TRUE, volume |-> TRUE, levels |-> TRUE, extension |-> 0, momentum |-> <<up, up>>,
   signs |-> [i \in DOMAIN Weight |-> IF i \in {"1h", "4h"} THEN high ELSE up]]
FewReadings == {Chart(1, 1), Chart(1, -1)}
FewAdvices  == {[direction |-> d, hints |-> TRUE, confident |-> TRUE] : d \in {-1, 1}}
FewChoices  == {"OPEN_LONG", "CLOSE"}
====
