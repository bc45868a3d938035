---- MODULE MCProtectedEntry ----
(***************************************************************************)
(* Instances of ProtectedEntry for TLC.                                    *)
(***************************************************************************)
EXTENDS ProtectedEntry

\* The exchange executes a MARKET order in full or not at all.
AllOrNothing == {0, Qty}
AnyFill == 0..Qty

\* Fault sets: what the code handles, and what each finding adds to it.
HandledRejects == Endpoints \ {"query"}
HandledApplied == {"submit", "cancel", "rescue"}
====
