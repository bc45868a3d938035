---------------------------- MODULE MCModelWork ----------------------------
(* A small instance of ModelWork: a backtest and a probe may overlap. *)
EXTENDS ModelWork
=============================================================================
