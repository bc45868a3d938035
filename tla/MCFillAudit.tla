---- MODULE MCFillAudit ----
(***************************************************************************)
(* FillAudit with an earlier position and one that is played.              *)
(***************************************************************************)
EXTENDS FillAudit
====
