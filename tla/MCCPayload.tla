----------------------------- MODULE MCCPayload -----------------------------
(* CPayload for TLC: a program with two response variables. *)
EXTENDS CPayload

CONSTANTS r1, r2

MCSlot == {r1, r2}
=============================================================================
