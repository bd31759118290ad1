------------------------------- MODULE Upload -------------------------------
(***************************************************************************)
(* What the asset module promises of an upload: one decision.  An intent   *)
(* ends as committed, rejected or reaped, none of which is ever left; a    *)
(* committed upload shows one content that was fit to be shown, and goes   *)
(* on showing it; nothing else shows anything.                             *)
(***************************************************************************)
CONSTANTS
  Assets,
  Contents,
  Fit(_)     \* the contents that may be shown

VARIABLES
  phase,     \* [Assets -> "unminted", "pending", "committed", "rejected" or "reaped"]
  shown      \* [Assets -> {} or {the content the asset's URL answers with}]

vars == <<phase, shown>>

Init ==
  /\ phase = [a \in Assets |-> "unminted"]
  /\ shown = [a \in Assets |-> {}]

Intend(a) ==
  /\ phase[a] = "unminted"
  /\ phase' = [phase EXCEPT ![a] = "pending"]
  /\ UNCHANGED shown

Commit(a) ==
  /\ phase[a] = "pending"
  /\ phase' = [phase EXCEPT ![a] = "committed"]
  /\ \E c \in Contents : Fit(c) /\ shown' = [shown EXCEPT ![a] = {c}]

Withdraw(a) ==
  /\ phase[a] = "pending"
  /\ \E end \in {"rejected", "reaped"} : phase' = [phase EXCEPT ![a] = end]
  /\ UNCHANGED shown

Next == \E a \in Assets : Intend(a) \/ Commit(a) \/ Withdraw(a)

Spec == Init /\ [][Next]_vars
=============================================================================
