------------------------------ MODULE SessionMC ------------------------------
(* Session on small instances.  Sessions, webhook handlers and requests are *)
(* interchangeable: nothing orders them or tells one from another.          *)
EXTENDS Session, TLC

Symmetry ==
  Permutations(Sessions) \cup Permutations(Slots) \cup Permutations(Handlers)

\* dropped and closedAt record the past: no guard reads them, and no invariant
\* of the budget beyond their types.
BudgetView ==
  <<profiles, sessions, admitted, writing, room, outbox, now, late, grace>>
=============================================================================
