---------------------------- MODULE Conversation ----------------------------
(***************************************************************************)
(* What a session promises its readers, with no database, webhook or       *)
(* handler in sight.  A conversation is minted, may be talked in, and is   *)
(* over once its room has finished.  Nothing ever takes it back to an      *)
(* earlier phase, and the end it reports lies between the moment the room  *)
(* finished and now.                                                       *)
(***************************************************************************)
EXTENDS Integers

CONSTANTS Sessions, Never

VARIABLES
  phase,     \* [Sessions -> "absent", "minted", "talking" or "over"]
  finished,  \* [Sessions -> when LiveKit first finished the room, or Never]
  endedAt,   \* [Sessions -> the reported end, or Never]
  now

vars == <<phase, finished, endedAt, now>>

Init ==
  /\ phase = [s \in Sessions |-> "absent"]
  /\ finished = [s \in Sessions |-> Never]
  /\ endedAt = [s \in Sessions |-> Never]
  /\ now = 0

Mint(s) ==
  /\ phase[s] = "absent"
  /\ phase' = [phase EXCEPT ![s] = "minted"]
  /\ UNCHANGED <<finished, endedAt, now>>

Talk(s) ==
  /\ phase[s] = "minted"
  /\ phase' = [phase EXCEPT ![s] = "talking"]
  /\ UNCHANGED <<finished, endedAt, now>>

RoomFinishes(s) ==
  /\ phase[s] # "absent"
  /\ finished[s] = Never
  /\ finished' = [finished EXCEPT ![s] = now]
  /\ UNCHANGED <<phase, endedAt, now>>

\* A conversation that is over may have its end re-stamped, never erased.
Close(s) ==
  /\ phase[s] # "absent"
  /\ finished[s] # Never
  /\ \E t \in finished[s]..now : endedAt' = [endedAt EXCEPT ![s] = t]
  /\ phase' = [phase EXCEPT ![s] = "over"]
  /\ UNCHANGED <<finished, now>>

Tick ==
  /\ now' = now + 1
  /\ UNCHANGED <<phase, finished, endedAt>>

Next ==
  \/ \E s \in Sessions : Mint(s) \/ Talk(s) \/ RoomFinishes(s) \/ Close(s)
  \/ Tick

Spec == Init /\ [][Next]_vars
=============================================================================
