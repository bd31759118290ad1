------------------------------- MODULE Session -------------------------------
(***************************************************************************)
(* The session module: POST /session mints a LiveKit token and inserts a   *)
(* PENDING row; LiveKit's webhooks move the row to ACTIVE and ENDED; the   *)
(* minutes of ENDED rows are the monthly budget the next POST is checked   *)
(* against.  Any number of API processes share the collection, so every    *)
(* await is a point where another request or webhook runs: a handler reads *)
(* the row in one step and writes it in a later one.                       *)
(*                                                                         *)
(* Environment: the visitor who holds the token, the LiveKit room, and     *)
(* LiveKit's delivery of webhooks (at least once, in any order, retried    *)
(* when the handler dies, abandoned after enough retries).                 *)
(***************************************************************************)
EXTENDS Integers, FiniteSets
LOCAL INSTANCE FiniteSetsExt

CONSTANTS
  Sessions,        \* session ids; a room name and a visitor identity belong to one id
  Others,          \* identities that join a room beside its visitor: the agent
  Profiles,        \* profile ids
  NoProfile,       \* profileId of a GUEST session
  Handlers,        \* webhook requests the API processes can run at once
  Slots,           \* POST /session requests they can run at once
  MonthlyMinutes,  \* MONTHLY_MINUTES_PER_PROFILE, where 0 means unlimited
  TicksPerMinute,  \* resolution of the clock
  MonthTicks,      \* length of a calendar month
  TokenTtl,        \* how long a participant token lets its holder join
  MaxTime          \* bound on the clock

Visitor == "visitor"
NoOne == "nobody"

ASSUME SessionAssumption ==
  /\ NoProfile \notin Profiles
  /\ {Visitor, NoOne} \cap Others = {}
  /\ IsFiniteSet(Slots)
  /\ MonthlyMinutes \in Nat
  /\ TicksPerMinute \in Nat \ {0}
  /\ MonthTicks \in Nat \ {0}
  /\ TokenTtl \in Nat
  /\ MaxTime \in Nat

VARIABLES
  profiles,  \* profile documents that exist
  sessions,  \* [Sessions -> Row], the collection
  admitted,  \* [Slots -> {} or {the profile a createSession call past its checks is for}]
  writing,   \* [Handlers -> {} or {the write a webhook handler is about to issue}]
  room,      \* [Sessions -> "none", "open" or "closed"], the LiveKit room
  closedAt,  \* [Sessions -> when the room first finished, or Never]
  outbox,    \* webhook events LiveKit has not had acknowledged
  dropped,   \* rooms whose room_finished LiveKit gave up delivering
  now,       \* the clock, in ticks
  late,      \* [Profiles -> sessions inserted since the budget ran out]
  grace      \* [Profiles -> requests in flight when it ran out]

vars == <<profiles, sessions, admitted, writing, room, closedAt, outbox,
          dropped, now, late, grace>>

-----------------------------------------------------------------------------
(* Rows, events, and the minute budget.                                    *)

Never == -1

Status == {"pending", "active", "ended"}

Row == [status : Status, profile : Profiles \cup {NoProfile},
        createdAt : Nat, endedAt : Nat \cup {Never}]

Absent == [status |-> "absent", profile |-> NoProfile,
           createdAt |-> 0, endedAt |-> Never]

Exists(s) == sessions[s].status # "absent"

Events ==
  [kind : {"participant_joined"}, room : Sessions, who : {Visitor} \cup Others]
    \cup [kind : {"room_finished"}, room : Sessions, who : {NoOne}]

Joined(s, who) == [kind |-> "participant_joined", room |-> s, who |-> who]
Finished(s) == [kind |-> "room_finished", room |-> s, who |-> NoOne]

\* Date.UTC(year, month, 1)
monthStartUtc(t) == (t \div MonthTicks) * MonthTicks

\* Only rows that are ENDED and stamped; filtered by when they were created.
Counted(p, since) ==
  {s \in Sessions : /\ sessions[s].status = "ended"
                    /\ sessions[s].profile = p
                    /\ sessions[s].endedAt # Never
                    /\ sessions[s].createdAt >= since}

SumOver(S, f) == MapThenSumSet(LAMBDA s : f[s], S)

durationStatsByProfile(p, since) ==
  SumOver(Counted(p, since),
          [s \in Sessions |-> sessions[s].endedAt - sessions[s].createdAt])

\* Rounded up; a negative total counts as none.
minutesUsed(ticks) ==
  IF ticks <= 0 THEN 0 ELSE (ticks + TicksPerMinute - 1) \div TicksPerMinute

isBudgetExhausted(ticks, budget) ==
  budget # 0 /\ minutesUsed(ticks) >= budget

Exhausted(p) ==
  isBudgetExhausted(durationStatsByProfile(p, monthStartUtc(now)),
                    MonthlyMinutes)

-----------------------------------------------------------------------------
(* History: how many sessions a profile was given after its budget ran out *)
(* and how many requests were past the check at that moment.  Reads both   *)
(* states of a step; every action that can change a budget conjoins it.                             *)

InFlight(p) == {q \in Slots : p \in admitted[q]}

CountLate(insertedFor) ==
  /\ late' = [p \in Profiles |->
       IF ~Exhausted(p)' THEN 0
       ELSE IF Exhausted(p) /\ insertedFor = p THEN late[p] + 1 ELSE late[p]]
  /\ grace' = [p \in Profiles |->
       IF ~Exhausted(p)' THEN 0
       ELSE IF Exhausted(p) THEN grace[p] ELSE Cardinality(InFlight(p)')]

NoLateInsert == CountLate(NoProfile)

\* A step that touches neither a row nor the clock exhausts and renews no budget.
SameBudget == UNCHANGED <<late, grace>>

-----------------------------------------------------------------------------
(* POST /session.                                                          *)

Init ==
  /\ profiles = Profiles
  /\ sessions = [s \in Sessions |-> Absent]
  /\ admitted = [q \in Slots |-> {}]
  /\ writing = [h \in Handlers |-> {}]
  /\ room = [s \in Sessions |-> "none"]
  /\ closedAt = [s \in Sessions |-> Never]
  /\ outbox = {}
  /\ dropped = {}
  /\ now = 0
  /\ late = [p \in Profiles |-> 0]
  /\ grace = [p \in Profiles |-> 0]

MutantSinceNow(p) ==
  ~isBudgetExhausted(durationStatsByProfile(p, now), MonthlyMinutes)

assertWithinMinuteBudget(p) == ~Exhausted(p)

\* findByUsername and the aggregate: a missing profile (404) or a spent budget
\* (429) ends the request with nothing changed.  The row comes a step later.
AdmitUser(q, p) ==
  /\ admitted[q] = {}
  /\ p \in profiles
  /\ assertWithinMinuteBudget(p)
  /\ admitted' = [admitted EXCEPT ![q] = {p}]
  /\ UNCHANGED <<profiles, sessions, writing, room, closedAt, outbox, dropped, now>>
  /\ SameBudget

AdmitGuest(q) ==
  /\ admitted[q] = {}
  /\ admitted' = [admitted EXCEPT ![q] = {NoProfile}]
  /\ UNCHANGED <<profiles, sessions, writing, room, closedAt, outbox, dropped, now>>
  /\ SameBudget

\* sessionRepository.create, under a fresh room name and visitor identity.  The
\* token reaches the visitor only in the response, after the row exists.
Insert(q) ==
  /\ \E s \in Sessions, p \in admitted[q] :
       /\ ~Exists(s)
       /\ sessions' = [sessions EXCEPT ![s] =
            [status |-> "pending", profile |-> p,
             createdAt |-> now, endedAt |-> Never]]
       /\ admitted' = [admitted EXCEPT ![q] = {}]
       /\ UNCHANGED <<profiles, writing, room, closedAt, outbox, dropped, now>>
       /\ CountLate(p)

\* Minting throws (500), the insert throws, or the process dies.
RequestFails(q) ==
  /\ admitted[q] # {}
  /\ admitted' = [admitted EXCEPT ![q] = {}]
  /\ UNCHANGED <<profiles, sessions, writing, room, closedAt, outbox, dropped, now>>
  /\ SameBudget

\* ProfileService.deleteProfile: the sessions of the profile stay.
DeleteProfile(p) ==
  /\ p \in profiles
  /\ profiles' = profiles \ {p}
  /\ UNCHANGED <<sessions, admitted, writing, room, closedAt, outbox, dropped, now>>
  /\ SameBudget

-----------------------------------------------------------------------------
(* handleWebhook: read the row and decide in one step, write in a later    *)
(* one.  A handler that acknowledges may find the event delivered again.   *)

MutantActivates(e) ==
  /\ e.kind = "participant_joined"
  /\ e.who = Visitor
  /\ sessions[e.room].status # "active"

Activates(e) ==
  /\ e.kind = "participant_joined"
  /\ e.who = Visitor
  /\ sessions[e.room].status = "pending"

MutantEnds(e) ==
  e.kind = "room_finished" /\ sessions[e.room].status = "active"

Ends(e) == e.kind = "room_finished" /\ sessions[e.room].status # "ended"

MutantWrite(e) ==
  [event |-> e, endedAt |-> Never,
   status |-> IF e.kind = "room_finished" THEN "ended" ELSE "active"]

Write(e) ==
  IF e.kind = "room_finished"
    THEN [event |-> e, status |-> "ended", endedAt |-> now]
    ELSE [event |-> e, status |-> "active", endedAt |-> Never]

Acknowledge(e) == outbox' \in {outbox \ {e}, outbox}

\* Unknown rooms, other identities and settled rows are acknowledged silently.
Ignore(h, e) ==
  /\ writing[h] = {}
  /\ e \in outbox
  /\ ~(Exists(e.room) /\ (Activates(e) \/ Ends(e)))
  /\ Acknowledge(e)
  /\ UNCHANGED <<profiles, sessions, admitted, writing, room, closedAt, dropped, now>>
  /\ SameBudget

Decide(h, e) ==
  /\ writing[h] = {}
  /\ e \in outbox
  /\ Exists(e.room)
  /\ Activates(e) \/ Ends(e)
  /\ writing' = [writing EXCEPT ![h] = {Write(e)}]
  /\ UNCHANGED <<profiles, sessions, admitted, room, closedAt, outbox, dropped, now>>
  /\ SameBudget

MutantUpdateStatus(s, status, endedAt) ==
  sessions' = [sessions EXCEPT ![s].status = status, ![s].endedAt = endedAt]

\* findByIdAndUpdate: no condition on the status the handler had read, and
\* endedAt is in the $set only when the caller passes one.
updateStatus(s, status, endedAt) ==
  sessions' = [sessions EXCEPT
    ![s].status = status,
    ![s].endedAt = IF endedAt = Never THEN @ ELSE endedAt]

Apply(h) ==
  /\ \E w \in writing[h] :
       /\ updateStatus(w.event.room, w.status, w.endedAt)
       /\ Acknowledge(w.event)
  /\ writing' = [writing EXCEPT ![h] = {}]
  /\ UNCHANGED <<profiles, admitted, room, closedAt, dropped, now>>
  /\ NoLateInsert

\* The process dies, or the write throws: LiveKit will deliver the event again.
HandlerFails(h) ==
  /\ writing[h] # {}
  /\ writing' = [writing EXCEPT ![h] = {}]
  /\ UNCHANGED <<profiles, sessions, admitted, room, closedAt, outbox, dropped, now>>
  /\ SameBudget

-----------------------------------------------------------------------------
(* Environment: LiveKit, the visitor, the clock.                           *)

\* The token stays good for its TTL, so a visitor can join again after the room
\* has finished; LiveKit then opens a room of the same name.
VisitorJoins(s) ==
  /\ Exists(s)
  /\ now <= sessions[s].createdAt + TokenTtl
  /\ room' = [room EXCEPT ![s] = "open"]
  /\ outbox' = outbox \cup {Joined(s, Visitor)}
  /\ UNCHANGED <<profiles, sessions, admitted, writing, closedAt, dropped, now>>
  /\ SameBudget

OtherJoins(s, who) ==
  /\ room[s] = "open"
  /\ outbox' = outbox \cup {Joined(s, who)}
  /\ UNCHANGED <<profiles, sessions, admitted, writing, room, closedAt, dropped, now>>
  /\ SameBudget

RoomFinishes(s) ==
  /\ room[s] = "open"
  /\ room' = [room EXCEPT ![s] = "closed"]
  /\ closedAt' = [closedAt EXCEPT ![s] = IF @ = Never THEN now ELSE @]
  /\ outbox' = outbox \cup {Finished(s)}
  /\ UNCHANGED <<profiles, sessions, admitted, writing, dropped, now>>
  /\ SameBudget

GiveUp(e) ==
  /\ e \in outbox
  /\ outbox' = outbox \ {e}
  /\ dropped' = IF e.kind = "room_finished" THEN dropped \cup {e.room} ELSE dropped
  /\ UNCHANGED <<profiles, sessions, admitted, writing, room, closedAt, now>>
  /\ SameBudget

Tick ==
  /\ now < MaxTime
  /\ now' = now + 1
  /\ UNCHANGED <<profiles, sessions, admitted, writing, room, closedAt, outbox, dropped>>
  /\ NoLateInsert

-----------------------------------------------------------------------------

Next ==
  \/ \E q \in Slots, p \in Profiles : AdmitUser(q, p)
  \/ \E q \in Slots : AdmitGuest(q) \/ Insert(q) \/ RequestFails(q)
  \/ \E p \in Profiles : DeleteProfile(p)
  \/ \E h \in Handlers, e \in outbox : Ignore(h, e) \/ Decide(h, e)
  \/ \E h \in Handlers : Apply(h) \/ HandlerFails(h)
  \/ \E s \in Sessions : VisitorJoins(s) \/ RoomFinishes(s)
  \/ \E s \in Sessions, who \in Others : OtherJoins(s, who)
  \/ \E e \in outbox : GiveUp(e)
  \/ Tick

Spec == Init /\ [][Next]_vars

\* LiveKit keeps retrying what it has not given up on, a free handler takes the
\* retry, and not every handler dies between its read and its write.  Nothing is
\* assumed of visitors, rooms, requests or the clock.
Delivery(e) == \E h \in Handlers : Ignore(h, e) \/ Decide(h, e)

Fairness ==
  /\ \A e \in Events : SF_vars(Delivery(e))
  /\ \A h \in Handlers : SF_vars(Apply(h))

FairSpec == Spec /\ Fairness

-----------------------------------------------------------------------------
(* Properties.                                                             *)

Writes ==
  [event : {e \in Events : e.kind = "participant_joined"},
   status : {"active"}, endedAt : {Never}]
    \cup [event : {e \in Events : e.kind = "room_finished"},
          status : {"ended"}, endedAt : Nat]

AtMostOne(S) == \A x, y \in S : x = y

\* Types, and with them what a pending write may carry: updateStatus(ACTIVE)
\* never stamps an end and updateStatus(ENDED) always does.
TypeOK ==
  /\ profiles \subseteq Profiles
  /\ sessions \in [Sessions -> Row \cup {Absent}]
  /\ admitted \in [Slots -> SUBSET (Profiles \cup {NoProfile})]
  /\ \A q \in Slots : AtMostOne(admitted[q])
  /\ writing = [h \in Handlers |-> writing[h]]
  /\ \A h \in Handlers : writing[h] \subseteq Writes /\ AtMostOne(writing[h])
  /\ room \in [Sessions -> {"none", "open", "closed"}]
  /\ closedAt \in [Sessions -> Nat \cup {Never}]
  /\ outbox \subseteq Events
  /\ dropped \subseteq Sessions
  /\ now \in Nat
  /\ late \in [Profiles -> Nat]
  /\ grace \in [Profiles -> Nat]

\* The sessions a profile is given beyond its monthly budget are at most the
\* requests that were already past assertWithinMinuteBudget when the budget ran
\* out: check-then-insert is not atomic, and this is all that can slip through.
BudgetOvershoot ==
  \A p \in Profiles : Exhausted(p) => late[p] <= grace[p]

\* Once a row is ENDED and no handler is still holding an ACTIVE write for it,
\* no later webhook (duplicated, reordered, or from a re-opened room) moves it.
Settled(s) ==
  /\ sessions[s].status = "ended"
  /\ \A h \in Handlers : \A w \in writing[h] :
       w.event.room = s => w.status = "ended"

SettledStaysEnded == [][\A s \in Sessions : Settled(s) => Settled(s)']_vars

\* ENDED is final, as the lifecycle of the data model draws it:
\* pending -> active -> ended (docs/decisions/2026-06-14-session-module.md).
EndedIsFinal ==
  [][\A s \in Sessions : sessions[s].status = "ended"
                            => sessions'[s].status = "ended"]_vars

\* A room that finished leaves a stamped row, whatever was duplicated, reordered
\* or retried on the way, unless LiveKit gave up on the event.
FinishedRoomsAreStamped ==
  \A s \in Sessions :
    (closedAt[s] # Never)
      ~> (sessions[s].endedAt # Never \/ s \in dropped)

\* The rows implement the abstract conversation: a phase read off the row only
\* moves forward, and its end is stamped no earlier than the room finished.
phase ==
  [s \in Sessions |->
    CASE ~Exists(s) -> "absent"
      [] Exists(s) /\ sessions[s].endedAt # Never -> "over"
      [] Exists(s) /\ sessions[s].endedAt = Never /\ sessions[s].status = "active"
           -> "talking"
      [] OTHER -> "minted"]

Promise == INSTANCE Conversation
  WITH finished <- closedAt, endedAt <- [s \in Sessions |-> sessions[s].endedAt]

ImplementsConversation == Promise!Spec
=============================================================================
