---------------------------- MODULE SessionProofs ----------------------------
(***************************************************************************)
(* Theorems about Session, for every number of sessions, profiles, webhook *)
(* handlers and concurrent requests, every budget and every clock.         *)
(***************************************************************************)
EXTENDS Session, FiniteSetTheorems, TLAPS

-----------------------------------------------------------------------------
(* Types.                                                                  *)

LEMMA InFlightIsFinite ==
  \A p : IsFiniteSet(InFlight(p)) /\ Cardinality(InFlight(p)) \in Nat
<1> TAKE p
<1>1. IsFiniteSet(Slots)
  BY SessionAssumption
<1>2. InFlight(p) \subseteq Slots
  BY DEF InFlight
<1>3. IsFiniteSet(InFlight(p))
  BY <1>1, <1>2, FS_Subset
<1> QED BY <1>3, FS_CardinalityType

\* The same of the requests in flight after a step.
LEMMA InFlightIsFiniteNext ==
  \A p : IsFiniteSet(InFlight(p)') /\ Cardinality(InFlight(p)') \in Nat
<1> TAKE p
<1>1. IsFiniteSet(Slots)
  BY SessionAssumption
<1>2. InFlight(p)' \subseteq Slots
  BY DEF InFlight
<1>3. IsFiniteSet(InFlight(p)')
  BY <1>1, <1>2, FS_Subset
<1> QED BY <1>3, FS_CardinalityType

Counters == late \in [Profiles -> Nat] /\ grace \in [Profiles -> Nat]

LEMMA CountLateTypes ==
  ASSUME Counters, NEW p, CountLate(p)
  PROVE  Counters'
BY InFlightIsFiniteNext DEF Counters, CountLate

LEMMA InitTypes == Init => TypeOK
BY SessionAssumption DEF Init, TypeOK, AtMostOne, Never, Absent, Row, Events

\* Every action adjusts the counters; the rest of a step is typed action by action.
StateTypes ==
  /\ profiles \subseteq Profiles
  /\ sessions \in [Sessions -> Row \cup {Absent}]
  /\ admitted \in [Slots -> SUBSET (Profiles \cup {NoProfile})]
  /\ \A q \in Slots : AtMostOne(admitted[q])
  /\ writing = [h \in Handlers |-> writing[h]]
  /\ \A h \in Handlers : writing[h] \subseteq Writes /\ AtMostOne(writing[h])
  /\ room \in [Sessions -> {"none", "open", "closed"}]
  /\ closedAt \in [Sessions -> Nat \cup {Never}]
  /\ outbox \subseteq Events
  /\ dropped \subseteq Sessions
  /\ now \in Nat

LEMMA TypesSplit == TypeOK <=> StateTypes /\ Counters
BY DEF TypeOK, StateTypes, Counters

LEMMA RequestTypes ==
  ASSUME StateTypes, NEW q \in Slots,
         (\E p \in Profiles : AdmitUser(q, p)) \/ AdmitGuest(q) \/ Insert(q) \/ RequestFails(q)
  PROVE  StateTypes'
<1> USE DEF StateTypes
<1>1. ASSUME NEW p \in Profiles, AdmitUser(q, p) PROVE StateTypes'
  BY <1>1 DEF AdmitUser, AtMostOne
<1>2. CASE AdmitGuest(q)
  BY <1>2 DEF AdmitGuest, AtMostOne
<1>3. CASE Insert(q)
  <2>1. PICK s \in Sessions, p \in admitted[q] :
          /\ sessions' = [sessions EXCEPT ![s] =
               [status |-> "pending", profile |-> p, createdAt |-> now, endedAt |-> Never]]
          /\ admitted' = [admitted EXCEPT ![q] = {}]
    BY <1>3 DEF Insert
  <2>2. [status |-> "pending", profile |-> p, createdAt |-> now, endedAt |-> Never] \in Row
    BY DEF Row, Status
  <2>3. sessions' \in [Sessions -> Row \cup {Absent}]
    BY <2>1, <2>2
  <2> QED BY <1>3, <2>1, <2>3 DEF Insert, AtMostOne
<1>4. CASE RequestFails(q)
  BY <1>4 DEF RequestFails, AtMostOne
<1> QED BY <1>1, <1>2, <1>3, <1>4

LEMMA UpdateTypes ==
  ASSUME sessions \in [Sessions -> Row \cup {Absent}], NEW s \in Sessions, Exists(s),
         NEW status \in Status, NEW endedAt \in Nat \cup {Never},
         updateStatus(s, status, endedAt)
  PROVE  sessions' \in [Sessions -> Row \cup {Absent}]
<1>1. sessions[s] \in Row
  BY DEF Exists, Absent
<1>2. [sessions[s] EXCEPT !.status = status,
                          !.endedAt = IF endedAt = Never THEN @ ELSE endedAt] \in Row
  BY <1>1 DEF Row
<1>3. sessions' = [sessions EXCEPT ![s] =
        [sessions[s] EXCEPT !.status = status,
                            !.endedAt = IF endedAt = Never THEN @ ELSE endedAt]]
  BY <1>1 DEF updateStatus, Row
<1> QED BY <1>2, <1>3

\* A handler writes to rows that exist: rows are never removed.
WritesToRows == \A h \in Handlers : \A w \in writing[h] : Exists(w.event.room)

LEMMA HandlerTypes ==
  ASSUME StateTypes, WritesToRows, NEW h \in Handlers,
         (\E e \in outbox : Ignore(h, e) \/ Decide(h, e)) \/ Apply(h) \/ HandlerFails(h)
  PROVE  StateTypes'
<1>1. ASSUME NEW e \in outbox, Ignore(h, e) PROVE StateTypes'
  BY <1>1 DEF StateTypes, Ignore, Acknowledge
<1>2. ASSUME NEW e \in outbox, Decide(h, e) PROVE StateTypes'
  <2>1. e \in Events
    BY DEF StateTypes
  <2>2. Write(e) \in Writes
    BY <1>2, <2>1 DEF StateTypes, Writes, Write, Events, Decide, Activates, Ends, Visitor
  <2> QED BY <1>2, <2>2 DEF StateTypes, Decide, AtMostOne
<1>3. CASE Apply(h)
  <2>1. PICK w \in writing[h] : /\ updateStatus(w.event.room, w.status, w.endedAt)
                                /\ Acknowledge(w.event)
    BY <1>3 DEF Apply
  <2>2. w \in Writes
    BY DEF StateTypes
  <2>3. w.event.room \in Sessions /\ w.status \in Status /\ w.endedAt \in Nat \cup {Never}
    BY <2>2 DEF Writes, Events, Status
  <2>4. sessions' \in [Sessions -> Row \cup {Absent}]
    BY <2>1, <2>3, UpdateTypes DEF StateTypes, WritesToRows
  <2> QED BY <1>3, <2>1, <2>4 DEF StateTypes, Apply, Acknowledge, AtMostOne
<1>4. CASE HandlerFails(h)
  BY <1>4 DEF StateTypes, HandlerFails, AtMostOne
<1> QED BY <1>1, <1>2, <1>3, <1>4

LEMMA WorldTypes ==
  ASSUME StateTypes,
         \/ \E p \in Profiles : DeleteProfile(p)
         \/ \E s \in Sessions : VisitorJoins(s) \/ RoomFinishes(s)
         \/ \E s \in Sessions, who \in Others : OtherJoins(s, who)
         \/ \E e \in outbox : GiveUp(e)
         \/ Tick
  PROVE  StateTypes'
<1> USE DEF StateTypes
<1>1. ASSUME NEW p \in Profiles, DeleteProfile(p) PROVE StateTypes'
  BY <1>1 DEF DeleteProfile
<1>2. ASSUME NEW s \in Sessions, VisitorJoins(s) PROVE StateTypes'
  BY <1>2 DEF VisitorJoins, Events, Joined
<1>3. ASSUME NEW s \in Sessions, RoomFinishes(s) PROVE StateTypes'
  BY <1>3 DEF RoomFinishes, Events, Finished
<1>4. ASSUME NEW s \in Sessions, NEW who \in Others, OtherJoins(s, who) PROVE StateTypes'
  BY <1>4 DEF OtherJoins, Events, Joined
<1>5. ASSUME NEW e \in outbox, GiveUp(e) PROVE StateTypes'
  BY <1>5 DEF GiveUp, Events
<1>6. CASE Tick
  BY <1>6 DEF Tick
<1> QED BY <1>1, <1>2, <1>3, <1>4, <1>5, <1>6

LEMMA StepCounts == [Next]_vars => UNCHANGED <<late, grace>> \/ \E p : CountLate(p)
BY DEF vars, Next, NoLateInsert, SameBudget, AdmitUser, AdmitGuest, Insert, RequestFails, DeleteProfile, Ignore,
       Decide, Apply, HandlerFails, VisitorJoins, RoomFinishes, OtherJoins, GiveUp, Tick

LEMMA RowsStay ==
  ASSUME StateTypes, [Next]_vars
  PROVE  \A s \in Sessions : Exists(s) => Exists(s)'
<1> SUFFICES ASSUME NEW s \in Sessions, Exists(s) PROVE Exists(s)'
  OBVIOUS
<1>1. ASSUME NEW q \in Slots, Insert(q) PROVE Exists(s)'
  BY <1>1 DEF Insert, Exists, StateTypes
<1>2. ASSUME NEW h \in Handlers, Apply(h) PROVE Exists(s)'
  <2>1. PICK w \in writing[h] : updateStatus(w.event.room, w.status, w.endedAt)
    BY <1>2 DEF Apply
  <2>2. w \in Writes
    BY DEF StateTypes
  <2>3. w.status # "absent"
    BY <2>2 DEF Writes
  <2>4. sessions[s] \in Row
    BY DEF StateTypes, Exists, Absent
  <2> QED BY <2>1, <2>3, <2>4 DEF updateStatus, Exists, StateTypes, Row
<1>3. CASE UNCHANGED sessions
  BY <1>3 DEF Exists
<1> QED BY <1>1, <1>2, <1>3 DEF Next, vars, AdmitUser, AdmitGuest, RequestFails,
      DeleteProfile, Ignore, Decide, HandlerFails, VisitorJoins, RoomFinishes, OtherJoins,
      GiveUp, Tick

LEMMA StepWritesToRows ==
  ASSUME StateTypes, WritesToRows, [Next]_vars
  PROVE  WritesToRows'
<1>1. \A s \in Sessions : Exists(s) => Exists(s)'
  BY RowsStay
<1>2. \A h \in Handlers : \A w \in writing'[h] : Exists(w.event.room)
  <2>1. ASSUME NEW h \in Handlers, NEW e \in outbox, Decide(h, e)
        PROVE  \A g \in Handlers : \A w \in writing'[g] : Exists(w.event.room)
    BY <2>1 DEF Decide, Write, WritesToRows, StateTypes
  <2>2. ASSUME NEW h \in Handlers, writing' = [writing EXCEPT ![h] = {}]
        PROVE  \A g \in Handlers : \A w \in writing'[g] : Exists(w.event.room)
    BY <2>2 DEF WritesToRows, StateTypes
  <2>3. CASE UNCHANGED writing
    BY <2>3 DEF WritesToRows
  <2> QED BY <2>1, <2>2, <2>3 DEF Next, vars, AdmitUser, AdmitGuest, RequestFails, Insert,
        DeleteProfile, Ignore, Apply, HandlerFails, VisitorJoins, RoomFinishes, OtherJoins,
        GiveUp, Tick
<1>3. ASSUME NEW h \in Handlers, NEW w \in writing'[h] PROVE w.event.room \in Sessions
  <2>1. StateTypes'
    <3>1. CASE UNCHANGED vars
      BY <3>1 DEF vars, StateTypes
    <3>2. CASE Next
      BY <3>2, RequestTypes, HandlerTypes, WorldTypes DEF Next
    <3> QED BY <3>1, <3>2
  <2>2. w \in Writes
    BY <2>1 DEF StateTypes
  <2> QED BY <2>2 DEF Writes, Events
<1> QED BY <1>1, <1>2, <1>3 DEF WritesToRows

LEMMA StepTypes ==
  ASSUME TypeOK, WritesToRows, [Next]_vars
  PROVE  TypeOK'
<1>1. CASE UNCHANGED vars
  BY <1>1 DEF vars, TypeOK
<1>2. CASE Next
  <2>1. StateTypes'
    BY <1>2, TypesSplit, RequestTypes, HandlerTypes, WorldTypes DEF Next
  <2>2. Counters'
    BY <1>2, TypesSplit, StepCounts, CountLateTypes DEF vars, Counters
  <2> QED BY <2>1, <2>2 DEF TypeOK, StateTypes, Counters
<1> QED BY <1>1, <1>2

\* Every state is typed, and a handler only ever writes to a row that exists.
THEOREM TypeCorrect == Spec => [](TypeOK /\ WritesToRows)
<1>1. Init => TypeOK /\ WritesToRows
  BY InitTypes DEF Init, WritesToRows
<1>2. TypeOK /\ WritesToRows /\ [Next]_vars => TypeOK' /\ WritesToRows'
  BY StepTypes, StepWritesToRows, TypesSplit
<1> QED BY <1>1, <1>2, PTL DEF Spec

-----------------------------------------------------------------------------
(* The budget.  Each request that was past the check when the budget ran   *)
(* out inserts at most once, so what has been inserted late and what is    *)
(* still in flight never add up to more than were in flight then.          *)

BudgetInv ==
  \A p \in Profiles :
    /\ ~Exhausted(p) => late[p] = 0
    /\ Exhausted(p) => late[p] + Cardinality(InFlight(p)) <= grace[p]

\* A step that admits nobody for an exhausted profile, and whose insert for it
\* takes a request out of flight, keeps the sum.
LEMMA CountKeepsBudget ==
  ASSUME TypeOK, BudgetInv, NEW r, CountLate(r), NEW p \in Profiles,
         Exhausted(p) => InFlight(p)' \subseteq InFlight(p),
         Exhausted(p) /\ r = p => InFlight(p)' # InFlight(p)
  PROVE  /\ ~Exhausted(p)' => late'[p] = 0
         /\ Exhausted(p)' => late'[p] + Cardinality(InFlight(p)') <= grace'[p]
<1>1. late[p] \in Nat /\ grace[p] \in Nat
  BY DEF TypeOK
<1>2. /\ Cardinality(InFlight(p)) \in Nat /\ Cardinality(InFlight(p)') \in Nat
      /\ IsFiniteSet(InFlight(p))
  BY InFlightIsFinite, InFlightIsFiniteNext
<1>3. late'[p] = (IF ~Exhausted(p)' THEN 0
                  ELSE IF Exhausted(p) /\ r = p THEN late[p] + 1 ELSE late[p])
  BY DEF CountLate
<1>4. grace'[p] = (IF ~Exhausted(p)' THEN 0
                   ELSE IF Exhausted(p) THEN grace[p] ELSE Cardinality(InFlight(p)'))
  BY DEF CountLate
<1>5. CASE Exhausted(p)' /\ Exhausted(p)
  <2>1. late[p] + Cardinality(InFlight(p)) <= grace[p]
    BY <1>5 DEF BudgetInv
  <2>2. CASE r = p
    <3>1. Cardinality(InFlight(p)') < Cardinality(InFlight(p))
      BY <1>2, <1>5, <2>2, FS_Subset
    <3> QED BY <1>1, <1>2, <1>3, <1>4, <1>5, <2>1, <2>2, <3>1
  <2>3. CASE r # p
    <3>1. Cardinality(InFlight(p)') <= Cardinality(InFlight(p))
      BY <1>2, <1>5, FS_Subset
    <3> QED BY <1>1, <1>2, <1>3, <1>4, <1>5, <2>1, <2>3, <3>1
  <2> QED BY <2>2, <2>3
<1>6. CASE Exhausted(p)' /\ ~Exhausted(p)
  <2>1. late[p] = 0
    BY <1>6 DEF BudgetInv
  <2> QED BY <1>2, <1>3, <1>4, <1>6, <2>1
<1>7. CASE ~Exhausted(p)'
  BY <1>3, <1>7
<1> QED BY <1>5, <1>6, <1>7

LEMMA StepBudget ==
  ASSUME TypeOK, BudgetInv, [Next]_vars
  PROVE  BudgetInv'
<1> DEFINE Kept(r) == \A p \in Profiles :
                        /\ Exhausted(p) => InFlight(p)' \subseteq InFlight(p)
                        /\ Exhausted(p) /\ r = p => InFlight(p)' # InFlight(p)
<1>1. ASSUME UNCHANGED <<sessions, now, late, grace>>, Kept(NoProfile) PROVE BudgetInv'
  <2>1. \A p \in Profiles : Exhausted(p)' <=> Exhausted(p)
    BY <1>1 DEF Exhausted, durationStatsByProfile, Counted
  <2>2. \A p \in Profiles : Exhausted(p) => Cardinality(InFlight(p)') <= Cardinality(InFlight(p))
    BY <1>1, InFlightIsFinite, FS_Subset
  <2>3. \A p \in Profiles : /\ late[p] \in Nat /\ grace[p] \in Nat
                            /\ Cardinality(InFlight(p)) \in Nat
                            /\ Cardinality(InFlight(p)') \in Nat
    BY InFlightIsFinite, InFlightIsFiniteNext DEF TypeOK
  <2> QED BY <1>1, <2>1, <2>2, <2>3 DEF BudgetInv
<1>2. ASSUME NEW r, CountLate(r), Kept(r) PROVE BudgetInv'
  BY <1>2, CountKeepsBudget DEF BudgetInv
<1>3. ASSUME NEW q \in Slots, NEW r \in Profiles, AdmitUser(q, r)
      PROVE  UNCHANGED <<sessions, now, late, grace>> /\ Kept(NoProfile)
  BY <1>3, SessionAssumption
    DEF AdmitUser, SameBudget, InFlight, TypeOK, assertWithinMinuteBudget
<1>4. ASSUME NEW q \in Slots, AdmitGuest(q)
      PROVE  UNCHANGED <<sessions, now, late, grace>> /\ Kept(NoProfile)
  BY <1>4, SessionAssumption DEF AdmitGuest, SameBudget, InFlight, TypeOK
<1>5. ASSUME NEW q \in Slots, RequestFails(q)
      PROVE  UNCHANGED <<sessions, now, late, grace>> /\ Kept(NoProfile)
  BY <1>5, SessionAssumption DEF RequestFails, SameBudget, InFlight, TypeOK
<1>6. ASSUME NEW q \in Slots, Insert(q)
      PROVE  \E r : CountLate(r) /\ Kept(r)
  <2>1. PICK s \in Sessions, r \in admitted[q] :
          admitted' = [admitted EXCEPT ![q] = {}] /\ CountLate(r)
    BY <1>6 DEF Insert
  <2>2. \A p \in Profiles : InFlight(p)' \subseteq InFlight(p)
    BY <2>1 DEF InFlight, TypeOK
  <2>3. q \in InFlight(r) /\ q \notin InFlight(r)'
    BY <2>1 DEF InFlight, TypeOK
  <2> QED BY <2>1, <2>2, <2>3
<1>7. UNCHANGED admitted => Kept(NoProfile)
  BY SessionAssumption DEF InFlight
<1> HIDE DEF Kept
<1>8. Next => \/ UNCHANGED <<sessions, now, late, grace>> /\ Kept(NoProfile)
              \/ UNCHANGED <<sessions, now, late, grace>> /\ UNCHANGED admitted
              \/ \E r : CountLate(r) /\ Kept(r)
              \/ UNCHANGED admitted /\ CountLate(NoProfile)
  BY <1>3, <1>4, <1>5, <1>6
    DEF Next, NoLateInsert, SameBudget, DeleteProfile, Ignore, Decide, Apply, HandlerFails,
        VisitorJoins, RoomFinishes, OtherJoins, GiveUp, Tick
<1> QED BY <1>1, <1>2, <1>7, <1>8 DEF vars

\* What createUserSession lets through beyond a spent budget is at most what was
\* between its check and its insert when the budget ran out.
THEOREM BudgetOvershootIsBounded == Spec => []BudgetOvershoot
<1>1. Init => BudgetInv
  <2> SUFFICES ASSUME Init PROVE BudgetInv
    OBVIOUS
  <2>1. \A p \in Profiles : InFlight(p) = {}
    BY DEF Init, InFlight
  <2> QED BY <2>1, FS_EmptySet DEF Init, BudgetInv
<1>2. TypeOK /\ BudgetInv /\ [Next]_vars => BudgetInv'
  BY StepBudget
<1>3. TypeOK /\ BudgetInv => BudgetOvershoot
  <2> SUFFICES ASSUME TypeOK, BudgetInv, NEW p \in Profiles, Exhausted(p)
               PROVE  late[p] <= grace[p]
    BY DEF BudgetOvershoot
  <2>1. late[p] + Cardinality(InFlight(p)) <= grace[p]
    BY DEF BudgetInv
  <2>2. late[p] \in Nat /\ grace[p] \in Nat /\ Cardinality(InFlight(p)) \in Nat
    BY InFlightIsFinite DEF TypeOK
  <2> QED BY <2>1, <2>2
<1> QED BY <1>1, <1>2, <1>3, TypeCorrect, PTL DEF Spec

-----------------------------------------------------------------------------
(* The lifecycle of a row.                                                 *)

LEMMA ApplyKeepsSettled ==
  ASSUME TypeOK, NEW h \in Handlers, Apply(h), NEW s \in Sessions, Settled(s)
  PROVE  Settled(s)'
<1>1. PICK w \in writing[h] : updateStatus(w.event.room, w.status, w.endedAt)
  BY DEF Apply
<1>2. w.event.room = s => w.status = "ended"
  BY DEF Settled
<1>3. sessions'[s].status = "ended"
  <2>1. sessions[s] \in Row
    BY DEF TypeOK, Settled, Absent
  <2> QED BY <1>1, <1>2, <2>1 DEF updateStatus, TypeOK, Settled, Row
<1>4. \A g \in Handlers : writing'[g] \subseteq writing[g]
  BY DEF Apply, TypeOK
<1> QED BY <1>3, <1>4 DEF Settled

LEMMA StepKeepsSettled ==
  ASSUME TypeOK, [Next]_vars, NEW s \in Sessions, Settled(s)
  PROVE  Settled(s)'
<1>1. ASSUME NEW q \in Slots, Insert(q) PROVE Settled(s)'
  BY <1>1 DEF Insert, Settled, Exists, TypeOK
<1>2. ASSUME NEW h \in Handlers, NEW e \in outbox, Decide(h, e) PROVE Settled(s)'
  <2>1. e.room = s => Write(e).status = "ended"
    BY <1>2 DEF Decide, Activates, Ends, Write, Settled
  <2>2. Write(e).event = e
    BY DEF Write
  <2> QED BY <1>2, <2>1, <2>2 DEF Decide, Settled, TypeOK
<1>3. ASSUME NEW h \in Handlers, Apply(h) PROVE Settled(s)'
  BY <1>3, ApplyKeepsSettled
<1>4. ASSUME NEW h \in Handlers, HandlerFails(h) PROVE Settled(s)'
  BY <1>4 DEF HandlerFails, Settled, TypeOK
<1>5. CASE UNCHANGED <<sessions, writing>>
  BY <1>5 DEF Settled
<1> QED BY <1>1, <1>2, <1>3, <1>4, <1>5 DEF Next, vars, AdmitUser, AdmitGuest, RequestFails,
      DeleteProfile, Ignore, VisitorJoins, RoomFinishes, OtherJoins, GiveUp, Tick

\* Once a row is ENDED and no handler holds an ACTIVE write for it, nothing that
\* LiveKit delivers, in whatever order and however often, moves it again.
THEOREM SettledIsFinal == Spec => SettledStaysEnded
<1>1. TypeOK /\ [Next]_vars => [\A s \in Sessions : Settled(s) => Settled(s)']_vars
  BY StepKeepsSettled
<1> QED BY <1>1, TypeCorrect, PTL DEF Spec, SettledStaysEnded

-----------------------------------------------------------------------------
(* Session implements Conversation.                                        *)

\* Ends come from rooms that finished: an event in the outbox, a write a handler
\* holds and an end stamped on a row are each later than the room's own end.
RoomsAreReal ==
  \A s \in Sessions : /\ closedAt[s] # Never => closedAt[s] <= now
                      /\ room[s] # "none" => Exists(s)
                      /\ Finished(s) \in outbox => closedAt[s] # Never

WritesAreReal ==
  \A h \in Handlers : \A w \in writing[h] :
    w.status = "ended" => /\ closedAt[w.event.room] # Never
                          /\ closedAt[w.event.room] <= w.endedAt
                          /\ w.endedAt <= now

EndsAreReal == RoomsAreReal /\ WritesAreReal

LEMMA StepEndsAreReal ==
  ASSUME TypeOK, WritesToRows, EndsAreReal, [Next]_vars
  PROVE  EndsAreReal'
<1> USE DEF EndsAreReal
<1>1. \A s \in Sessions : Exists(s) => Exists(s)'
  BY RowsStay, TypesSplit
<1>2. \A h \in Handlers : \A w \in writing[h] :
        w.event.room \in Sessions /\ w.endedAt \in Nat \cup {Never}
  BY DEF TypeOK, Writes, Events
<1>3. ASSUME NEW h \in Handlers, NEW e \in outbox, Decide(h, e) PROVE EndsAreReal'
  <2>1. e \in Events
    BY DEF TypeOK
  <2>2. Write(e).status = "ended" => /\ closedAt[e.room] # Never
                                     /\ closedAt[e.room] <= now
                                     /\ Write(e).endedAt = now
    <3>1. SUFFICES ASSUME Write(e).status = "ended"
                   PROVE  /\ closedAt[e.room] # Never /\ closedAt[e.room] <= now
                          /\ Write(e).endedAt = now
      OBVIOUS
    <3>2. e.kind = "room_finished"
      BY <3>1 DEF Write
    <3>3. e = Finished(e.room) /\ e.room \in Sessions
      BY <2>1, <3>2 DEF Events, Finished
    <3> QED BY <1>3, <3>2, <3>3 DEF RoomsAreReal, Write
  <2>3. Write(e).event = e
    BY DEF Write
  <2>4. WritesAreReal'
    BY <1>3, <2>2, <2>3 DEF Decide, RoomsAreReal, WritesAreReal, TypeOK
  <2>5. RoomsAreReal'
    BY <1>3 DEF Decide, RoomsAreReal, WritesAreReal, Exists
  <2> QED BY <2>4, <2>5
<1>4. ASSUME NEW h \in Handlers, Apply(h) PROVE EndsAreReal'
  <2>1. outbox' \subseteq outbox
    BY <1>4 DEF Apply, Acknowledge
  <2>2. RoomsAreReal'
    BY <1>1, <1>4, <2>1 DEF Apply, RoomsAreReal, WritesAreReal
  <2>3. WritesAreReal'
    BY <1>4 DEF Apply, RoomsAreReal, WritesAreReal, TypeOK
  <2> QED BY <2>2, <2>3
<1>5. ASSUME NEW h \in Handlers, HandlerFails(h) PROVE EndsAreReal'
  BY <1>5 DEF HandlerFails, RoomsAreReal, WritesAreReal, TypeOK, Exists
<1>6. ASSUME NEW s \in Sessions, RoomFinishes(s) PROVE EndsAreReal'
  <2>1. \A r \in Sessions : closedAt[r] # Never => closedAt'[r] = closedAt[r]
    BY <1>6 DEF RoomFinishes, TypeOK
  <2>2. closedAt'[s] # Never /\ closedAt'[s] <= now
    <3>1. closedAt'[s] = IF closedAt[s] = Never THEN now ELSE closedAt[s]
      BY <1>6 DEF RoomFinishes, TypeOK
    <3>2. now \in Nat
      BY DEF TypeOK
    <3> QED BY <3>1, <3>2 DEF RoomsAreReal, Never
  <2>3. WritesAreReal'
    BY <1>2, <1>6, <2>1 DEF RoomFinishes, RoomsAreReal, WritesAreReal
  <2>4. \A r \in Sessions : r # s => closedAt'[r] = closedAt[r] /\ Finished(r) # Finished(s)
    BY <1>6 DEF RoomFinishes, TypeOK, Finished
  <2>5. RoomsAreReal'
    BY <1>6, <2>2, <2>4 DEF RoomFinishes, RoomsAreReal, WritesAreReal, Exists, TypeOK
  <2> QED BY <2>3, <2>5
<1>7. ASSUME NEW s \in Sessions, VisitorJoins(s) PROVE EndsAreReal'
  <2>1. \A r \in Sessions : Finished(r) # Joined(s, Visitor)
    BY DEF Finished, Joined
  <2> QED BY <1>7, <2>1 DEF VisitorJoins, RoomsAreReal, WritesAreReal, Exists, TypeOK
<1>8. ASSUME NEW s \in Sessions, NEW who \in Others, OtherJoins(s, who) PROVE EndsAreReal'
  <2>1. \A r \in Sessions : Finished(r) # Joined(s, who)
    BY DEF Finished, Joined
  <2> QED BY <1>8, <2>1 DEF OtherJoins, RoomsAreReal, WritesAreReal, Exists
<1>9. ASSUME NEW q \in Slots, Insert(q) PROVE EndsAreReal'
  BY <1>1, <1>9 DEF Insert, RoomsAreReal, WritesAreReal
<1>10. CASE Tick
  <2>1. WritesAreReal'
    BY <1>2, <1>10 DEF Tick, RoomsAreReal, WritesAreReal, TypeOK, Never
  <2>2. RoomsAreReal'
    BY <1>10 DEF Tick, RoomsAreReal, WritesAreReal, TypeOK, Exists, Never
  <2> QED BY <2>1, <2>2
<1>11. CASE UNCHANGED <<sessions, room, closedAt, writing, now>> /\ outbox' \subseteq outbox
  BY <1>11 DEF RoomsAreReal, WritesAreReal, Exists
<1>12. ASSUME NEW h \in Handlers, NEW e \in outbox, Ignore(h, e) PROVE outbox' \subseteq outbox
  BY <1>12 DEF Ignore, Acknowledge
<1>13. ASSUME NEW e \in outbox, GiveUp(e) PROVE outbox' \subseteq outbox
  BY <1>13 DEF GiveUp
<1> QED BY <1>3, <1>4, <1>5, <1>6, <1>7, <1>8, <1>9, <1>10, <1>11, <1>12, <1>13 DEF Next, vars,
      AdmitUser, AdmitGuest, RequestFails, DeleteProfile, Ignore, GiveUp

ConversationInv == TypeOK /\ WritesToRows /\ EndsAreReal

LEMMA InitConversation == Init => ConversationInv
BY InitTypes DEF Init, ConversationInv, WritesToRows, EndsAreReal, RoomsAreReal,
       WritesAreReal, Never

LEMMA StepConversation == ConversationInv /\ [Next]_vars => ConversationInv'
BY StepTypes, StepWritesToRows, StepEndsAreReal, TypesSplit DEF ConversationInv

THEOREM ConversationInvariance == Spec => []ConversationInv
BY InitConversation, StepConversation, PTL DEF Spec

\* How a row shows: phase and end of one session, before and after a step.
Shows(s) ==
  /\ sessions[s].status = "absent" => phase[s] = "absent"
  /\ sessions[s].status # "absent" /\ sessions[s].endedAt # Never => phase[s] = "over"
  /\ sessions[s].status = "active" /\ sessions[s].endedAt = Never => phase[s] = "talking"
  /\ sessions[s].status \in {"pending", "ended"} /\ sessions[s].endedAt = Never
       => phase[s] = "minted"

ends == [s \in Sessions |-> sessions[s].endedAt]

LEMMA RowShows == \A s \in Sessions : Shows(s)
BY DEF Shows, phase, Exists

LEMMA RowShowsNext == \A s \in Sessions : Shows(s)'
BY DEF Shows, phase, Exists

\* The row of one session changes, to row; every other row shows what it showed.
LEMMA OneRowShows ==
  ASSUME NEW s \in Sessions, NEW row, sessions \in [Sessions -> Row \cup {Absent}],
         sessions' = [sessions EXCEPT ![s] = row]
  PROVE  /\ phase' = [phase EXCEPT ![s] = phase'[s]]
         /\ ends' = [ends EXCEPT ![s] = row.endedAt]
         /\ sessions'[s] = row
<1>1. \A r \in Sessions : r # s => phase'[r] = phase[r]
  BY DEF phase, Exists
<1>2. phase = [r \in Sessions |-> phase[r]] /\ phase' = [r \in Sessions |-> phase'[r]]
  BY DEF phase
<1> QED BY <1>1, <1>2 DEF ends

LEMMA InsertRefines ==
  ASSUME ConversationInv, NEW q \in Slots, Insert(q)
  PROVE  Promise!Next
<1>1. PICK s \in Sessions, p \in admitted[q] :
        /\ ~Exists(s)
        /\ sessions' = [sessions EXCEPT ![s] =
             [status |-> "pending", profile |-> p, createdAt |-> now, endedAt |-> Never]]
        /\ UNCHANGED <<closedAt, now>>
  BY DEF Insert
<1>2. sessions \in [Sessions -> Row \cup {Absent}]
  BY DEF ConversationInv, TypeOK
<1>3. sessions[s] = Absent
  BY <1>1, <1>2 DEF Exists, Row, Status
<1>4. phase[s] = "absent" /\ phase'[s] = "minted"
  BY <1>1, <1>2, <1>3, RowShows, RowShowsNext, OneRowShows DEF Shows, Absent
<1>5. ends' = ends
  BY <1>1, <1>2, <1>3, OneRowShows DEF ends, Absent
<1>6. phase' = [phase EXCEPT ![s] = "minted"]
  BY <1>1, <1>2, <1>4, OneRowShows
<1>7. Promise!Mint(s)
  BY <1>1, <1>4, <1>5, <1>6 DEF Promise!Mint, ends
<1> QED BY <1>7 DEF Promise!Next

LEMMA ApplyRefines ==
  ASSUME ConversationInv, NEW h \in Handlers, Apply(h)
  PROVE  Promise!Next \/ UNCHANGED Promise!vars
<1>1. PICK w \in writing[h] : updateStatus(w.event.room, w.status, w.endedAt)
  BY DEF Apply
<1> DEFINE s == w.event.room
           row == [sessions[s] EXCEPT !.status = w.status,
                                      !.endedAt = IF w.endedAt = Never THEN @ ELSE w.endedAt]
<1>2. w \in Writes /\ s \in Sessions /\ Exists(s)
  BY DEF ConversationInv, WritesToRows, TypeOK, Writes, Events
<1>3. sessions \in [Sessions -> Row \cup {Absent}] /\ sessions[s] \in Row
  BY <1>2 DEF ConversationInv, TypeOK, Exists, Absent
<1>4. sessions' = [sessions EXCEPT ![s] = row]
  BY <1>1, <1>3 DEF updateStatus, Row
<1>5. row.status = w.status
  BY <1>3 DEF Row
<1>6. row.endedAt = IF w.endedAt = Never THEN sessions[s].endedAt ELSE w.endedAt
  BY <1>3 DEF Row
<1>7. UNCHANGED <<closedAt, now>>
  BY DEF Apply
<1> HIDE DEF row
<1>8. /\ phase' = [phase EXCEPT ![s] = phase'[s]]
      /\ ends' = [ends EXCEPT ![s] = row.endedAt]
      /\ sessions'[s] = row
  BY <1>2, <1>3, <1>4, OneRowShows
<1>9. phase[s] # "absent"
  BY <1>2, <1>3, RowShows DEF Shows, Row, Status
<1> HIDE DEF s
<1>10. CASE w.status = "ended"
  <2>1. /\ closedAt[s] # Never /\ closedAt[s] <= w.endedAt /\ w.endedAt <= now
        /\ w.endedAt \in Nat /\ closedAt[s] \in Nat \cup {Never} /\ now \in Nat
    BY <1>2, <1>10 DEF ConversationInv, EndsAreReal, WritesAreReal, Writes, TypeOK, s
  <2>2. row.endedAt = w.endedAt /\ w.endedAt # Never
    BY <1>6, <2>1 DEF Never
  <2>3. phase'[s] = "over"
    BY <1>2, <1>5, <1>8, <1>10, <2>2, RowShowsNext DEF Shows
  <2>4. w.endedAt \in closedAt[s] .. now
    BY <2>1
  <2>5. Promise!Close(s)
    BY <1>7, <1>8, <1>9, <2>1, <2>2, <2>3, <2>4 DEF Promise!Close, ends
  <2> QED BY <1>2, <2>5 DEF Promise!Next
<1>11. CASE w.status = "active"
  <2>1. row.endedAt = sessions[s].endedAt
    BY <1>2, <1>6, <1>11 DEF Writes
  <2>2. ends' = ends
    BY <1>2, <1>8, <2>1 DEF ends
  <2>3. CASE sessions[s].endedAt # Never
    <3>1. phase[s] = "over" /\ phase'[s] = "over"
      BY <1>2, <1>3, <1>5, <1>8, <1>11, <2>1, <2>3, RowShows, RowShowsNext DEF Shows, Row, Status
    <3> QED BY <1>7, <1>8, <2>2, <3>1 DEF Promise!vars, ends, phase
  <2>4. CASE sessions[s].endedAt = Never /\ sessions[s].status = "active"
    <3>1. phase[s] = "talking" /\ phase'[s] = "talking"
      BY <1>2, <1>3, <1>5, <1>8, <1>11, <2>1, <2>4, RowShows, RowShowsNext DEF Shows
    <3> QED BY <1>7, <1>8, <2>2, <3>1 DEF Promise!vars, ends, phase
  <2>5. CASE sessions[s].endedAt = Never /\ sessions[s].status # "active"
    <3>1. phase[s] = "minted" /\ phase'[s] = "talking"
      BY <1>2, <1>3, <1>5, <1>8, <1>11, <2>1, <2>5, RowShows, RowShowsNext DEF Shows, Row, Status
    <3>2. Promise!Talk(s)
      BY <1>7, <1>8, <2>2, <3>1 DEF Promise!Talk, ends
    <3> QED BY <1>2, <3>2 DEF Promise!Next
  <2> QED BY <2>3, <2>4, <2>5
<1> QED BY <1>2, <1>10, <1>11 DEF Writes

LEMMA RoomFinishesRefines ==
  ASSUME ConversationInv, NEW s \in Sessions, RoomFinishes(s)
  PROVE  Promise!Next \/ UNCHANGED Promise!vars
<1>1. UNCHANGED <<phase, ends, now>>
  BY DEF RoomFinishes, phase, ends, Exists
<1>2. CASE closedAt[s] # Never
  <2>1. closedAt' = closedAt
    BY <1>2 DEF RoomFinishes, ConversationInv, TypeOK
  <2> QED BY <1>1, <2>1 DEF Promise!vars, ends
<1>3. CASE closedAt[s] = Never
  <2>1. closedAt' = [closedAt EXCEPT ![s] = now]
    BY <1>3 DEF RoomFinishes
  <2>2. sessions[s].status # "absent" /\ sessions[s] \in Row
    BY DEF RoomFinishes, ConversationInv, EndsAreReal, RoomsAreReal, Exists, TypeOK, Absent
  <2>3. phase[s] # "absent"
    BY <2>2, RowShows DEF Shows, Row, Status
  <2>4. Promise!RoomFinishes(s)
    BY <1>1, <1>3, <2>1, <2>3 DEF Promise!RoomFinishes, ends
  <2> QED BY <2>4 DEF Promise!Next
<1> QED BY <1>2, <1>3

LEMMA StepRefines == ConversationInv /\ [Next]_vars => [Promise!Next]_(Promise!vars)
<1> SUFFICES ASSUME ConversationInv, [Next]_vars
             PROVE  Promise!Next \/ UNCHANGED Promise!vars
  OBVIOUS
<1>1. CASE UNCHANGED <<sessions, closedAt, now>>
  BY <1>1 DEF Promise!vars, phase, Exists
<1>2. CASE Tick
  BY <1>2 DEF Tick, Promise!Next, Promise!Tick, phase, Exists
<1> QED BY <1>1, <1>2, InsertRefines, ApplyRefines, RoomFinishesRefines DEF Next, vars,
      AdmitUser, AdmitGuest, RequestFails, DeleteProfile, Ignore, Decide, HandlerFails,
      VisitorJoins, OtherJoins, GiveUp

\* The collection, its webhooks and its crashes implement a conversation whose
\* phase only moves forward and whose end lies between its room's end and now.
THEOREM Refinement == Spec => ImplementsConversation
<1>1. Init => Promise!Init
  BY DEF Init, Promise!Init, phase, Exists, Absent
<1> QED BY <1>1, StepRefines, ConversationInvariance, PTL
      DEF Spec, ImplementsConversation, Promise!Spec
=============================================================================
