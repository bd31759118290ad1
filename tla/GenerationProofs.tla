--------------------------- MODULE GenerationProofs ---------------------------
(***************************************************************************)
(* Theorems about Generation and Draft: for any sections, caps, answers,   *)
(* budget, timeouts and numbers of attempts.                               *)
(***************************************************************************)
EXTENDS Generation, Ranks

\* The sections are no other calls.
LEMMA CallsAreApart == "brief" \notin Planable /\ "warm" \notin Planable /\ Planable \subseteq Calls
BY GenerationAssumption DEF GENERATED_SECTIONS, ListSections, ObjectSections, Calls

\* Which calls are under way in which phase: one at a time until the fan-out, and
\* none once there is an answer.
Quiet == \A c \in Calls : ~Open(c)

OneAtATime ==
  /\ phase = "idle" => \A c \in Calls : calls[c].state = "unsent"
  /\ phase = "brief" =>
       /\ calls["brief"].state # "unsent"
       /\ \A c \in Calls \ {"brief"} : calls[c].state = "unsent"
  /\ phase = "warm" =>
       /\ calls["warm"].state # "unsent"
       /\ ~Open("brief")
       /\ \A s \in Planable : calls[s].state = "unsent"
  /\ phase = "fanOut" =>
       /\ ~Open("brief") /\ ~Open("warm")
       /\ \A s \in Planable : s \in DOMAIN results <=> calls[s].state # "unsent"
  /\ phase = "done" => Quiet

\* A draft is assembled from what came back.
Assembled ==
  \A r \in response : r.status = "OK" =>
    /\ r.body = assembleDraft(results)
    /\ \A s \in Planable : s \in DOMAIN results <=> calls[s].state # "unsent"
    /\ \A s \in DOMAIN results : calls[s].state # "answered" => results[s] = Nothing

GenerationInv == TypeOK /\ AnswersInTime /\ OneAtATime /\ Assembled

-----------------------------------------------------------------------------

LEMMA InitInv == Init => GenerationInv
<1> SUFFICES ASSUME Init PROVE GenerationInv
  OBVIOUS
<1>1. \A c \in Calls : calls[c] = Unsent
  BY DEF Init
<1>2. calls \in [Calls -> Call]
  BY GenerationAssumption, <1>1 DEF Init, Call, Unsent
<1>3. TypeOK
  <2>1. DOMAIN results = {}
    BY DEF Init
  <2> QED BY <1>2, <2>1 DEF Init, TypeOK
<1>4. AnswersInTime
  BY GenerationAssumption DEF Init, AnswersInTime
<1>5. OneAtATime /\ Assembled
  BY <1>1 DEF Init, OneAtATime, Assembled, Unsent
<1> QED BY <1>3, <1>4, <1>5 DEF GenerationInv

-----------------------------------------------------------------------------
(* The steps of a call: it is open, and changes alone.                      *)

CallStep(c) ==
  /\ Open(c)
  /\ \E v \in Call : v.state # "unsent" /\ calls' = [calls EXCEPT ![c] = v]
  /\ UNCHANGED <<settings, phase, now, results, response>>

LEMMA CallSteps ==
  ASSUME TypeOK, NEW c \in Calls,
         Answered(c) \/ Fails(c) \/ Retries(c) \/ AttemptTimesOut(c) \/ Abort(c)
  PROVE  CallStep(c)
<1> USE DEF CallStep
<1>1. ASSUME NEW state \in {"answered", "timeout", "error"}, Becomes(c, state)
      PROVE  \E v \in Call : v.state # "unsent" /\ calls' = [calls EXCEPT ![c] = v]
  <2> DEFINE v == [state |-> state, since |-> 0, attempts |-> 0]
  <2>1. v \in Call
    BY GenerationAssumption DEF Call
  <2> QED BY <1>1, <2>1 DEF Becomes
<1>2. ASSUME calls[c].attempts < MaxAttempts, Again(c)
      PROVE  \E v \in Call : v.state # "unsent" /\ calls' = [calls EXCEPT ![c] = v]
  <2> DEFINE v == [state |-> "open", since |-> now, attempts |-> calls[c].attempts + 1]
  <2>1. calls[c] \in Call /\ now \in Nat
    BY DEF TypeOK
  <2>2. v \in Call
    BY GenerationAssumption, <1>2, <2>1 DEF Call
  <2> QED BY <1>2, <2>2 DEF Again
<1>3. CASE Answered(c)
  BY <1>1, <1>3 DEF Answered
<1>4. CASE Fails(c)
  BY <1>1, <1>4 DEF Fails
<1>5. CASE Retries(c)
  BY <1>2, <1>5 DEF Retries
<1>6. CASE AttemptTimesOut(c)
  BY <1>1, <1>2, <1>6 DEF AttemptTimesOut, AttemptDue
<1>7. CASE Abort(c)
  BY <1>1, <1>7 DEF Abort, AbortDue
<1> QED BY <1>3, <1>4, <1>5, <1>6, <1>7

LEMMA CallKeeps ==
  ASSUME GenerationInv, NEW c \in Calls, CallStep(c)
  PROVE  GenerationInv'
<1>1. PICK v \in Call : v.state # "unsent" /\ calls' = [calls EXCEPT ![c] = v]
  BY DEF CallStep
<1>2. UNCHANGED <<settings, phase, now, results, response>> /\ Open(c)
  BY DEF CallStep
<1>3. /\ calls \in [Calls -> Call]
      /\ calls' \in [Calls -> Call]
      /\ calls'[c] = v
      /\ \A d \in Calls \ {c} : calls'[d] = calls[d]
  BY <1>1 DEF GenerationInv, TypeOK
<1>4. TypeOK' /\ AnswersInTime'
  BY <1>2, <1>3 DEF GenerationInv, TypeOK, AnswersInTime
<1>5. phase # "done" /\ phase # "idle"
  BY <1>2 DEF GenerationInv, OneAtATime, Quiet, Open
<1>6. Assembled'
  <2>1. response = {}
    BY <1>5 DEF GenerationInv, TypeOK
  <2> QED BY <1>2, <2>1 DEF Assembled
<1>7. OneAtATime'
  <2>1. CASE phase = "brief"
    <3>1. c = "brief"
      BY <1>2, <2>1 DEF GenerationInv, OneAtATime, Open
    <3> QED BY <1>1, <1>2, <1>3, <2>1, <3>1 DEF GenerationInv, OneAtATime
  <2>2. CASE phase = "warm"
    <3>1. c = "warm"
      BY <1>2, <2>2 DEF GenerationInv, OneAtATime, Open, Calls
    <3>2. \A s \in Planable : s # c /\ s \in Calls
      BY <3>1, CallsAreApart
    <3>3. "brief" \in Calls /\ "brief" # c
      BY <3>1 DEF Calls
    <3> QED BY <1>1, <1>2, <1>3, <2>2, <3>1, <3>2, <3>3 DEF GenerationInv, OneAtATime, Open
  <2>3. CASE phase = "fanOut"
    <3>1. c # "brief" /\ c # "warm" /\ "brief" \in Calls /\ "warm" \in Calls
      BY <1>2, <2>3 DEF GenerationInv, OneAtATime, Calls
    <3>2. \A s \in Planable : calls'[s].state # "unsent" <=> calls[s].state # "unsent"
      BY <1>1, <1>2, <1>3, CallsAreApart DEF Open
    <3> QED BY <1>2, <1>3, <2>3, <3>1, <3>2 DEF GenerationInv, OneAtATime, Open
  <2> QED BY <1>2, <1>5, <2>1, <2>2, <2>3 DEF GenerationInv, TypeOK
<1> QED BY <1>4, <1>6, <1>7 DEF GenerationInv

-----------------------------------------------------------------------------
(* The steps of the request.                                                *)

LEMMA BegunIsCall == ASSUME TypeOK PROVE Begun \in Call /\ Begun.state = "open"
BY GenerationAssumption DEF Begun, Call, TypeOK

LEMMA RespondKeeps ==
  ASSUME GenerationInv, Quiet, phase \in {"idle", "brief"},
         NEW status \in {"GENERATION_TIMEOUT", "GENERATION_FAILED"}, Respond(status)
  PROVE  GenerationInv'
BY DEF GenerationInv, TypeOK, AnswersInTime, OneAtATime, Assembled, Quiet, Open, Respond

LEMMA GenerateKeeps ==
  ASSUME GenerationInv, Generate
  PROVE  GenerationInv'
<1>1. phase = "idle" /\ \A c \in Calls : calls[c].state = "unsent"
  BY DEF Generate, GenerationInv, OneAtATime
<1>2. CASE settings = "none"
  <2>1. Quiet /\ Respond("GENERATION_FAILED")
    BY <1>1, <1>2 DEF Generate, Quiet, Open
  <2> QED BY <1>1, <2>1, RespondKeeps
<1>3. CASE settings # "none"
  <2>1. /\ phase' = "brief"
        /\ calls' = [calls EXCEPT !["brief"] = Begun]
        /\ UNCHANGED <<settings, now, results, response>>
    BY <1>3 DEF Generate
  <2>2. calls' \in [Calls -> Call]
    BY <2>1, BegunIsCall DEF GenerationInv, TypeOK
  <2>3. TypeOK' /\ AnswersInTime' /\ Assembled'
    BY <1>1, <2>1, <2>2 DEF GenerationInv, TypeOK, AnswersInTime, Assembled
  <2>4. calls'["brief"].state = "open" /\ \A c \in Calls \ {"brief"} : calls'[c].state = "unsent"
    BY <1>1, <2>1, BegunIsCall DEF GenerationInv, TypeOK, Calls
  <2>5. OneAtATime'
    BY <2>1, <2>4 DEF OneAtATime
  <2> QED BY <2>3, <2>5 DEF GenerationInv
<1> QED BY <1>2, <1>3

LEMMA FanOutKeeps ==
  ASSUME GenerationInv, phase \in {"brief", "warm"}, ~Open("brief"), ~Open("warm"),
         \A s \in Planable : calls[s].state = "unsent",
         NEW planned \in SUBSET Planable, FanOut(planned),
         DOMAIN results' = planned,
         \A s \in planned : results'[s] = Nothing \/ \E a \in Answers : results'[s] = a[s]
  PROVE  GenerationInv'
<1>1. /\ phase' = "fanOut"
      /\ calls' = [c \in Calls |-> IF c \in planned THEN Begun ELSE calls[c]]
      /\ UNCHANGED <<settings, now, response>>
  BY DEF FanOut
<1>2. calls' \in [Calls -> Call]
  BY <1>1, BegunIsCall DEF GenerationInv, TypeOK
<1>3. response = {}
  BY DEF GenerationInv, TypeOK
<1>4. TypeOK' /\ AnswersInTime' /\ Assembled'
  BY <1>1, <1>2, <1>3 DEF GenerationInv, TypeOK, AnswersInTime, Assembled
<1>5. \A s \in Planable : s \in planned <=> calls'[s].state # "unsent"
  BY <1>1, BegunIsCall, CallsAreApart DEF GenerationInv
<1>6. calls'["brief"] = calls["brief"] /\ calls'["warm"] = calls["warm"]
  BY <1>1, CallsAreApart DEF Calls
<1>7. OneAtATime'
  BY <1>1, <1>5, <1>6 DEF OneAtATime, Open
<1> QED BY <1>4, <1>7 DEF GenerationInv

LEMMA BriefSettlesKeeps ==
  ASSUME GenerationInv, BriefSettles
  PROVE  GenerationInv'
<1>1. /\ phase = "brief" /\ calls["brief"].state \notin {"unsent", "open"}
      /\ \A c \in Calls \ {"brief"} : calls[c].state = "unsent"
  BY DEF BriefSettles, Settled, GenerationInv, OneAtATime
<1>2. Quiet /\ ~Open("warm") /\ \A s \in Planable : calls[s].state = "unsent"
  BY <1>1, CallsAreApart DEF Quiet, Open, Calls
<1>3. CASE Respond("GENERATION_TIMEOUT") \/ Respond("GENERATION_FAILED")
  BY <1>1, <1>2, <1>3, RespondKeeps
<1>4. ASSUME NEW planned \in SUBSET Planable,
             results' = [s \in planned |-> Nothing], FanOut(planned)
      PROVE  GenerationInv'
  <2>1. DOMAIN results' = planned /\ \A s \in planned : results'[s] = Nothing
    BY <1>4
  <2>2. ~Open("brief")
    BY <1>1 DEF Open
  <2> QED BY <1>1, <1>2, <1>4, <2>1, <2>2, FanOutKeeps
<1>5. ASSUME NEW planned \in SUBSET Planable,
             results' = [s \in planned |-> Nothing],
             phase' = "warm", calls' = [calls EXCEPT !["warm"] = Begun],
             UNCHANGED <<settings, now, response>>
      PROVE  GenerationInv'
  <2>1. DOMAIN results' = planned /\ \A s \in planned : results'[s] = Nothing
    BY <1>5
  <2>2. calls' \in [Calls -> Call]
    BY <1>5, BegunIsCall DEF GenerationInv, TypeOK
  <2>3. response = {}
    BY <1>1 DEF GenerationInv, TypeOK
  <2>4. TypeOK' /\ AnswersInTime' /\ Assembled'
    BY <1>5, <2>1, <2>2, <2>3 DEF GenerationInv, TypeOK, AnswersInTime, Assembled
  <2>5. calls'["warm"].state = "open" /\ calls'["brief"] = calls["brief"]
    BY <1>5, BegunIsCall DEF GenerationInv, TypeOK, Calls
  <2>6. \A s \in Planable : calls'[s] = calls[s]
    BY <1>5, CallsAreApart DEF GenerationInv, TypeOK
  <2>7. OneAtATime'
    BY <1>1, <1>2, <1>5, <2>5, <2>6 DEF OneAtATime, Open
  <2> QED BY <2>4, <2>7 DEF GenerationInv
<1> QED BY <1>3, <1>4, <1>5 DEF BriefSettles

LEMMA WarmSettlesKeeps ==
  ASSUME GenerationInv, WarmSettles
  PROVE  GenerationInv'
<1>1. /\ phase = "warm" /\ ~Open("warm") /\ FanOut(DOMAIN results) /\ results' = results
      /\ ~Open("brief") /\ \A s \in Planable : calls[s].state = "unsent"
  BY DEF WarmSettles, Settled, GenerationInv, OneAtATime, Open
<1>2. DOMAIN results \subseteq Planable /\ DOMAIN results' = DOMAIN results
  BY <1>1 DEF GenerationInv, TypeOK
<1>3. \A s \in DOMAIN results :
        results'[s] = Nothing \/ \E a \in Answers : results'[s] = a[s]
  BY <1>1 DEF GenerationInv, TypeOK
<1> QED BY <1>1, <1>2, <1>3, FanOutKeeps

LEMMA SectionsSettleKeeps ==
  ASSUME GenerationInv, SectionsSettle
  PROVE  GenerationInv'
<1>1. PICK answers \in Answers :
        results' = [s \in DOMAIN results |->
                      IF calls[s].state = "answered" THEN answers[s] ELSE Nothing]
  BY DEF SectionsSettle
<1>2. /\ phase = "fanOut" /\ phase' = "done" /\ UNCHANGED <<settings, now, calls>>
      /\ response' = {[status |-> "OK", body |-> assembleDraft(results')]}
      /\ \A s \in DOMAIN results : calls[s].state \notin {"unsent", "open"}
  BY DEF SectionsSettle, Settled
<1>3. /\ DOMAIN results' = DOMAIN results
      /\ \A s \in DOMAIN results : results'[s] = Nothing \/ results'[s] = answers[s]
      /\ \A s \in DOMAIN results : calls[s].state # "answered" => results'[s] = Nothing
  BY <1>1
<1>4. TypeOK' /\ AnswersInTime'
  <2>1. \A s \in DOMAIN results' :
          results'[s] = Nothing \/ \E a \in Answers : results'[s] = a[s]
    BY <1>3
  <2>2. \A r \in response' : r.status = "OK"
    BY <1>2
  <2>3. response' # {}
    BY <1>2
  <2> QED BY <1>2, <1>3, <2>1, <2>2, <2>3 DEF GenerationInv, TypeOK, AnswersInTime
<1>5. \A s \in Planable : s \in DOMAIN results' <=> calls'[s].state # "unsent"
  BY <1>2, <1>3 DEF GenerationInv, OneAtATime
<1>6. \A r \in response' : r.status = "OK" /\ r.body = assembleDraft(results')
  BY <1>2
<1>7. Assembled'
  BY <1>2, <1>3, <1>5, <1>6 DEF Assembled
<1>8. Quiet'
  <2>1. ASSUME NEW c \in Calls, Open(c) PROVE FALSE
    <3>1. c \in Planable
      BY <1>2, <2>1 DEF GenerationInv, OneAtATime, Calls
    <3> QED BY <1>2, <2>1, <3>1 DEF GenerationInv, OneAtATime, Open
  <2> QED BY <1>2, <2>1 DEF Quiet, Open
<1> QED BY <1>2, <1>4, <1>7, <1>8 DEF GenerationInv, OneAtATime

\* The clock does not pass the budget: until there is an answer, either code is due or
\* a call is open, and every call has the deadline's signal.
LEMMA TickKeeps ==
  ASSUME GenerationInv, Tick
  PROVE  GenerationInv'
<1>1. /\ phase \in {"brief", "warm", "fanOut"} /\ ~CodeRuns
      /\ \A c \in Calls : ~AbortDue(c)
      /\ now' = now + 1 /\ UNCHANGED <<settings, phase, calls, results, response>>
  BY DEF Tick, GenerationInv, TypeOK
<1>2. \E c \in Calls : Open(c)
  <2>1. CASE phase = "brief"
    BY <1>1, <2>1 DEF GenerationInv, OneAtATime, CodeRuns, Settled, Open, Calls
  <2>2. CASE phase = "warm"
    BY <1>1, <2>2 DEF GenerationInv, OneAtATime, CodeRuns, Settled, Open, Calls
  <2>3. CASE phase = "fanOut"
    <3>1. PICK s \in DOMAIN results : ~Settled(s)
      BY <1>1, <2>3 DEF CodeRuns
    <3>2. s \in Planable
      BY DEF GenerationInv, TypeOK
    <3> QED BY <2>3, <3>1, <3>2, CallsAreApart DEF GenerationInv, OneAtATime, Settled, Open
  <2> QED BY <1>1, <2>1, <2>2, <2>3
<1>3. now < BUDGET
  BY <1>1, <1>2, GenerationAssumption DEF AbortDue, Signalled, GenerationInv, TypeOK
<1>4. TypeOK' /\ AnswersInTime'
  BY <1>1, <1>3, GenerationAssumption DEF GenerationInv, TypeOK, AnswersInTime
<1>5. OneAtATime' /\ Assembled'
  BY <1>1 DEF GenerationInv, OneAtATime, Assembled, Quiet, Open
<1> QED BY <1>4, <1>5 DEF GenerationInv

LEMMA StepKeeps ==
  ASSUME GenerationInv, [Next]_vars
  PROVE  GenerationInv'
<1>1. CASE UNCHANGED vars
  BY <1>1 DEF vars, GenerationInv, TypeOK, AnswersInTime, OneAtATime, Assembled, Quiet, Open
<1>2. ASSUME NEW c \in Calls,
             Answered(c) \/ Fails(c) \/ Retries(c) \/ AttemptTimesOut(c) \/ Abort(c)
      PROVE  GenerationInv'
  BY <1>2, CallSteps, CallKeeps DEF GenerationInv
<1> QED BY <1>1, <1>2, GenerateKeeps, BriefSettlesKeeps, WarmSettlesKeeps,
           SectionsSettleKeeps, TickKeeps DEF Next

LEMMA Inductive == Spec => []GenerationInv
<1> QED BY InitInv, StepKeeps, PTL DEF Spec

-----------------------------------------------------------------------------

\* Types, of every call and of what came back.
THEOREM TypeCorrect == Spec => []TypeOK
<1>1. GenerationInv => TypeOK
  BY DEF GenerationInv
<1> QED BY <1>1, Inductive, PTL

\* No request outlasts the budget, whatever the provider does, for any budget,
\* timeout and number of attempts.
THEOREM NoRequestOutlastsTheBudget == Spec => []AnswersInTime
<1>1. GenerationInv => AnswersInTime
  BY DEF GenerationInv
<1> QED BY <1>1, Inductive, PTL

-----------------------------------------------------------------------------
(* What is assembled, section by section.                                   *)

LEMMA StatusSaysWhatCameBack ==
  ASSUME NEW results0, NEW s
  PROVE  /\ StatusOf(results0, s) = "failed" <=>
              s \in DOMAIN results0 /\ results0[s].form # "entries"
         /\ s \in DOMAIN results0 /\ InDraft(s, results0[s]) # {} =>
              StatusOf(results0, s) = "generated"
<1>1. ASSUME s \in DOMAIN results0, InDraft(s, results0[s]) # {}
      PROVE  results0[s].form = "entries" /\ Survivors(s, results0[s]) # {}
  BY <1>1 DEF InDraft, Survivors
<1> QED BY <1>1 DEF StatusOf

Alarm == {"SECTION_FAILED", "PARSE_FAILED"}

\* No complaint about an entry is an alarm about a section.
LEMMA ComplaintsAreNoAlarm ==
  ASSUME NEW s, NEW e \in RawEntry, e.shape # "junk", ~Usable(s, e)
  PROVE  Complaint(s, e) \notin Alarm
<1>1. CASE e.shape = "invalid"
  BY <1>1 DEF Complaint, Alarm
<1>2. CASE e.shape = "valid" /\ e.link = "invented"
  BY <1>2 DEF Complaint, Alarm
<1>3. CASE e.shape = "valid" /\ e.link # "invented"
  <2>1. s \in DOMAIN GroundCode
    BY <1>3 DEF Usable, Grounded
  <2>2. Complaint(s, e) = GroundCode[s]
    BY <1>3 DEF Complaint
  <2>3. GroundCode[s] \in {"UNDATED_WORK", "UNGROUNDED_METRIC", "UNGROUNDED_QUOTE"}
    BY <2>1 DEF GroundCode
  <2> QED BY <2>2, <2>3 DEF Alarm
<1> QED BY <1>1, <1>2, <1>3 DEF RawEntry

\* An alarm is raised about a section exactly when nothing readable came back.
LEMMA AlarmsAreOfFailures ==
  ASSUME NEW s, NEW a \in Answer
  PROVE  /\ \A w \in WarningsOf(s, a) : w.section = s
         /\ a.form # "entries" <=> \E w \in WarningsOf(s, a) : w.code \in Alarm
<1>1. CASE a.form = "nothing"
  <2>1. WarningsOf(s, a) = {Warning(s, "SECTION_FAILED", 0)}
    BY <1>1 DEF WarningsOf
  <2> QED BY <1>1, <2>1 DEF Warning, Alarm
<1>2. CASE a.form = "shapeless"
  <2>1. WarningsOf(s, a) = {Warning(s, "PARSE_FAILED", 0)}
    BY <1>2 DEF WarningsOf
  <2> QED BY <1>2, <2>1 DEF Warning, Alarm
<1>3. CASE a.form = "entries"
  <2>1. a.entries \in Seq(RawEntry)
    BY DEF Answer
  <2>2. ASSUME NEW w \in WarningsOf(s, a)
        PROVE  w.section = s /\ w.code \notin Alarm
    <3>1. \/ \E i \in DOMAIN a.entries :
               /\ a.entries[i].shape # "junk" /\ ~Usable(s, a.entries[i])
               /\ w = Warning(s, Complaint(s, a.entries[i]), i)
          \/ \E i \in DOMAIN a.entries : w = Warning(s, "DUPLICATE", i)
          \/ w = Warning(s, "CAPPED", 0)
      BY <1>3, <2>2 DEF WarningsOf
    <3>2. \A i \in DOMAIN a.entries : a.entries[i] \in RawEntry
      BY <2>1
    <3>3. \A i \in DOMAIN a.entries :
            a.entries[i].shape # "junk" /\ ~Usable(s, a.entries[i]) =>
              Complaint(s, a.entries[i]) \notin Alarm
      BY <3>2, ComplaintsAreNoAlarm
    <3> QED BY <3>1, <3>3 DEF Warning, Alarm
  <2> QED BY <1>3, <2>2
<1> QED BY <1>1, <1>2, <1>3 DEF Answer

\* What came back is an answer.
LEMMA ResultsAreAnswers ==
  ASSUME GenerationInv
  PROVE  /\ DOMAIN results \subseteq Planable /\ Planable \subseteq GENERATED_SECTIONS
         /\ \A s \in DOMAIN results : results[s] \in Answer
<1>1. Nothing \in Answer
  BY DEF Nothing, Answer
<1>2. ASSUME NEW s \in DOMAIN results PROVE results[s] \in Answer
  BY <1>1, <1>2, GenerationAssumption DEF GenerationInv, TypeOK
<1> QED BY <1>2, GenerationAssumption DEF GenerationInv, TypeOK

\* A section is failed, and is said to be, exactly when nothing readable came back to
\* its own call.
THEOREM OneSectionFailsAlone == Spec => []SectionsAreIsolated
<1>1. ASSUME GenerationInv PROVE SectionsAreIsolated
  <2> SUFFICES ASSUME NEW r \in response, r.status = "OK", NEW s \in GENERATED_SECTIONS
      PROVE  /\ s \notin DOMAIN results <=> s \notin Planable \/ calls[s].state = "unsent"
             /\ r.body.sections[s] = "failed" <=>
                  s \in DOMAIN results /\ (calls[s].state # "answered" \/ results[s].form # "entries")
             /\ r.body.sections[s] = "failed" <=>
                  \E w \in r.body.warnings :
                    w.section = s /\ w.code \in {"SECTION_FAILED", "PARSE_FAILED"}
             /\ s \in DOMAIN r.body.draft => r.body.sections[s] = "generated"
    BY DEF SectionsAreIsolated
  <2>1. /\ r.body = assembleDraft(results)
        /\ \A t \in Planable : t \in DOMAIN results <=> calls[t].state # "unsent"
        /\ \A t \in DOMAIN results : calls[t].state # "answered" => results[t] = Nothing
    BY <1>1 DEF GenerationInv, Assembled
  <2>2. /\ r.body.sections[s] = StatusOf(results, s)
        /\ s \in DOMAIN r.body.draft => s \in DOMAIN results /\ InDraft(s, results[s]) # {}
        /\ r.body.warnings = UNION {WarningsOf(t, results[t]) : t \in DOMAIN results}
    BY <2>1 DEF assembleDraft
  <2>3. DOMAIN results \subseteq Planable /\ \A t \in DOMAIN results : results[t] \in Answer
    BY <1>1, ResultsAreAnswers
  <2>4. r.body.sections[s] = "failed" <=> s \in DOMAIN results /\ results[s].form # "entries"
    BY <2>2, StatusSaysWhatCameBack
  <2>5. s \in DOMAIN results /\ calls[s].state # "answered" => results[s].form # "entries"
    BY <2>1 DEF Nothing
  <2>6. (\E w \in r.body.warnings : w.section = s /\ w.code \in Alarm) <=>
          s \in DOMAIN results /\ results[s].form # "entries"
    <3>1. ASSUME NEW w \in r.body.warnings, w.section = s, w.code \in Alarm
          PROVE  s \in DOMAIN results /\ results[s].form # "entries"
      <4>1. PICK t \in DOMAIN results : w \in WarningsOf(t, results[t])
        BY <2>2
      <4>2. t = s /\ results[t].form # "entries"
        BY <2>3, <3>1, <4>1, AlarmsAreOfFailures
      <4> QED BY <4>2
    <3>2. ASSUME s \in DOMAIN results, results[s].form # "entries"
          PROVE  \E w \in r.body.warnings : w.section = s /\ w.code \in Alarm
      <4>1. PICK w \in WarningsOf(s, results[s]) : w.section = s /\ w.code \in Alarm
        BY <2>3, <3>2, AlarmsAreOfFailures
      <4> QED BY <2>2, <3>2, <4>1
    <3> QED BY <3>1, <3>2
  <2>7. s \in DOMAIN r.body.draft => r.body.sections[s] = "generated"
    BY <2>2, StatusSaysWhatCameBack
  <2>8. s \notin DOMAIN results <=> s \notin Planable \/ calls[s].state = "unsent"
    BY <2>1, <2>3
  <2> QED BY <2>4, <2>5, <2>6, <2>7, <2>8 DEF Alarm
<1> QED BY <1>1, Inductive, PTL

-----------------------------------------------------------------------------
(* The cap.                                                                 *)

\* The first n of a set are all of it, or n.
LEMMA FirstIsFull ==
  ASSUME NEW n \in Nat, NEW P \in SUBSET Nat, IsFiniteSet(P)
  PROVE  /\ First(n, P) \subseteq P /\ IsFiniteSet(First(n, P))
         /\ Cardinality(First(n, P)) = IF Cardinality(P) < n THEN Cardinality(P) ELSE n
<1> DEFINE F == First(n, P)
           rank == [i \in P |-> Cardinality(Below(P, i))]
           numbering == [i \in F |-> rank[i]]
           m == Cardinality(P)
<1>1. m \in Nat /\ rank \in Bijection(P, 0 .. m - 1)
  BY RanksAreDistinct
<1>2. F \subseteq P /\ \A i \in P : i \in F <=> rank[i] < n
  BY DEF First, Below
<1>3. IsFiniteSet(F)
  BY <1>2, FS_Subset
<1> HIDE DEF rank, F, m
<1>4. /\ \A i, k \in P : rank[i] = rank[k] => i = k
      /\ \A i \in P : rank[i] \in 0 .. m - 1
      /\ \A v \in 0 .. m - 1 : \E i \in P : rank[i] = v
  BY <1>1 DEF Bijection, Injection, IsInjective, Surjection
<1>5. CASE m < n
  <2>1. ASSUME NEW i \in P PROVE rank[i] < n
    <3>1. rank[i] \in 0 .. m - 1
      BY <1>4
    <3> QED BY <1>1, <1>5, <3>1
  <2>2. F = P
    BY <1>2, <2>1
  <2> QED BY <1>3, <1>5, <2>2 DEF F, m
<1>6. CASE ~(m < n)
  <2>1. numbering \in [F -> 0 .. n - 1] /\ \A i, k \in F : numbering[i] = numbering[k] => i = k
    BY <1>1, <1>2, <1>4
  <2>2. ASSUME NEW v \in 0 .. n - 1 PROVE \E i \in F : numbering[i] = v
    <3>1. v \in 0 .. m - 1 /\ v < n
      BY <1>1, <1>6
    <3>2. PICK i \in P : rank[i] = v
      BY <1>4, <3>1
    <3> QED BY <1>2, <3>1, <3>2
  <2> HIDE DEF numbering
  <2>3. numbering \in Injection(F, 0 .. n - 1) /\ numbering \in Surjection(F, 0 .. n - 1)
    BY <2>1, <2>2 DEF Injection, IsInjective, Surjection
  <2>4. IsFiniteSet(0 .. n - 1) /\ Cardinality(0 .. n - 1) = n
    BY NumbersBelow
  <2>5. Cardinality(F) = n
    BY <2>3, <2>4, FS_Injection
  <2> QED BY <1>2, <1>3, <1>6, <2>5 DEF F, m
<1> QED BY <1>5, <1>6

-----------------------------------------------------------------------------
(* Lists.                                                                   *)

UsableAt(s, entries) == {i \in DOMAIN entries : Usable(s, entries[i])}

\* The entries kept are the first of each name.
LEMMA KeptOncePerName ==
  ASSUME NEW s, NEW entries \in Seq(RawEntry)
  PROVE  /\ Kept(s, entries) \subseteq UsableAt(s, entries)
         /\ DOMAIN entries \subseteq Nat \ {0} /\ IsFiniteSet(Kept(s, entries))
         /\ \A i, k \in Kept(s, entries) : entries[i].name = entries[k].name => i = k
         /\ \A i \in UsableAt(s, entries) :
              \E k \in Kept(s, entries) : entries[k].name = entries[i].name
<1>1. DOMAIN entries = 1 .. Len(entries) /\ Len(entries) \in Nat
  OBVIOUS
<1>2. IsFiniteSet(DOMAIN entries) /\ DOMAIN entries \subseteq Nat \ {0}
  <2>1. Len(entries) \in Int /\ 1 \in Int
    BY <1>1
  <2>2. IsFiniteSet(1 .. Len(entries))
    BY <2>1, FS_Interval
  <2> QED BY <1>1, <2>2
<1>3. Kept(s, entries) \subseteq UsableAt(s, entries) /\ UsableAt(s, entries) \subseteq DOMAIN entries
  BY DEF Kept, UsableAt
<1>4. IsFiniteSet(Kept(s, entries))
  BY <1>2, <1>3, FS_Subset
<1>5. ASSUME NEW i \in Kept(s, entries), NEW k \in Kept(s, entries),
             entries[i].name = entries[k].name, i < k
      PROVE  FALSE
  <2>1. i \in 1 .. k - 1 /\ Usable(s, entries[i]) /\ ~Repeats(s, entries, k)
    BY <1>1, <1>5 DEF Kept
  <2> QED BY <1>5, <2>1 DEF Repeats
<1>6. \A i, k \in Kept(s, entries) : entries[i].name = entries[k].name => i = k
  <2>1. \A i, k \in Kept(s, entries) : i = k \/ i < k \/ k < i
    BY <1>2, <1>3
  <2> QED BY <1>5, <2>1
<1>7. ASSUME NEW i \in UsableAt(s, entries)
      PROVE  \E k \in Kept(s, entries) : entries[k].name = entries[i].name
  <2> DEFINE same == {j \in UsableAt(s, entries) : entries[j].name = entries[i].name}
  <2>1. i \in same /\ same \subseteq DOMAIN entries
    BY <1>3, <1>7
  <2>2. \A j \in same : entries[j].name = entries[i].name /\ Usable(s, entries[j])
    BY DEF UsableAt
  <2>3. \A j \in DOMAIN entries :
          Usable(s, entries[j]) /\ entries[j].name = entries[i].name => j \in same
    BY DEF UsableAt
  <2> HIDE DEF same
  <2>4. IsFiniteSet(same) /\ same \in SUBSET Nat
    BY <1>2, <2>1, FS_Subset
  <2>5. PICK k \in same : \A j \in same : ~(j < k)
    BY <2>1, <2>4, LeastExists
  <2>6. k \in DOMAIN entries /\ \A j \in 1 .. k - 1 : j \in DOMAIN entries /\ j < k
    BY <1>1, <2>1
  <2>7. ~Repeats(s, entries, k)
    BY <2>2, <2>3, <2>5, <2>6 DEF Repeats
  <2> QED BY <2>2, <2>6, <2>7 DEF Kept
<1> QED BY <1>2, <1>3, <1>4, <1>6, <1>7

\* So there are as many of them as usable names.
LEMMA KeptCountsNames ==
  ASSUME NEW s, NEW entries \in Seq(RawEntry)
  PROVE  Cardinality(Kept(s, entries))
           = Cardinality({entries[i].name : i \in UsableAt(s, entries)})
<1> DEFINE names == {entries[i].name : i \in UsableAt(s, entries)}
           naming == [k \in Kept(s, entries) |-> entries[k].name]
<1>1. /\ Kept(s, entries) \subseteq UsableAt(s, entries) /\ IsFiniteSet(Kept(s, entries))
      /\ \A i, k \in Kept(s, entries) : entries[i].name = entries[k].name => i = k
      /\ \A i \in UsableAt(s, entries) :
           \E k \in Kept(s, entries) : entries[k].name = entries[i].name
  BY KeptOncePerName
<1>2. naming \in [Kept(s, entries) -> names]
  BY <1>1
<1>3. \A i, k \in Kept(s, entries) : naming[i] = naming[k] => i = k
  BY <1>1
<1>4. \A v \in names : \E k \in Kept(s, entries) : naming[k] = v
  BY <1>1
<1> HIDE DEF naming, names
<1>5. naming \in Surjection(Kept(s, entries), names) /\ naming \in Injection(Kept(s, entries), names)
  BY <1>2, <1>3, <1>4 DEF Surjection, Injection, IsInjective
<1>6. Cardinality(names) = Cardinality(Kept(s, entries))
  BY <1>1, <1>5, FS_Surjection
<1> QED BY <1>6 DEF names

\* What is drafted of a list of entries, and what is said of the others.
LEMMA ListIsCut ==
  ASSUME NEW s \in ListSections, NEW a \in Answer, a.form = "entries"
  PROVE  /\ InDraft(s, a) = First(Cap[s], Kept(s, a.entries))
         /\ InDraft(s, a) \subseteq Kept(s, a.entries) /\ IsFiniteSet(InDraft(s, a))
         /\ Cardinality(InDraft(s, a)) =
              IF Cardinality(Kept(s, a.entries)) < Cap[s]
              THEN Cardinality(Kept(s, a.entries)) ELSE Cap[s]
         /\ Cardinality(Kept(s, a.entries)) < Cap[s] => InDraft(s, a) = Kept(s, a.entries)
         /\ Cap[s] \in Nat /\ Cardinality(Kept(s, a.entries)) \in Nat
<1>1. s # "social" /\ Cap[s] \in Nat
  BY CapAssumption DEF ListSections
<1>2. InDraft(s, a) = First(Cap[s], Kept(s, a.entries))
  BY <1>1 DEF InDraft, Survivors, many
<1>3. a.entries \in Seq(RawEntry)
  BY DEF Answer
<1>4. /\ Kept(s, a.entries) \in SUBSET Nat /\ IsFiniteSet(Kept(s, a.entries))
  BY <1>3, KeptOncePerName DEF UsableAt
<1>5. /\ First(Cap[s], Kept(s, a.entries)) \subseteq Kept(s, a.entries)
      /\ IsFiniteSet(First(Cap[s], Kept(s, a.entries)))
      /\ Cardinality(First(Cap[s], Kept(s, a.entries))) =
           IF Cardinality(Kept(s, a.entries)) < Cap[s]
           THEN Cardinality(Kept(s, a.entries)) ELSE Cap[s]
  BY <1>1, <1>4, FirstIsFull
<1>6. Cardinality(Kept(s, a.entries)) \in Nat
  BY <1>4, FS_CardinalityType
<1>7. Cardinality(Kept(s, a.entries)) < Cap[s] =>
        First(Cap[s], Kept(s, a.entries)) = Kept(s, a.entries)
  BY <1>4, <1>5, FS_Subset
<1> QED BY <1>1, <1>2, <1>5, <1>6, <1>7

\* What is drafted is usable, and loses its images.
LEMMA DraftedIsUsable ==
  ASSUME NEW s \in GENERATED_SECTIONS, NEW a \in Answer, NEW i \in InDraft(s, a)
  PROVE  /\ a.form = "entries" /\ i \in DOMAIN a.entries
         /\ a.entries[i] \in RawEntry /\ Usable(s, a.entries[i])
         /\ s \notin ListSections => i = 1
<1>1. a.form = "entries" /\ i \in Survivors(s, a) /\ a.entries \in Seq(RawEntry)
  BY DEF InDraft, Survivors, Answer
<1>2. CASE s \in ListSections
  <2>1. i \in Kept(s, a.entries)
    BY <1>1, <1>2, ListIsCut
  <2> QED BY <1>1, <1>2, <2>1 DEF Kept
<1>3. CASE s \notin ListSections
  BY <1>1, <1>3 DEF Survivors, one
<1> QED BY <1>1, <1>2, <1>3

\* No section of a draft is empty; lists are within the caps and name nothing twice;
\* what is looked for in the description is there; no image is named or cleared; and
\* of an object section only what the model said null or empty of can be cleared.
THEOREM DraftsKeepTheRules == Spec => []DraftKeepsTheRules
<1>1. ASSUME GenerationInv PROVE DraftKeepsTheRules
  <2> SUFFICES ASSUME NEW r \in response, r.status = "OK", NEW s \in DOMAIN r.body.draft
      PROVE  LET kept == r.body.draft[s]
             IN  /\ DOMAIN kept # {}
                 /\ s \in ListSections => Cardinality(DOMAIN kept) <= Cap[s]
                 /\ s \in ObjectSections => Cardinality(DOMAIN kept) = 1
                 /\ \A i \in DOMAIN kept :
                      /\ kept[i].shape = "valid" /\ kept[i].link # "invented"
                      /\ s \in DOMAIN GroundCode => kept[i].said
                      /\ s \in IMAGE_FIELDS => kept[i].image = Undefined
                      /\ s = "social" => \E f \in Own[s] : kept[i].fields[f] = Given
                      /\ s \in ObjectSections =>
                           Clears(s, kept[i]) \subseteq Clears(s, results[s].entries[i])
                 /\ s \in ListSections =>
                      \A i, j \in DOMAIN kept : kept[i].name = kept[j].name => i = j
    BY DEF DraftKeepsTheRules
  <2> DEFINE kept == r.body.draft[s]
             a == results[s]
  <2>1. /\ s \in DOMAIN results /\ InDraft(s, a) # {}
        /\ kept = [i \in InDraft(s, a) |-> stripImages(s, a.entries[i])]
    <3>1. r.body = assembleDraft(results)
      BY <1>1 DEF GenerationInv, Assembled
    <3>2. r.body.draft = [t \in {u \in DOMAIN results : InDraft(u, results[u]) # {}} |->
                            [i \in InDraft(t, results[t]) |->
                               stripImages(t, results[t].entries[i])]]
      BY <3>1 DEF assembleDraft
    <3> QED BY <3>2
  <2>2. a \in Answer /\ s \in GENERATED_SECTIONS
    BY <1>1, <2>1, ResultsAreAnswers
  <2>3. DOMAIN kept = InDraft(s, a) /\ \A i \in DOMAIN kept : kept[i] = stripImages(s, a.entries[i])
    BY <2>1
  <2> HIDE DEF kept, a
  <2>4. \A i \in InDraft(s, a) :
          /\ a.form = "entries" /\ i \in DOMAIN a.entries
          /\ a.entries[i] \in RawEntry /\ Usable(s, a.entries[i])
          /\ s \notin ListSections => i = 1
    BY <2>2, DraftedIsUsable
  <2>5. a.form = "entries"
    BY <2>1, <2>4
  <2>6. ASSUME NEW i \in DOMAIN kept
        PROVE  /\ kept[i].shape = "valid" /\ kept[i].link # "invented"
               /\ s \in DOMAIN GroundCode => kept[i].said
               /\ s \in IMAGE_FIELDS => kept[i].image = Undefined
               /\ kept[i].name = a.entries[i].name
               /\ kept[i].fields = a.entries[i].fields
    <3>1. /\ a.entries[i] \in RawEntry
          /\ a.entries[i].shape = "valid" /\ a.entries[i].link # "invented"
          /\ s \in DOMAIN GroundCode => a.entries[i].said
      BY <2>3, <2>4 DEF Usable, Grounded
    <3>2. kept[i] = stripImages(s, a.entries[i])
      BY <2>3
    <3>3. CASE s \in IMAGE_FIELDS
      <4>1. kept[i] = [a.entries[i] EXCEPT !.image = Undefined]
        BY <3>2, <3>3 DEF stripImages
      <4> QED BY <3>1, <4>1 DEF RawEntry
    <3>4. CASE s \notin IMAGE_FIELDS
      BY <3>1, <3>2, <3>4 DEF stripImages
    <3> QED BY <3>3, <3>4
  <2>7. s \in ListSections => Cardinality(DOMAIN kept) <= Cap[s]
    BY <2>2, <2>3, <2>5, ListIsCut
  <2>8. s \in ObjectSections => Cardinality(DOMAIN kept) = 1
    <3>1. SUFFICES ASSUME s \in ObjectSections PROVE DOMAIN kept = {1}
      BY FS_Singleton
    <3>2. s \notin ListSections
      BY <3>1 DEF ObjectSections, ListSections
    <3> QED BY <2>1, <2>3, <2>4, <3>2
  <2>9. ASSUME s \in ListSections, NEW i \in DOMAIN kept, NEW j \in DOMAIN kept,
               kept[i].name = kept[j].name
        PROVE  i = j
    <3>1. a.entries[i].name = a.entries[j].name
      BY <2>6, <2>9
    <3>2. i \in Kept(s, a.entries) /\ j \in Kept(s, a.entries)
      BY <2>2, <2>3, <2>5, <2>9, ListIsCut
    <3>3. a.entries \in Seq(RawEntry)
      BY <2>2 DEF Answer
    <3> QED BY <3>1, <3>2, <3>3, KeptOncePerName
  <2>10. ASSUME NEW i \in DOMAIN kept, s \in ObjectSections
         PROVE  Clears(s, kept[i]) \subseteq Clears(s, a.entries[i])
    BY <2>6, <2>10 DEF Clears
  <2>11. ASSUME NEW i \in DOMAIN kept, s = "social"
         PROVE  \E f \in Own[s] : kept[i].fields[f] = Given
    <3>1. hasSocialContent(a.entries[i])
      BY <2>3, <2>11 DEF InDraft
    <3> QED BY <2>6, <2>11, <3>1 DEF hasSocialContent
  <2>12. a = results[s]
    BY DEF a
  <2> QED BY <2>1, <2>3, <2>6, <2>7, <2>8, <2>9, <2>10, <2>11, <2>12 DEF kept
<1> QED BY <1>1, Inductive, PTL

\* The cap is spent on distinct names, and nothing else is dropped in silence.
THEOREM OnlyTheCapDrops == Spec => []NothingUsableIsLost
<1>1. ASSUME GenerationInv PROVE NothingUsableIsLost
  <2> SUFFICES ASSUME NEW r \in response, r.status = "OK",
                      NEW s \in DOMAIN results \cap ListSections, results[s].form = "entries"
      PROVE  LET entries == results[s].entries
                 drafted == IF s \in DOMAIN r.body.draft THEN DOMAIN r.body.draft[s] ELSE {}
                 names == {entries[i].name : i \in {n \in DOMAIN entries : Usable(s, entries[n])}}
                 spoken == {w.at : w \in {v \in r.body.warnings : v.section = s}}
             IN  /\ Cardinality(drafted) =
                      IF Cardinality(names) < Cap[s] THEN Cardinality(names) ELSE Cap[s]
                 /\ \A i \in DOMAIN entries :
                      \/ i \in drafted \cup spoken
                      \/ entries[i].shape = "junk"
                      \/ 0 \in spoken /\ Cardinality(names) > Cap[s]
    BY DEF NothingUsableIsLost
  <2> DEFINE a == results[s]
             entries == a.entries
             drafted == IF s \in DOMAIN r.body.draft THEN DOMAIN r.body.draft[s] ELSE {}
             names == {entries[i].name : i \in {n \in DOMAIN entries : Usable(s, entries[n])}}
             spoken == {w.at : w \in {v \in r.body.warnings : v.section = s}}
             kept == Kept(s, entries)
  <2>1. a \in Answer /\ a.form = "entries" /\ entries \in Seq(RawEntry)
    BY <1>1, ResultsAreAnswers DEF Answer
  <2>2. r.body = assembleDraft(results)
    BY <1>1 DEF GenerationInv, Assembled
  <2>3. drafted = InDraft(s, a)
    <3>1. r.body.draft = [t \in {u \in DOMAIN results : InDraft(u, results[u]) # {}} |->
                            [i \in InDraft(t, results[t]) |->
                               stripImages(t, results[t].entries[i])]]
      BY <2>2 DEF assembleDraft
    <3> QED BY <3>1
  <2>4. \A w \in WarningsOf(s, a) : w.section = s => w.at \in spoken
    BY <2>2 DEF assembleDraft
  <2>5. names = {entries[i].name : i \in UsableAt(s, entries)}
    BY DEF UsableAt
  <2>6. kept = {i \in DOMAIN entries : Usable(s, entries[i]) /\ ~Repeats(s, entries, i)}
    BY DEF Kept
  <2>7. Survivors(s, a) = InDraft(s, a)
    BY DEF InDraft, ListSections
  <2>8. /\ \A i \in DOMAIN entries :
             entries[i].shape # "junk" /\ ~Usable(s, entries[i]) =>
               Warning(s, Complaint(s, entries[i]), i) \in WarningsOf(s, a)
        /\ \A i \in DOMAIN entries :
             Usable(s, entries[i]) /\ Repeats(s, entries, i) =>
               Warning(s, "DUPLICATE", i) \in WarningsOf(s, a)
        /\ \A i \in kept \ InDraft(s, a) : Warning(s, "CAPPED", 0) \in WarningsOf(s, a)
    BY <2>1, <2>7 DEF WarningsOf
  <2> HIDE DEF a, entries, drafted, names, spoken, kept
  <2>9. \A code, at : Warning(s, code, at) \in WarningsOf(s, a) => at \in spoken
    <3>1. \A code, at : Warning(s, code, at).section = s /\ Warning(s, code, at).at = at
      BY DEF Warning
    <3> QED BY <2>4, <3>1
  <2>10. /\ InDraft(s, a) \subseteq kept
         /\ Cardinality(InDraft(s, a)) =
              IF Cardinality(kept) < Cap[s] THEN Cardinality(kept) ELSE Cap[s]
         /\ Cardinality(kept) < Cap[s] => InDraft(s, a) = kept
         /\ Cap[s] \in Nat /\ Cardinality(kept) \in Nat
    BY <2>1, ListIsCut DEF entries, kept
  <2>11. Cardinality(kept) = Cardinality(names)
    BY <2>1, <2>5, KeptCountsNames DEF kept
  <2>12. kept # InDraft(s, a) => Cardinality(kept) > Cap[s]
    <3>1. IsFiniteSet(kept)
      BY <2>1, KeptOncePerName DEF kept
    <3>2. Cardinality(kept) = Cardinality(InDraft(s, a)) => kept = InDraft(s, a)
      BY <2>10, <3>1, FS_Subset
    <3> QED BY <2>10, <3>2
  <2>13. ASSUME NEW i \in DOMAIN entries
         PROVE  \/ i \in drafted \cup spoken
                \/ entries[i].shape = "junk"
                \/ 0 \in spoken /\ Cardinality(names) > Cap[s]
    <3>1. CASE ~Usable(s, entries[i])
      BY <2>8, <2>9, <3>1
    <3>2. CASE Usable(s, entries[i]) /\ Repeats(s, entries, i)
      BY <2>8, <2>9, <3>2
    <3>3. CASE Usable(s, entries[i]) /\ ~Repeats(s, entries, i)
      <4>1. i \in kept
        BY <2>6, <3>3
      <4>2. CASE i \in InDraft(s, a)
        BY <2>3, <4>2
      <4>3. CASE i \notin InDraft(s, a)
        BY <2>8, <2>9, <2>11, <2>12, <4>1, <4>3
      <4> QED BY <4>2, <4>3
    <3> QED BY <3>1, <3>2, <3>3
  <2> QED BY <2>3, <2>10, <2>11, <2>13 DEF a, entries, drafted, names, spoken
<1> QED BY <1>1, Inductive, PTL

=============================================================================
