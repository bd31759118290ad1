------------------------------ MODULE Generation ------------------------------
(***************************************************************************)
(* profile/generation/generation.service.ts: one request that drafts a     *)
(* profile.  A brief is asked for, then one call warms the provider's      *)
(* cache, then every planned section is asked for at once, and the answers *)
(* are assembled.  All calls share one deadline; the provider's client     *)
(* gives each attempt a time of its own and repeats it (llm.service.ts,    *)
(* anthropic.provider.ts).  The model may answer anything, late or never.  *)
(*                                                                         *)
(* Time counts ticks.  The code between two answers takes none of it.      *)
(***************************************************************************)
EXTENDS Draft

CONSTANTS
  Planable,        \* the sections a brief plans in this instance
  Answers,         \* what the sections may be answered with, in [Planable -> Answer]
  BUDGET,          \* BUDGET_MS
  RequestTimeout,  \* REQUEST_TIMEOUT_MS
  MaxAttempts,     \* of one call, by the provider's client
  MaxTime          \* bound on the clock, later than any behaviour of the code

ASSUME GenerationAssumption ==
  /\ Planable \subseteq GENERATED_SECTIONS
  /\ IsFiniteSet(Planable)
  /\ Answers \subseteq [Planable -> Answer]
  /\ BUDGET \in Nat \ {0}
  /\ RequestTimeout \in Nat \ {0}
  /\ MaxAttempts \in Nat \ {0}
  /\ MaxTime \in Nat /\ MaxTime > BUDGET

Calls == {"brief", "warm"} \cup Planable

VARIABLES
  settings,   \* of the platform's provider: none, plain, or one that can warm
  phase,
  now,        \* since the request began
  calls,      \* [Calls -> the call, and its attempt under way]
  results,    \* what fanOut returned: [planned sections -> Answer]
  response    \* at most one

vars == <<settings, phase, now, calls, results, response>>

Call ==
  [state : {"unsent", "open", "answered", "timeout", "error"}, since : Nat,
   attempts : 0 .. MaxAttempts]

Unsent == [state |-> "unsent", since |-> 0, attempts |-> 0]
Begun == [state |-> "open", since |-> now, attempts |-> 1]

Init ==
  /\ settings \in {"none", "plain", "warming"}
  /\ phase = "idle"
  /\ now = 0
  /\ calls = [c \in Calls |-> Unsent]
  /\ results = <<>>
  /\ response = {}

Open(c) == calls[c].state = "open"

\* A plausible slip: only answers settle a call.
MutantSettled(c) == calls[c].state = "answered"

Settled(c) == calls[c].state \notin {"unsent", "open"}

Respond(status) ==
  /\ response' = {[status |-> status]}
  /\ phase' = "done"
  /\ UNCHANGED <<settings, now, calls, results>>

-----------------------------------------------------------------------------
(* The provider and its client.                                             *)

Becomes(c, state) ==
  calls' = [calls EXCEPT ![c] = [state |-> state, since |-> 0, attempts |-> 0]]

Again(c) ==
  calls' = [calls EXCEPT
              ![c] = [state |-> "open", since |-> now, attempts |-> calls[c].attempts + 1]]

\* With anything.
Answered(c) ==
  /\ Open(c)
  /\ Becomes(c, "answered")
  /\ UNCHANGED <<settings, phase, now, results, response>>

\* An error that is not repeated, or the last of several.
Fails(c) ==
  /\ Open(c)
  /\ Becomes(c, "error")
  /\ UNCHANGED <<settings, phase, now, results, response>>

\* A plausible slip: attempts are not counted.
MutantRetries(c) ==
  /\ Open(c)
  /\ Again(c)
  /\ UNCHANGED <<settings, phase, now, results, response>>

\* An error that is.
Retries(c) ==
  /\ Open(c)
  /\ calls[c].attempts < MaxAttempts
  /\ Again(c)
  /\ UNCHANGED <<settings, phase, now, results, response>>

\* Only the client that can warm is given a time for an attempt: the default of the
\* others is longer than the budget.
AttemptDue(c) ==
  /\ Open(c)
  /\ settings = "warming"
  /\ now = calls[c].since + RequestTimeout

AttemptTimesOut(c) ==
  /\ AttemptDue(c)
  /\ IF calls[c].attempts < MaxAttempts THEN Again(c) ELSE Becomes(c, "timeout")
  /\ UNCHANGED <<settings, phase, now, results, response>>

\* A plausible slip: the warm call is not given the signal.
MutantSignalled(c) == c # "warm"

Signalled(c) == c \in Calls

AbortDue(c) == Open(c) /\ Signalled(c) /\ now >= BUDGET

\* The deadline, also for a call that is begun after it.
Abort(c) ==
  /\ AbortDue(c)
  /\ Becomes(c, "timeout")
  /\ UNCHANGED <<settings, phase, now, results, response>>

-----------------------------------------------------------------------------
(* generate().                                                              *)

Generate ==
  /\ phase = "idle"
  /\ IF settings = "none" THEN Respond("GENERATION_FAILED")
     ELSE /\ phase' = "brief"
          /\ calls' = [calls EXCEPT !["brief"] = Begun]
          /\ UNCHANGED <<settings, now, results, response>>

FanOut(planned) ==
  /\ phase' = "fanOut"
  /\ calls' = [c \in Calls |-> IF c \in planned THEN Begun ELSE calls[c]]
  /\ UNCHANGED <<settings, now, response>>

\* The fact sheet, if there is one, plans sections.  A prefix is warmed for two.
BriefSettles ==
  /\ phase = "brief"
  /\ Settled("brief")
  /\ \/ calls["brief"].state = "timeout" /\ Respond("GENERATION_TIMEOUT")
     \/ calls["brief"].state # "timeout" /\ Respond("GENERATION_FAILED")
     \/ /\ calls["brief"].state = "answered"
        /\ \E planned \in SUBSET Planable :
             /\ results' = [s \in planned |-> Nothing]
             /\ IF Cardinality(planned) > 1 /\ settings = "warming"
                THEN /\ phase' = "warm"
                     /\ calls' = [calls EXCEPT !["warm"] = Begun]
                     /\ UNCHANGED <<settings, now, response>>
                ELSE FanOut(planned)

\* However it ended.
WarmSettles ==
  /\ phase = "warm"
  /\ Settled("warm")
  /\ FanOut(DOMAIN results)
  /\ UNCHANGED results

\* allSettled, and the draft.
SectionsSettle ==
  /\ phase = "fanOut"
  /\ \A s \in DOMAIN results : Settled(s)
  /\ \E answers \in Answers :
       results' = [s \in DOMAIN results |->
                     IF calls[s].state = "answered" THEN answers[s] ELSE Nothing]
  /\ response' = {[status |-> "OK", body |-> assembleDraft(results')]}
  /\ phase' = "done"
  /\ UNCHANGED <<settings, now, calls>>

CodeRuns ==
  \/ phase = "brief" /\ Settled("brief")
  \/ phase = "warm" /\ Settled("warm")
  \/ phase = "fanOut" /\ \A s \in DOMAIN results : Settled(s)

\* Timers and code that are due come first.
Tick ==
  /\ phase \notin {"idle", "done"}
  /\ ~CodeRuns
  /\ \A c \in Calls : ~AttemptDue(c) /\ ~AbortDue(c)
  /\ now < MaxTime
  /\ now' = now + 1
  /\ UNCHANGED <<settings, phase, calls, results, response>>

Next ==
  \/ Generate
  \/ BriefSettles
  \/ WarmSettles
  \/ SectionsSettle
  \/ \E c \in Calls : Answered(c) \/ Fails(c) \/ Retries(c) \/ AttemptTimesOut(c) \/ Abort(c)
  \/ Tick

Spec == Init /\ [][Next]_vars

\* The event loop runs what is ready, and clocks do not stop.  Nothing is asked of
\* the provider.
Fairness ==
  /\ WF_vars(BriefSettles)
  /\ WF_vars(WarmSettles)
  /\ WF_vars(SectionsSettle)
  /\ WF_vars(Tick)
  /\ \A c \in Calls : WF_vars(AttemptTimesOut(c)) /\ WF_vars(Abort(c))

FairSpec == Spec /\ Fairness

-----------------------------------------------------------------------------

TypeOK ==
  /\ settings \in {"none", "plain", "warming"}
  /\ phase \in {"idle", "brief", "warm", "fanOut", "done"}
  /\ now \in Nat
  /\ calls \in [Calls -> Call]
  /\ DOMAIN results \subseteq Planable
  /\ \A s \in DOMAIN results : results[s] = Nothing \/ \E a \in Answers : results[s] = a[s]
  /\ \A r \in response :
       r.status \in {"OK", "GENERATION_TIMEOUT", "GENERATION_FAILED"}
  /\ response = {} <=> phase # "done"

-----------------------------------------------------------------------------
(* Safety.                                                                  *)

\* The owner has an answer of the server's when the budget is over, however long
\* every call takes and however often it is repeated: the client, whose own timeout
\* is later, is never left with a dropped connection (BUDGET_MS).
AnswersInTime == now <= BUDGET

\* What a section comes to depends on its own call alone: it is failed if and only if
\* nothing readable came back to it, and then it is said to the owner, and a section
\* nobody planned is empty ("one section throwing must not take the other nine").
SectionsAreIsolated ==
  \A r \in response : r.status = "OK" =>
    \A s \in GENERATED_SECTIONS :
      /\ s \notin DOMAIN results <=> s \notin Planable \/ calls[s].state = "unsent"
      /\ r.body.sections[s] = "failed" <=>
           s \in DOMAIN results /\ (calls[s].state # "answered" \/ results[s].form # "entries")
      /\ r.body.sections[s] = "failed" <=>
           \E w \in r.body.warnings :
             w.section = s /\ w.code \in {"SECTION_FAILED", "PARSE_FAILED"}
      /\ s \in DOMAIN r.body.draft => r.body.sections[s] = "generated"

\* What a draft puts before the owner, to be sent back as a PATCH.  No section of it is
\* empty, so that no list is replaced by none; lists are within the caps and name
\* nothing twice; an object section is one object, a social one with something in it;
\* every URL in it, and every date, number and quotation that is looked for, is in the
\* description; and it neither names an image nor clears one.  It may clear other
\* fields of an object section: those of which the model said null, or an empty list,
\* and no others.
DraftKeepsTheRules ==
  \A r \in response : r.status = "OK" =>
    \A s \in DOMAIN r.body.draft :
      LET kept == r.body.draft[s]
      IN  /\ DOMAIN kept # {}
          /\ s \in ListSections => Cardinality(DOMAIN kept) <= Cap[s]
          /\ s \in ObjectSections => Cardinality(DOMAIN kept) = 1
          /\ \A i \in DOMAIN kept :
               /\ kept[i].shape = "valid" /\ kept[i].link # "invented"
               /\ s \in DOMAIN GroundCode => kept[i].said
               /\ s \in IMAGE_FIELDS => kept[i].image = Undefined
               /\ s = "social" => \E f \in Own[s] : kept[i].fields[f] = Given
               /\ s \in ObjectSections =>
                    Clears(s, kept[i]) \subseteq Clears(s, results[s].entries[i])
          /\ s \in ListSections =>
               \A i, j \in DOMAIN kept : kept[i].name = kept[j].name => i = j

\* Nothing usable is lost but to the cap, and the cap is spent on distinct names: a
\* list is as long as it can be, and what an entry of it was dropped for is said.
\* (Junk, which is no entry, goes without a word.)
NothingUsableIsLost ==
  \A r \in response : r.status = "OK" =>
    \A s \in DOMAIN results \cap ListSections :
      results[s].form = "entries" =>
        LET entries == results[s].entries
            drafted == IF s \in DOMAIN r.body.draft THEN DOMAIN r.body.draft[s] ELSE {}
            names == {entries[i].name : i \in {n \in DOMAIN entries : Usable(s, entries[n])}}
            spoken == {w.at : w \in {v \in r.body.warnings : v.section = s}}
        IN  /\ Cardinality(drafted) =
                 IF Cardinality(names) < Cap[s] THEN Cardinality(names) ELSE Cap[s]
            /\ \A i \in DOMAIN entries :
                 \/ i \in drafted \cup spoken
                 \/ entries[i].shape = "junk"
                 \/ 0 \in spoken /\ Cardinality(names) > Cap[s]

-----------------------------------------------------------------------------
(* Liveness.                                                                *)

\* Every request is answered, whatever the provider does or fails to do.
EveryRequestIsAnswered == phase = "brief" ~> phase = "done"

=============================================================================
