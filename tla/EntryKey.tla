------------------------------- MODULE EntryKey -------------------------------
(***************************************************************************)
(* profile/domain/entry-key.ts: the stable ids of the entries of an array  *)
(* section.  A key is a number; NoKey is an entry without a well-formed    *)
(* one.  A key the code draws at random is a number nobody has seen: of    *)
(* 36^8 keys, two never collide here.  The keys minted above a bound are   *)
(* told apart by the place of the entry in its array.                      *)
(***************************************************************************)
EXTENDS Naturals, Sequences

NoKey == 0

\* A plausible slip: the first entry that asks for a key is not the one that
\* keeps it, every entry that asks does.
MutantReusable(entries, i) == entries[i].key # NoKey

\* Well formed, and not taken by an entry further left.
isReusable(entries, i) ==
  /\ entries[i].key # NoKey
  /\ \A j \in 1 .. i - 1 : entries[j].key # entries[i].key

Keyed(entry, key) == [entry EXCEPT !.key = key]

\* A plausible slip: keys are given out again by place.
MutantWithUniqueKeys(entries, minted) ==
  [i \in DOMAIN entries |-> Keyed(entries[i], i)]

withUniqueKeys(entries, minted) ==
  [i \in DOMAIN entries |->
     Keyed(entries[i], IF isReusable(entries, i) THEN entries[i].key ELSE minted + i)]

\* What is nested in a work: its stages, its screenshots and their hotspots.
withWorkChildKeys(work, minted) ==
  [work EXCEPT
     !.stages = withUniqueKeys(work.stages, minted),
     !.screenshots =
       LET shots == withUniqueKeys(work.screenshots, minted)
       IN  [i \in DOMAIN shots |->
              [shots[i] EXCEPT !.hotspots = withUniqueKeys(shots[i].hotspots, minted)]]]

=============================================================================
