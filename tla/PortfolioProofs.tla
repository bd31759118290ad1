---------------------------- MODULE PortfolioProofs ----------------------------
(***************************************************************************)
(* Theorems about Portfolio, for any number of clients, entries and keys.  *)
(***************************************************************************)
EXTENDS Portfolio, TLAPS

\* What a list of a section is: places without gaps, entries with what is nested in
\* them, fields of their layer, and keys no greater than n.
Value == {Undefined, Null, Given, Filled, "video"}

Fields(layer) == [FieldsOf(Layers[layer].dto) -> Value]

Placed(l) == \E k \in 0 .. MaxEntries : DOMAIN l = 1 .. k

IsEntry(layer, n, e) ==
  /\ e = [key |-> e.key, of |-> e.of, fields |-> e.fields]
  /\ e.key \in 0 .. n
  /\ e.fields \in Fields(layer)

AreEntries(layer, n, l) == Placed(l) /\ \A i \in DOMAIN l : IsEntry(layer, n, l[i])

IsShot(n, e) ==
  /\ e = [key |-> e.key, of |-> e.of, fields |-> e.fields, hotspots |-> e.hotspots]
  /\ e.key \in 0 .. n
  /\ e.fields \in Fields("screenshots")
  /\ AreEntries("hotspots", n, e.hotspots)

AreShots(n, l) == Placed(l) /\ \A i \in DOMAIN l : IsShot(n, l[i])

IsWork(n, e) ==
  /\ e = [key |-> e.key, of |-> e.of, fields |-> e.fields, stages |-> e.stages,
          screenshots |-> e.screenshots]
  /\ e.key \in 0 .. n
  /\ e.fields \in Fields("works")
  /\ AreEntries("stages", n, e.stages)
  /\ AreShots(n, e.screenshots)

AreWorks(n, l) == Placed(l) /\ \A i \in DOMAIN l : IsWork(n, l[i])

IsContent(section, n, l) ==
  IF section = "works" THEN AreWorks(n, l) ELSE AreEntries(section, n, l)

\* The entries of a list, and of each list nested in it, share no key.
Distinct(l) ==
  \A i, j \in DOMAIN l : l[i].key = l[j].key /\ l[i].key # NoKey => i = j

ChildrenDistinct(work) ==
  /\ Distinct(work.stages)
  /\ Distinct(work.screenshots)
  /\ \A s \in DOMAIN work.screenshots : Distinct(work.screenshots[s].hotspots)

AllDistinct(section, l) ==
  /\ Distinct(l)
  /\ section = "works" => \A i \in DOMAIN l : ChildrenDistinct(l[i])

-----------------------------------------------------------------------------
(* Keys.                                                                    *)

UniqueKeys(entries) ==
  /\ \A i \in DOMAIN entries : entries[i].key # NoKey
  /\ \A i, j \in DOMAIN entries : entries[i].key = entries[j].key => i = j

\* Whoever keeps its key is alone with it, and whoever gets one gets a new one.
LEMMA KeysComeOutUnique ==
  ASSUME NEW n \in Nat, NEW l, Placed(l),
         \A i \in DOMAIN l : l[i].key \in 0 .. n /\ \A k : Keyed(l[i], k).key = k
  PROVE  /\ DOMAIN withUniqueKeys(l, n) = DOMAIN l
         /\ \A i \in DOMAIN l :
              \E k \in 1 .. n + MaxEntries : withUniqueKeys(l, n)[i] = Keyed(l[i], k)
         /\ UniqueKeys(withUniqueKeys(l, n))
<1> DEFINE drawn(i) == IF isReusable(l, i) THEN l[i].key ELSE n + i
           keyed == withUniqueKeys(l, n)
<1>1. /\ DOMAIN keyed = DOMAIN l
      /\ \A i \in DOMAIN l : keyed[i] = Keyed(l[i], drawn(i)) /\ keyed[i].key = drawn(i)
  BY DEF withUniqueKeys
<1>2. PICK k \in 0 .. MaxEntries : DOMAIN l = 1 .. k
  BY DEF Placed
<1>3. MaxEntries \in Nat /\ k \in Nat /\ k <= MaxEntries
  BY PortfolioAssumption
<1>4. ASSUME NEW i \in DOMAIN l PROVE drawn(i) \in 1 .. n + MaxEntries
  <2>1. i \in 1 .. k /\ l[i].key \in 0 .. n
    BY <1>2
  <2>2. CASE isReusable(l, i)
    BY <1>3, <2>1, <2>2 DEF isReusable, NoKey
  <2>3. CASE ~isReusable(l, i)
    BY <1>3, <2>1, <2>3
  <2> QED BY <2>2, <2>3
<1>5. ASSUME NEW i \in DOMAIN l, NEW j \in DOMAIN l, i < j PROVE drawn(i) # drawn(j)
  <2>1. i \in 1 .. k /\ j \in 1 .. k /\ i \in 1 .. j - 1 /\ l[i].key \in 0 .. n /\ l[j].key \in 0 .. n
    BY <1>2, <1>3, <1>5
  <2>2. CASE isReusable(l, j)
    <3>1. drawn(j) = l[j].key /\ l[i].key # l[j].key
      BY <2>1, <2>2 DEF isReusable
    <3>2. drawn(i) = l[i].key \/ drawn(i) = n + i
      OBVIOUS
    <3> HIDE DEF drawn
    <3> QED BY <2>1, <3>1, <3>2
  <2>3. CASE ~isReusable(l, j)
    <3>1. drawn(j) = n + j /\ (drawn(i) = l[i].key \/ drawn(i) = n + i)
      BY <2>3
    <3> HIDE DEF drawn
    <3> QED BY <1>5, <2>1, <3>1
  <2> QED BY <2>2, <2>3
<1>6. \A i, j \in DOMAIN l : drawn(i) = drawn(j) => i = j
  <2> HIDE DEF drawn
  <2>1. \A i, j \in DOMAIN l : i = j \/ i < j \/ j < i
    BY <1>2, <1>3
  <2> QED BY <1>5, <2>1
<1>7. UniqueKeys(keyed)
  <2> HIDE DEF drawn, keyed
  <2> QED BY <1>1, <1>4, <1>6 DEF UniqueKeys, NoKey
<1> HIDE DEF drawn
<1> QED BY <1>1, <1>4, <1>7

LEMMA UniqueIsDistinct == ASSUME NEW l, UniqueKeys(l) PROVE Distinct(l)
BY DEF UniqueKeys, Distinct

\* Keys grow in number, and what had its place before has it still.
LEMMA KeysGrow ==
  ASSUME NEW n \in Nat, NEW m \in Nat, n <= m, NEW section, NEW l, IsContent(section, n, l)
  PROVE  IsContent(section, m, l)
<1>1. \A k \in 0 .. n : k \in 0 .. m
  OBVIOUS
<1>2. \A layer, e : IsEntry(layer, n, e) => IsEntry(layer, m, e)
  BY <1>1 DEF IsEntry
<1>3. \A layer, k : AreEntries(layer, n, k) => AreEntries(layer, m, k)
  BY <1>2 DEF AreEntries
<1>4. \A e : IsShot(n, e) => IsShot(m, e)
  BY <1>1, <1>3 DEF IsShot
<1>5. \A e : IsWork(n, e) => IsWork(m, e)
  BY <1>1, <1>3, <1>4 DEF IsWork, AreShots
<1> QED BY <1>3, <1>5 DEF IsContent, AreWorks

-----------------------------------------------------------------------------
(* What the layers and the keys make of content is content.                 *)

LEMMA FieldsStayFields ==
  ASSUME NEW layer, NEW f \in Fields(layer)
  PROVE  MappedFields(layer, f) \in Fields(layer) /\ HydratedFields(layer, f) \in Fields(layer)
BY DEF Fields, Value, MappedFields, Mapped, HydratedFields, Hydrated

\* Two lists with the same keys at the same places, everywhere.
SameKeys(l, m) == DOMAIN l = DOMAIN m /\ \A i \in DOMAIN l : l[i].key = m[i].key

SameShotKeys(l, m) ==
  SameKeys(l, m) /\ \A i \in DOMAIN l : SameKeys(l[i].hotspots, m[i].hotspots)

SameKeysThroughout(section, l, m) ==
  /\ SameKeys(l, m)
  /\ section = "works" =>
       \A i \in DOMAIN l :
         SameKeys(l[i].stages, m[i].stages) /\ SameShotKeys(l[i].screenshots, m[i].screenshots)

LEMMA SameKeysSameDistinct ==
  ASSUME NEW section, NEW l, NEW m, SameKeysThroughout(section, l, m), AllDistinct(section, l)
  PROVE  AllDistinct(section, m)
<1>1. \A a, b : SameKeys(a, b) /\ Distinct(a) => Distinct(b)
  BY DEF SameKeys, Distinct
<1>2. Distinct(m)
  BY <1>1 DEF SameKeysThroughout, AllDistinct
<1>3. ASSUME section = "works", NEW i \in DOMAIN m PROVE ChildrenDistinct(m[i])
  <2>1. /\ ChildrenDistinct(l[i]) /\ SameKeys(l[i].stages, m[i].stages)
        /\ SameShotKeys(l[i].screenshots, m[i].screenshots)
    BY <1>3 DEF SameKeysThroughout, SameKeys, AllDistinct
  <2> QED BY <1>1, <2>1 DEF ChildrenDistinct, SameShotKeys, SameKeys
<1> QED BY <1>2, <1>3 DEF AllDistinct

LEMMA MappingKeepsWorks ==
  ASSUME NEW n \in Nat, NEW w, IsWork(n, w)
  PROVE  /\ IsWork(n, OnWork(w, MappedFields)) /\ IsWork(n, OnWork(w, HydratedFields))
         /\ OnWork(w, MappedFields).key = w.key /\ OnWork(w, HydratedFields).key = w.key
         /\ SameKeys(w.stages, OnWork(w, MappedFields).stages)
         /\ SameKeys(w.stages, OnWork(w, HydratedFields).stages)
         /\ SameShotKeys(w.screenshots, OnWork(w, MappedFields).screenshots)
         /\ SameShotKeys(w.screenshots, OnWork(w, HydratedFields).screenshots)
<1> DEFINE stagesM == [j \in DOMAIN w.stages |->
                         [key |-> w.stages[j].key, of |-> w.stages[j].of,
                          fields |-> MappedFields("stages", w.stages[j].fields)]]
           stagesH == [j \in DOMAIN w.stages |->
                         [key |-> w.stages[j].key, of |-> w.stages[j].of,
                          fields |-> HydratedFields("stages", w.stages[j].fields)]]
           hotspotsM(s) == [h \in DOMAIN w.screenshots[s].hotspots |->
                              [key |-> w.screenshots[s].hotspots[h].key,
                               of |-> w.screenshots[s].hotspots[h].of,
                               fields |-> MappedFields("hotspots",
                                            w.screenshots[s].hotspots[h].fields)]]
           hotspotsH(s) == [h \in DOMAIN w.screenshots[s].hotspots |->
                              [key |-> w.screenshots[s].hotspots[h].key,
                               of |-> w.screenshots[s].hotspots[h].of,
                               fields |-> HydratedFields("hotspots",
                                            w.screenshots[s].hotspots[h].fields)]]
           shotsM == [s \in DOMAIN w.screenshots |->
                        [key |-> w.screenshots[s].key, of |-> w.screenshots[s].of,
                         fields |-> MappedFields("screenshots", w.screenshots[s].fields),
                         hotspots |-> hotspotsM(s)]]
           shotsH == [s \in DOMAIN w.screenshots |->
                        [key |-> w.screenshots[s].key, of |-> w.screenshots[s].of,
                         fields |-> HydratedFields("screenshots", w.screenshots[s].fields),
                         hotspots |-> hotspotsH(s)]]
<1>1. /\ OnWork(w, MappedFields) =
           [key |-> w.key, of |-> w.of, fields |-> MappedFields("works", w.fields),
            stages |-> stagesM, screenshots |-> shotsM]
      /\ OnWork(w, HydratedFields) =
           [key |-> w.key, of |-> w.of, fields |-> HydratedFields("works", w.fields),
            stages |-> stagesH, screenshots |-> shotsH]
  BY DEF OnWork
<1>2. AreEntries("stages", n, stagesM) /\ AreEntries("stages", n, stagesH)
  BY FieldsStayFields DEF IsWork, AreEntries, Placed, IsEntry
<1>3. SameKeys(w.stages, stagesM) /\ SameKeys(w.stages, stagesH)
  BY DEF SameKeys
<1>4. ASSUME NEW s \in DOMAIN w.screenshots
      PROVE  /\ AreEntries("hotspots", n, hotspotsM(s)) /\ AreEntries("hotspots", n, hotspotsH(s))
             /\ SameKeys(w.screenshots[s].hotspots, hotspotsM(s))
             /\ SameKeys(w.screenshots[s].hotspots, hotspotsH(s))
  <2>1. AreEntries("hotspots", n, w.screenshots[s].hotspots)
    BY DEF IsWork, AreShots, IsShot
  <2>2. AreEntries("hotspots", n, hotspotsM(s)) /\ AreEntries("hotspots", n, hotspotsH(s))
    BY <2>1, FieldsStayFields DEF AreEntries, Placed, IsEntry
  <2>3. SameKeys(w.screenshots[s].hotspots, hotspotsM(s))
        /\ SameKeys(w.screenshots[s].hotspots, hotspotsH(s))
    BY DEF SameKeys
  <2> QED BY <2>2, <2>3
<1> HIDE DEF stagesM, stagesH, hotspotsM, hotspotsH
<1>5. ASSUME NEW s \in DOMAIN w.screenshots
      PROVE  IsShot(n, shotsM[s]) /\ IsShot(n, shotsH[s])
  <2>1. IsShot(n, w.screenshots[s])
    BY DEF IsWork, AreShots
  <2>2. /\ shotsM[s] = [key |-> w.screenshots[s].key, of |-> w.screenshots[s].of,
                        fields |-> MappedFields("screenshots", w.screenshots[s].fields),
                        hotspots |-> hotspotsM(s)]
        /\ shotsH[s] = [key |-> w.screenshots[s].key, of |-> w.screenshots[s].of,
                        fields |-> HydratedFields("screenshots", w.screenshots[s].fields),
                        hotspots |-> hotspotsH(s)]
    OBVIOUS
  <2> HIDE DEF shotsM, shotsH
  <2> QED BY <1>4, <2>1, <2>2, FieldsStayFields DEF IsShot
<1>6. DOMAIN shotsM = DOMAIN w.screenshots /\ DOMAIN shotsH = DOMAIN w.screenshots
  OBVIOUS
<1>7. AreShots(n, shotsM) /\ AreShots(n, shotsH)
  <2> HIDE DEF shotsM, shotsH
  <2> QED BY <1>5, <1>6 DEF AreShots, IsWork, Placed
<1>8. SameShotKeys(w.screenshots, shotsM) /\ SameShotKeys(w.screenshots, shotsH)
  BY <1>4 DEF SameShotKeys, SameKeys
<1> HIDE DEF shotsM, shotsH
<1>9. IsWork(n, OnWork(w, MappedFields)) /\ IsWork(n, OnWork(w, HydratedFields))
  BY <1>1, <1>2, <1>7, FieldsStayFields DEF IsWork
<1> QED BY <1>1, <1>3, <1>8, <1>9

LEMMA MappingKeepsContent ==
  ASSUME NEW n \in Nat, NEW section, NEW l, IsContent(section, n, l)
  PROVE  /\ IsContent(section, n, OnEntries(section, l, MappedFields))
         /\ IsContent(section, n, OnEntries(section, l, HydratedFields))
         /\ SameKeysThroughout(section, l, OnEntries(section, l, MappedFields))
         /\ SameKeysThroughout(section, l, OnEntries(section, l, HydratedFields))
<1>1. CASE section = "works"
  <2>1. /\ OnEntries(section, l, MappedFields) = [i \in DOMAIN l |-> OnWork(l[i], MappedFields)]
        /\ OnEntries(section, l, HydratedFields) = [i \in DOMAIN l |-> OnWork(l[i], HydratedFields)]
    BY <1>1 DEF OnEntries
  <2>2. Placed(l) /\ \A i \in DOMAIN l : IsWork(n, l[i])
    BY <1>1 DEF IsContent, AreWorks
  <2> QED BY <1>1, <2>1, <2>2, MappingKeepsWorks
         DEF IsContent, AreWorks, Placed, SameKeysThroughout, SameKeys
<1>2. CASE section # "works"
  <2>1. /\ OnEntries(section, l, MappedFields) =
             [i \in DOMAIN l |-> [key |-> l[i].key, of |-> l[i].of,
                                  fields |-> MappedFields(section, l[i].fields)]]
        /\ OnEntries(section, l, HydratedFields) =
             [i \in DOMAIN l |-> [key |-> l[i].key, of |-> l[i].of,
                                  fields |-> HydratedFields(section, l[i].fields)]]
    BY <1>2 DEF OnEntries
  <2> QED BY <1>2, <2>1, FieldsStayFields
         DEF IsContent, AreEntries, Placed, IsEntry, SameKeysThroughout, SameKeys
<1> QED BY <1>1, <1>2

-----------------------------------------------------------------------------
(* Content that is given keys.                                              *)

\* A key put on an entry changes nothing else of it.
LEMMA KeyedKeeps ==
  ASSUME NEW n \in Nat, NEW k \in 0 .. n
  PROVE  /\ \A layer, e : IsEntry(layer, n, e) => IsEntry(layer, n, Keyed(e, k))
         /\ \A e : IsShot(n, e) =>
              IsShot(n, Keyed(e, k)) /\ Keyed(e, k).hotspots = e.hotspots
         /\ \A e : IsWork(n, e) =>
              /\ IsWork(n, Keyed(e, k))
              /\ Keyed(e, k).stages = e.stages /\ Keyed(e, k).screenshots = e.screenshots
<1>1. ASSUME NEW layer, NEW e, IsEntry(layer, n, e) PROVE IsEntry(layer, n, Keyed(e, k))
  <2>1. Keyed(e, k) = [key |-> k, of |-> e.of, fields |-> e.fields]
    BY <1>1 DEF Keyed, IsEntry
  <2> QED BY <1>1, <2>1 DEF IsEntry
<1>2. ASSUME NEW e, IsShot(n, e)
      PROVE  IsShot(n, Keyed(e, k)) /\ Keyed(e, k).hotspots = e.hotspots
  <2>1. Keyed(e, k) = [key |-> k, of |-> e.of, fields |-> e.fields, hotspots |-> e.hotspots]
    BY <1>2 DEF Keyed, IsShot
  <2> QED BY <1>2, <2>1 DEF IsShot
<1>3. ASSUME NEW e, IsWork(n, e)
      PROVE  /\ IsWork(n, Keyed(e, k))
             /\ Keyed(e, k).stages = e.stages /\ Keyed(e, k).screenshots = e.screenshots
  <2>1. Keyed(e, k) = [key |-> k, of |-> e.of, fields |-> e.fields, stages |-> e.stages,
                       screenshots |-> e.screenshots]
    BY <1>3 DEF Keyed, IsWork
  <2> QED BY <1>3, <2>1 DEF IsWork
<1> QED BY <1>1, <1>2, <1>3

LEMMA KeyedHasItsKey ==
  /\ \A n, layer, e, k : IsEntry(layer, n, e) => Keyed(e, k).key = k
  /\ \A n, e, k : IsShot(n, e) => Keyed(e, k).key = k
  /\ \A n, e, k : IsWork(n, e) => Keyed(e, k).key = k
<1>1. ASSUME NEW n, NEW layer, NEW e, NEW k, IsEntry(layer, n, e) PROVE Keyed(e, k).key = k
  BY <1>1 DEF IsEntry, Keyed
<1>2. ASSUME NEW n, NEW e, NEW k, IsShot(n, e) PROVE Keyed(e, k).key = k
  BY <1>2 DEF IsShot, Keyed
<1>3. ASSUME NEW n, NEW e, NEW k, IsWork(n, e) PROVE Keyed(e, k).key = k
  BY <1>3 DEF IsWork, Keyed
<1> QED BY <1>1, <1>2, <1>3

LEMMA EntriesGetKeys ==
  ASSUME NEW n \in Nat, NEW layer, NEW l, AreEntries(layer, n, l)
  PROVE  /\ AreEntries(layer, n + MaxEntries, withUniqueKeys(l, n))
         /\ UniqueKeys(withUniqueKeys(l, n))
         /\ DOMAIN withUniqueKeys(l, n) = DOMAIN l
         /\ \A i \in DOMAIN l : withUniqueKeys(l, n)[i].fields = l[i].fields
<1>1. /\ DOMAIN withUniqueKeys(l, n) = DOMAIN l /\ UniqueKeys(withUniqueKeys(l, n))
      /\ \A i \in DOMAIN l :
           \E k \in 1 .. n + MaxEntries : withUniqueKeys(l, n)[i] = Keyed(l[i], k)
  <2>1. \A i \in DOMAIN l : l[i].key \in 0 .. n /\ \A k : Keyed(l[i], k).key = k
    BY KeyedHasItsKey DEF AreEntries, IsEntry
  <2> QED BY <2>1, KeysComeOutUnique DEF AreEntries
<1>2. n + MaxEntries \in Nat /\ \A k \in 1 .. n + MaxEntries : k \in 0 .. n + MaxEntries
  BY PortfolioAssumption
<1>3. \A i \in DOMAIN l : IsEntry(layer, n + MaxEntries, l[i])
  BY PortfolioAssumption DEF AreEntries, IsEntry
<1>4. \A i \in DOMAIN l : IsEntry(layer, n + MaxEntries, withUniqueKeys(l, n)[i])
  BY <1>1, <1>2, <1>3, KeyedKeeps
<1>5. AreEntries(layer, n + MaxEntries, withUniqueKeys(l, n))
  BY <1>1, <1>4 DEF AreEntries, Placed
<1>6. ASSUME NEW i \in DOMAIN l PROVE withUniqueKeys(l, n)[i].fields = l[i].fields
  BY <1>1, <1>6 DEF AreEntries, IsEntry, Keyed
<1> QED BY <1>1, <1>5, <1>6

LEMMA ShotsGetKeys ==
  ASSUME NEW n \in Nat, NEW l, AreShots(n, l)
  PROVE  /\ AreShots(n + MaxEntries, withUniqueKeys(l, n))
         /\ UniqueKeys(withUniqueKeys(l, n))
         /\ DOMAIN withUniqueKeys(l, n) = DOMAIN l
         /\ \A i \in DOMAIN l :
              /\ withUniqueKeys(l, n)[i].fields = l[i].fields
              /\ withUniqueKeys(l, n)[i].hotspots = l[i].hotspots
<1>1. /\ DOMAIN withUniqueKeys(l, n) = DOMAIN l /\ UniqueKeys(withUniqueKeys(l, n))
      /\ \A i \in DOMAIN l :
           \E k \in 1 .. n + MaxEntries : withUniqueKeys(l, n)[i] = Keyed(l[i], k)
  <2>1. \A i \in DOMAIN l : l[i].key \in 0 .. n /\ \A k : Keyed(l[i], k).key = k
    BY KeyedHasItsKey DEF AreShots, IsShot
  <2> QED BY <2>1, KeysComeOutUnique DEF AreShots
<1>2. n + MaxEntries \in Nat /\ \A k \in 1 .. n + MaxEntries : k \in 0 .. n + MaxEntries
  BY PortfolioAssumption
<1>3. \A i \in DOMAIN l : IsShot(n + MaxEntries, l[i])
  BY PortfolioAssumption DEF AreShots, IsShot, AreEntries, IsEntry
<1>4. \A i \in DOMAIN l : IsShot(n + MaxEntries, withUniqueKeys(l, n)[i])
                          /\ withUniqueKeys(l, n)[i].hotspots = l[i].hotspots
  BY <1>1, <1>2, <1>3, KeyedKeeps
<1>5. AreShots(n + MaxEntries, withUniqueKeys(l, n))
  BY <1>1, <1>4 DEF AreShots, Placed
<1>6. ASSUME NEW i \in DOMAIN l PROVE withUniqueKeys(l, n)[i].fields = l[i].fields
  BY <1>1, <1>6 DEF AreShots, IsShot, Keyed
<1> QED BY <1>1, <1>4, <1>5, <1>6

LEMMA WorksGetKeys ==
  ASSUME NEW n \in Nat, NEW l, AreWorks(n, l)
  PROVE  /\ DOMAIN withUniqueKeys(l, n) = DOMAIN l
         /\ Placed(l) /\ UniqueKeys(withUniqueKeys(l, n))
         /\ \A i \in DOMAIN l :
              /\ withUniqueKeys(l, n)[i]
                   = [key |-> withUniqueKeys(l, n)[i].key, of |-> l[i].of,
                      fields |-> l[i].fields, stages |-> l[i].stages,
                      screenshots |-> l[i].screenshots]
              /\ withUniqueKeys(l, n)[i].key \in 0 .. n + MaxEntries
<1>1. /\ DOMAIN withUniqueKeys(l, n) = DOMAIN l /\ UniqueKeys(withUniqueKeys(l, n))
      /\ \A i \in DOMAIN l :
           \E k \in 1 .. n + MaxEntries : withUniqueKeys(l, n)[i] = Keyed(l[i], k)
  <2>1. \A i \in DOMAIN l : l[i].key \in 0 .. n /\ \A k : Keyed(l[i], k).key = k
    BY KeyedHasItsKey DEF AreWorks, IsWork
  <2> QED BY <2>1, KeysComeOutUnique DEF AreWorks
<1>2. ASSUME NEW i \in DOMAIN l
      PROVE  /\ withUniqueKeys(l, n)[i]
                  = [key |-> withUniqueKeys(l, n)[i].key, of |-> l[i].of,
                     fields |-> l[i].fields, stages |-> l[i].stages,
                     screenshots |-> l[i].screenshots]
             /\ withUniqueKeys(l, n)[i].key \in 0 .. n + MaxEntries
  <2>1. PICK k \in 1 .. n + MaxEntries : withUniqueKeys(l, n)[i] = Keyed(l[i], k)
    BY <1>1
  <2>2. IsWork(n, l[i])
    BY DEF AreWorks
  <2>3. Keyed(l[i], k) = [key |-> k, of |-> l[i].of, fields |-> l[i].fields,
                          stages |-> l[i].stages, screenshots |-> l[i].screenshots]
    BY <2>2 DEF Keyed, IsWork
  <2>4. k \in 0 .. n + MaxEntries
    BY PortfolioAssumption
  <2> QED BY <2>1, <2>3, <2>4
<1> QED BY <1>1, <1>2 DEF AreWorks

\* The children of a work, as withWorkChildKeys keys them.
LEMMA ChildrenGetKeys ==
  ASSUME NEW n \in Nat, NEW w,
         w = [key |-> w.key, of |-> w.of, fields |-> w.fields, stages |-> w.stages,
              screenshots |-> w.screenshots],
         w.key \in 0 .. n + MaxEntries, w.fields \in Fields("works"),
         AreEntries("stages", n, w.stages), AreShots(n, w.screenshots)
  PROVE  LET c == withWorkChildKeys(w, n)
         IN  /\ IsWork(n + MaxEntries, c) /\ ChildrenDistinct(c)
             /\ c.key = w.key /\ c.fields = w.fields
             /\ DOMAIN c.stages = DOMAIN w.stages
             /\ \A j \in DOMAIN w.stages : c.stages[j].fields = w.stages[j].fields
             /\ DOMAIN c.screenshots = DOMAIN w.screenshots
             /\ \A s \in DOMAIN w.screenshots :
                  /\ c.screenshots[s].fields = w.screenshots[s].fields
                  /\ DOMAIN c.screenshots[s].hotspots = DOMAIN w.screenshots[s].hotspots
                  /\ \A h \in DOMAIN w.screenshots[s].hotspots :
                       c.screenshots[s].hotspots[h].fields = w.screenshots[s].hotspots[h].fields
<1> DEFINE stages == withUniqueKeys(w.stages, n)
           shots == withUniqueKeys(w.screenshots, n)
           pointed == [i \in DOMAIN shots |->
                         [shots[i] EXCEPT !.hotspots = withUniqueKeys(shots[i].hotspots, n)]]
           c == withWorkChildKeys(w, n)
           m == n + MaxEntries
<1>1. c = [key |-> w.key, of |-> w.of, fields |-> w.fields, stages |-> stages,
           screenshots |-> pointed]
  <2>1. c = [w EXCEPT !.stages = stages, !.screenshots = pointed]
    BY DEF withWorkChildKeys
  <2> HIDE DEF c, stages, pointed
  <2> QED BY <2>1
<1>2. /\ AreEntries("stages", m, stages) /\ UniqueKeys(stages)
      /\ DOMAIN stages = DOMAIN w.stages
      /\ \A j \in DOMAIN w.stages : stages[j].fields = w.stages[j].fields
  BY EntriesGetKeys
<1>3. /\ AreShots(m, shots) /\ UniqueKeys(shots) /\ DOMAIN shots = DOMAIN w.screenshots
      /\ \A i \in DOMAIN w.screenshots :
           shots[i].fields = w.screenshots[i].fields /\ shots[i].hotspots = w.screenshots[i].hotspots
  BY ShotsGetKeys
<1>4. \A i \in DOMAIN w.screenshots :
        /\ AreEntries("hotspots", m, withUniqueKeys(w.screenshots[i].hotspots, n))
        /\ UniqueKeys(withUniqueKeys(w.screenshots[i].hotspots, n))
        /\ DOMAIN withUniqueKeys(w.screenshots[i].hotspots, n) = DOMAIN w.screenshots[i].hotspots
        /\ \A h \in DOMAIN w.screenshots[i].hotspots :
             withUniqueKeys(w.screenshots[i].hotspots, n)[h].fields
               = w.screenshots[i].hotspots[h].fields
  BY EntriesGetKeys DEF AreShots, IsShot
<1> HIDE DEF stages, shots, c, m
<1>5. ASSUME NEW i \in DOMAIN w.screenshots
      PROVE  /\ pointed[i] = [key |-> shots[i].key, of |-> shots[i].of, fields |-> shots[i].fields,
                              hotspots |-> withUniqueKeys(w.screenshots[i].hotspots, n)]
             /\ IsShot(m, pointed[i])
  <2>1. IsShot(m, shots[i])
    BY <1>3 DEF AreShots
  <2>2. pointed[i] = [key |-> shots[i].key, of |-> shots[i].of, fields |-> shots[i].fields,
                      hotspots |-> withUniqueKeys(w.screenshots[i].hotspots, n)]
    BY <1>3, <2>1 DEF IsShot
  <2> HIDE DEF pointed
  <2> QED BY <1>4, <2>1, <2>2 DEF IsShot
<1>6. DOMAIN pointed = DOMAIN w.screenshots
  BY <1>3
<1> HIDE DEF pointed
<1>7. AreShots(m, pointed)
  BY <1>5, <1>6 DEF AreShots, Placed
<1>8. IsWork(m, c)
  BY <1>1, <1>2, <1>7 DEF IsWork, m
<1>9. Distinct(pointed)
  <2>1. Distinct(shots)
    BY <1>3, UniqueIsDistinct
  <2> QED BY <1>3, <1>5, <1>6, <2>1 DEF Distinct
<1>10. ChildrenDistinct(c)
  BY <1>1, <1>2, <1>4, <1>5, <1>6, <1>9, UniqueIsDistinct DEF ChildrenDistinct
<1> QED BY <1>1, <1>2, <1>3, <1>4, <1>5, <1>6, <1>8, <1>10 DEF c, m

\* A section that is written gets a key for everything in it.
LEMMA SectionGetsKeys ==
  ASSUME NEW n \in Nat, NEW section, NEW l, IsContent(section, n, l)
  PROVE  /\ IsContent(section, n + MaxEntries, withEntryKeys(section, l, n))
         /\ AllDistinct(section, withEntryKeys(section, l, n))
<1>1. CASE section # "works"
  <2>1. withEntryKeys(section, l, n) = withUniqueKeys(l, n)
    BY <1>1 DEF withEntryKeys
  <2> QED BY <1>1, <2>1, EntriesGetKeys, UniqueIsDistinct DEF IsContent, AllDistinct
<1>2. CASE section = "works"
  <2> DEFINE keyed == withUniqueKeys(l, n)
             out == withEntryKeys(section, l, n)
  <2>1. out = [i \in DOMAIN keyed |-> withWorkChildKeys(keyed[i], n)]
    BY <1>2 DEF withEntryKeys
  <2>2. AreWorks(n, l)
    BY <1>2 DEF IsContent
  <2>3. /\ DOMAIN keyed = DOMAIN l /\ Placed(l) /\ UniqueKeys(keyed)
        /\ \A i \in DOMAIN l :
             /\ keyed[i] = [key |-> keyed[i].key, of |-> l[i].of, fields |-> l[i].fields,
                            stages |-> l[i].stages, screenshots |-> l[i].screenshots]
             /\ keyed[i].key \in 0 .. n + MaxEntries
    BY <2>2, WorksGetKeys
  <2> HIDE DEF keyed, out
  <2>4. ASSUME NEW i \in DOMAIN l
        PROVE  IsWork(n + MaxEntries, out[i]) /\ ChildrenDistinct(out[i]) /\ out[i].key = keyed[i].key
    <3>1. /\ l[i].fields \in Fields("works")
          /\ AreEntries("stages", n, l[i].stages) /\ AreShots(n, l[i].screenshots)
      BY <2>2 DEF AreWorks, IsWork
    <3>2. /\ keyed[i] = [key |-> keyed[i].key, of |-> keyed[i].of, fields |-> keyed[i].fields,
                         stages |-> keyed[i].stages, screenshots |-> keyed[i].screenshots]
          /\ keyed[i].key \in 0 .. n + MaxEntries
          /\ keyed[i].fields \in Fields("works")
          /\ AreEntries("stages", n, keyed[i].stages) /\ AreShots(n, keyed[i].screenshots)
      BY <2>3, <3>1
    <3>3. out[i] = withWorkChildKeys(keyed[i], n)
      BY <2>1, <2>3
    <3> QED BY <3>2, <3>3, ChildrenGetKeys
  <2>5. DOMAIN out = DOMAIN l
    BY <2>1, <2>3
  <2>6. Distinct(out)
    BY <2>3, <2>4, <2>5 DEF UniqueKeys, Distinct
  <2> QED BY <1>2, <2>3, <2>4, <2>5, <2>6 DEF IsContent, AreWorks, Placed, AllDistinct, out
<1> QED BY <1>1, <1>2

\* Keys for the entries and the stages, as the backfill gives them.
EntriesAndStages(section, l, n) ==
  LET keyed == withUniqueKeys(l, n)
  IN  IF section # "works" THEN keyed
      ELSE [i \in DOMAIN keyed |->
              [keyed[i] EXCEPT !.stages = withUniqueKeys(keyed[i].stages, n)]]

\* What it leaves as it is was distinct, and so is the whole.
LEMMA EntriesAndStagesGetKeys ==
  ASSUME NEW n \in Nat, NEW section, NEW l, IsContent(section, n, l), AllDistinct(section, l)
  PROVE  /\ IsContent(section, n + MaxEntries, EntriesAndStages(section, l, n))
         /\ AllDistinct(section, EntriesAndStages(section, l, n))
<1>1. CASE section # "works"
  <2>1. EntriesAndStages(section, l, n) = withUniqueKeys(l, n)
    BY <1>1 DEF EntriesAndStages
  <2> QED BY <1>1, <2>1, EntriesGetKeys, UniqueIsDistinct DEF IsContent, AllDistinct
<1>2. CASE section = "works"
  <2> DEFINE keyed == withUniqueKeys(l, n)
             m == n + MaxEntries
             out == EntriesAndStages(section, l, n)
  <2>1. out = [i \in DOMAIN keyed |-> [keyed[i] EXCEPT !.stages = withUniqueKeys(keyed[i].stages, n)]]
    BY <1>2 DEF EntriesAndStages
  <2>2. AreWorks(n, l)
    BY <1>2 DEF IsContent
  <2>3. /\ DOMAIN keyed = DOMAIN l /\ Placed(l) /\ UniqueKeys(keyed)
        /\ \A i \in DOMAIN l :
             /\ keyed[i] = [key |-> keyed[i].key, of |-> l[i].of, fields |-> l[i].fields,
                            stages |-> l[i].stages, screenshots |-> l[i].screenshots]
             /\ keyed[i].key \in 0 .. m
    BY <2>2, WorksGetKeys
  <2>4. IsContent("works", m, l)
    BY <1>2, KeysGrow, PortfolioAssumption
  <2> HIDE DEF keyed, out, m
  <2>5. ASSUME NEW i \in DOMAIN l
        PROVE  IsWork(m, out[i]) /\ ChildrenDistinct(out[i]) /\ out[i].key = keyed[i].key
    <3> DEFINE stages == withUniqueKeys(l[i].stages, n)
    <3>1. /\ l[i].fields \in Fields("works")
          /\ AreEntries("stages", n, l[i].stages) /\ AreShots(m, l[i].screenshots)
      BY <2>2, <2>4 DEF AreWorks, IsWork, IsContent
    <3>2. AreEntries("stages", m, stages) /\ UniqueKeys(stages)
      BY <3>1, EntriesGetKeys DEF m
    <3>3. out[i] = [keyed[i] EXCEPT !.stages = withUniqueKeys(keyed[i].stages, n)]
      BY <2>1, <2>3
    <3> HIDE DEF stages
    <3>4. out[i] = [key |-> keyed[i].key, of |-> l[i].of, fields |-> l[i].fields,
                    stages |-> stages, screenshots |-> l[i].screenshots]
      BY <2>3, <3>3 DEF stages
    <3>5. IsWork(m, out[i])
      BY <2>3, <3>1, <3>2, <3>4 DEF IsWork
    <3>6. ChildrenDistinct(l[i])
      BY <1>2 DEF AllDistinct
    <3>7. ChildrenDistinct(out[i])
      BY <3>2, <3>4, <3>6, UniqueIsDistinct DEF ChildrenDistinct
    <3> QED BY <3>4, <3>5, <3>7
  <2>6. DOMAIN out = DOMAIN l
    BY <2>1, <2>3
  <2>7. Distinct(out)
    BY <2>3, <2>5, <2>6 DEF UniqueKeys, Distinct
  <2> QED BY <1>2, <2>3, <2>5, <2>6, <2>7 DEF IsContent, AreWorks, Placed, AllDistinct, out, m
<1> QED BY <1>1, <1>2

-----------------------------------------------------------------------------
(* What clients send, and what was stored at first, is content.             *)

IsOf(section, n, e) == IF section = "works" THEN IsWork(n, e) ELSE IsEntry(section, n, e)

LEMMA ContentIsOfEntries ==
  ASSUME NEW section, NEW n, NEW l
  PROVE  IsContent(section, n, l) <=> Placed(l) /\ \A i \in DOMAIN l : IsOf(section, n, l[i])
BY DEF IsContent, AreWorks, AreEntries, IsOf

LEMMA ShapesAreFields ==
  ASSUME NEW layer, NEW rest \in {Undefined, Null, Given}
  PROVE  Shape(layer, rest) \in Fields(layer)
BY DEF Shape, Fields, Value

LEMMA FreshIsEntry ==
  ASSUME NEW n \in Nat, NEW layer, NEW rest \in {Undefined, Null, Given}, NEW drawn, NEW place
  PROVE  IsEntry(layer, n, Fresh(layer, rest, drawn, place))
BY ShapesAreFields DEF IsEntry, Fresh, NoKey

LEMMA FreshIsWork ==
  ASSUME NEW n \in Nat, NEW rest \in {Undefined, Null, Given}, NEW stages \in 0 .. MaxEntries,
         NEW shots \in 0 .. MaxEntries, NEW drawn
  PROVE  IsWork(n, FreshWork(rest, stages, shots, drawn))
<1> DEFINE told == [j \in 1 .. stages |-> Fresh("stages", rest, drawn, j)]
           shown == [s \in 1 .. shots |-> FreshShot(rest, 1, drawn)]
           pointed == [h \in 1 .. 1 |-> Fresh("hotspots", rest, drawn, h)]
<1>1. AreEntries("stages", n, told)
  BY FreshIsEntry DEF AreEntries, Placed
<1>2. AreEntries("hotspots", n, pointed)
  BY FreshIsEntry, PortfolioAssumption DEF AreEntries, Placed
<1>3. FreshShot(rest, 1, drawn) =
        [key |-> NoKey, of |-> <<"screenshots", drawn, 1>>, fields |-> Shape("screenshots", rest),
         hotspots |-> pointed]
  BY DEF FreshShot
<1> HIDE DEF pointed
<1>4. IsShot(n, FreshShot(rest, 1, drawn))
  BY <1>2, <1>3, ShapesAreFields DEF IsShot, NoKey
<1>5. AreShots(n, shown)
  BY <1>4 DEF AreShots, Placed
<1>6. FreshWork(rest, stages, shots, drawn) =
        [key |-> NoKey, of |-> <<"works", drawn, stages>>, fields |-> Shape("works", rest),
         stages |-> told, screenshots |-> shown]
  BY DEF FreshWork
<1> HIDE DEF told, shown
<1> QED BY <1>1, <1>5, <1>6, ShapesAreFields DEF IsWork, NoKey

LEMMA NewIsOf ==
  ASSUME minted \in Nat, NEW n \in Nat, NEW section \in ListSections, NEW e \in NewEntries(section)
  PROVE  IsOf(section, n, e)
<1>1. CASE section = "works"
  <2>1. /\ 0 \in 0 .. MaxEntries /\ 1 \in 0 .. MaxEntries /\ MaxEntries \in 0 .. MaxEntries
        /\ \A rest \in Rest : rest \in {Undefined, Null, Given}
    BY PortfolioAssumption DEF Rest
  <2>2. \/ \E rest \in Rest : e = FreshWork(rest, MaxEntries, 0, minted)
        \/ e = FreshWork(Given, 0, 1, minted)
    BY <1>1 DEF NewEntries
  <2>3. IsWork(n, e)
    BY <2>1, <2>2, FreshIsWork
  <2> QED BY <1>1, <2>3 DEF IsOf
<1>2. CASE section # "works"
  <2>1. \A rest \in Rest : IsEntry(section, n, Fresh(section, rest, minted, 1))
    BY FreshIsEntry DEF Rest
  <2>2. ASSUME section = "media", e = [Fresh(section, Given, minted, 1) EXCEPT !.fields["type"] = "video"]
        PROVE  IsEntry(section, n, e)
    <3> DEFINE fields == [Shape(section, Given) EXCEPT !["type"] = "video"]
    <3>1. e = [key |-> NoKey, of |-> <<section, minted, 1>>, fields |-> fields]
      BY <2>2 DEF Fresh
    <3>2. fields \in Fields(section)
      BY ShapesAreFields DEF Fields, Value
    <3> HIDE DEF fields
    <3> QED BY <3>1, <3>2 DEF IsEntry, NoKey
  <2>3. \/ \E rest \in Rest : e = Fresh(section, rest, minted, 1)
        \/ /\ section = "media"
           /\ e = [Fresh(section, Given, minted, 1) EXCEPT !.fields["type"] = "video"]
    BY <1>2 DEF NewEntries
  <2> QED BY <1>2, <2>1, <2>2, <2>3 DEF IsOf
<1> QED BY <1>1, <1>2

LEMMA UnkeyedIsOf ==
  ASSUME NEW n \in Nat, NEW section, NEW e, IsOf(section, n, e)
  PROVE  IsOf(section, n, Unkeyed(section, e))
<1>0. NoKey \in 0 .. n
  BY DEF NoKey
<1>1. CASE section # "works"
  BY <1>0, <1>1, KeyedKeeps DEF IsOf, Unkeyed
<1>2. CASE section = "works"
  <2> DEFINE stages == [j \in DOMAIN e.stages |-> Keyed(e.stages[j], NoKey)]
             hotspots(s) == [h \in DOMAIN e.screenshots[s].hotspots |->
                               Keyed(e.screenshots[s].hotspots[h], NoKey)]
             shots == [s \in DOMAIN e.screenshots |->
                         [Keyed(e.screenshots[s], NoKey) EXCEPT !.hotspots = hotspots(s)]]
  <2>1. IsWork(n, e)
    BY <1>2 DEF IsOf
  <2>2. Unkeyed(section, e) = [Keyed(e, NoKey) EXCEPT !.stages = stages, !.screenshots = shots]
    BY <1>2 DEF Unkeyed
  <2>3. AreEntries("stages", n, stages)
    BY <1>0, <2>1, KeyedKeeps DEF IsWork, AreEntries, Placed
  <2>4. \A s \in DOMAIN e.screenshots : AreEntries("hotspots", n, hotspots(s))
    BY <1>0, <2>1, KeyedKeeps DEF IsWork, AreShots, IsShot, AreEntries, Placed
  <2> HIDE DEF stages, hotspots
  <2>5. ASSUME NEW s \in DOMAIN e.screenshots PROVE IsShot(n, shots[s])
    <3>1. IsShot(n, Keyed(e.screenshots[s], NoKey))
      BY <1>0, <2>1, KeyedKeeps DEF IsWork, AreShots
    <3> DEFINE shot == Keyed(e.screenshots[s], NoKey)
    <3>2. shots[s] = [shot EXCEPT !.hotspots = hotspots(s)]
      OBVIOUS
    <3> HIDE DEF shot, shots
    <3>3. IsShot(n, shot)
      BY <3>1 DEF shot
    <3>4. shots[s] = [key |-> shot.key, of |-> shot.of, fields |-> shot.fields,
                      hotspots |-> hotspots(s)]
      BY <3>2, <3>3 DEF IsShot
    <3> QED BY <2>4, <3>3, <3>4 DEF IsShot
  <2>6. AreShots(n, shots)
    <3>1. DOMAIN shots = DOMAIN e.screenshots
      OBVIOUS
    <3> HIDE DEF shots
    <3> QED BY <2>1, <2>5, <3>1 DEF AreShots, Placed, IsWork
  <2> HIDE DEF shots
  <2> DEFINE work == Keyed(e, NoKey)
  <2>7. IsWork(n, work)
    BY <1>0, <2>1, KeyedKeeps
  <2>8. Unkeyed(section, e) = [work EXCEPT !.stages = stages, !.screenshots = shots]
    BY <2>2
  <2> HIDE DEF work
  <2>9. Unkeyed(section, e) = [key |-> work.key, of |-> work.of, fields |-> work.fields,
                               stages |-> stages, screenshots |-> shots]
    BY <2>7, <2>8 DEF IsWork
  <2> QED BY <1>2, <2>3, <2>6, <2>7, <2>9 DEF IsWork, IsOf
<1> QED BY <1>1, <1>2

LEMMA LabelsKeepContent ==
  ASSUME NEW n \in Nat, NEW section, NEW l, IsContent(section, n, l)
  PROVE  IsContent(section, n, Labelled(l))
<1>1. Placed(l) /\ \A i \in DOMAIN l : IsOf(section, n, l[i])
  BY ContentIsOfEntries
<1>2. \A e, of : IsOf(section, n, e) => IsOf(section, n, [e EXCEPT !.of = of])
  <2>1. ASSUME NEW e, NEW of, IsEntry(section, n, e) PROVE IsEntry(section, n, [e EXCEPT !.of = of])
    <3>1. [e EXCEPT !.of = of] = [key |-> e.key, of |-> of, fields |-> e.fields]
      BY <2>1 DEF IsEntry
    <3> QED BY <2>1, <3>1 DEF IsEntry
  <2>2. ASSUME NEW e, NEW of, IsWork(n, e) PROVE IsWork(n, [e EXCEPT !.of = of])
    <3>1. [e EXCEPT !.of = of] = [key |-> e.key, of |-> of, fields |-> e.fields,
                                  stages |-> e.stages, screenshots |-> e.screenshots]
      BY <2>2 DEF IsWork
    <3> QED BY <2>2, <3>1 DEF IsWork
  <2> QED BY <2>1, <2>2 DEF IsOf
<1>3. /\ DOMAIN Labelled(l) = DOMAIN l
      /\ \A i \in DOMAIN l : \/ Labelled(l)[i] = l[i]
                             \/ Labelled(l)[i] = [l[i] EXCEPT !.of = Append(l[i].of, i)]
  BY DEF Labelled
<1>4. ASSUME NEW i \in DOMAIN l PROVE IsOf(section, n, Labelled(l)[i])
  <2>1. IsOf(section, n, l[i])
    BY <1>1
  <2>2. IsOf(section, n, [l[i] EXCEPT !.of = Append(l[i].of, i)])
    BY <1>2, <2>1
  <2> QED BY <1>3, <2>1, <2>2
<1>5. Placed(Labelled(l))
  BY <1>1, <1>3 DEF Placed
<1> QED BY <1>3, <1>4, <1>5, ContentIsOfEntries

LEMMA BodiesAreContent ==
  ASSUME minted \in Nat, NEW section \in ListSections, NEW view,
         IsContent(section, minted, view), NEW body \in Bodies(section, view)
  PROVE  IsContent(section, minted, body)
<1> DEFINE kept == {view[i] : i \in DOMAIN view}
           entries == kept \cup {Unkeyed(section, e) : e \in kept} \cup NewEntries(section)
<1>1. \E list \in Lists(entries) : body = Labelled(list)
  BY DEF Bodies, ListBodies
<1>2. \A e \in kept : IsOf(section, minted, e)
  BY ContentIsOfEntries
<1> HIDE DEF kept
<1>3. \A e \in entries : IsOf(section, minted, e)
  BY <1>2, UnkeyedIsOf, NewIsOf
<1> HIDE DEF entries
<1>4. PICK list \in Lists(entries) : body = Labelled(list)
  BY <1>1
<1>5. PICK k \in 0 .. MaxEntries : list \in [1 .. k -> entries]
  BY DEF Lists
<1>6. IsContent(section, minted, list)
  BY <1>3, <1>5, ContentIsOfEntries DEF Placed
<1> QED BY <1>4, <1>6, LabelsKeepContent

-----------------------------------------------------------------------------
(* What is stored when a behaviour begins.                                  *)

LEMMA LegacyIsContent ==
  ASSUME NEW section \in ListSections
  PROVE  IsContent(section, 0, Legacy(section)) /\ AllDistinct(section, Legacy(section))
<1>0. 0 \in Nat /\ 0 \in 0 .. MaxEntries /\ 1 \in 0 .. MaxEntries /\ MaxEntries \in Nat
      /\ Undefined \in {Undefined, Null, Given}
  BY PortfolioAssumption
<1>1. CASE section # "works"
  <2> DEFINE list == <<Fresh(section, Undefined, 0, 1)>>
  <2>1. IsContent(section, 0, list)
    BY <1>0, <1>1, FreshIsEntry DEF IsContent, AreEntries, Placed
  <2>2. Legacy(section) = Labelled(list) /\ DOMAIN Labelled(list) = {1}
    BY <1>1 DEF Legacy, Labelled
  <2> HIDE DEF list
  <2>3. Distinct(Legacy(section))
    BY <2>2 DEF Distinct
  <2> QED BY <1>0, <1>1, <2>1, <2>2, <2>3, LabelsKeepContent DEF AllDistinct
<1>2. CASE section = "works"
  <2> DEFINE shots == <<FreshShot(Undefined, 0, 0)>>
             fresh == FreshWork(Undefined, 1, 1, 0)
             work == [fresh EXCEPT !.screenshots = shots]
             list == <<work>>
  <2>1. FreshShot(Undefined, 0, 0) =
          [key |-> NoKey, of |-> <<"screenshots", 0, 1>>,
           fields |-> Shape("screenshots", Undefined),
           hotspots |-> [h \in 1 .. 0 |-> Fresh("hotspots", Undefined, 0, h)]]
    BY DEF FreshShot
  <2>2. AreEntries("hotspots", 0, [h \in 1 .. 0 |-> Fresh("hotspots", Undefined, 0, h)])
    BY <1>0, FreshIsEntry DEF AreEntries, Placed
  <2>3. IsShot(0, FreshShot(Undefined, 0, 0)) /\ DOMAIN FreshShot(Undefined, 0, 0).hotspots = {}
    BY <1>0, <2>1, <2>2, ShapesAreFields DEF IsShot, NoKey
  <2>4. DOMAIN shots = {1} /\ shots[1] = FreshShot(Undefined, 0, 0) /\ {1} = 1 .. 1
    OBVIOUS
  <2> HIDE DEF shots
  <2>5. AreShots(0, shots)
    BY <1>0, <2>3, <2>4 DEF AreShots, Placed
  <2>6. IsWork(0, fresh)
    BY <1>0, FreshIsWork
  <2>7. DOMAIN fresh.stages = {1}
    BY DEF FreshWork
  <2>8. list = <<work>> /\ work = [fresh EXCEPT !.screenshots = shots]
    OBVIOUS
  <2> HIDE DEF fresh, work
  <2>9. work = [key |-> fresh.key, of |-> fresh.of, fields |-> fresh.fields,
                stages |-> fresh.stages, screenshots |-> shots]
    BY <2>6, <2>8 DEF IsWork
  <2>10. IsWork(0, work)
    BY <2>5, <2>6, <2>9 DEF IsWork
  <2>11. IsContent(section, 0, list)
    BY <1>0, <1>2, <2>4, <2>10 DEF IsContent, AreWorks, Placed
  <2>12. Legacy(section) = Labelled(list)
    BY <1>2 DEF Legacy, work, fresh, shots
  <2> HIDE DEF list
  <2>13. DOMAIN Labelled(list) = {1} /\ (Labelled(list)[1] = work
           \/ Labelled(list)[1] = [work EXCEPT !.of = Append(work.of, 1)])
    <3>1. DOMAIN list = {1} /\ list[1] = work
      BY <2>8
    <3>2. DOMAIN Labelled(list) = {1}
      BY <3>1 DEF Labelled
    <3>3. Labelled(list)[1] = IF Len(list[1].of) = 3 THEN [list[1] EXCEPT !.of = Append(list[1].of, 1)]
                              ELSE list[1]
      BY <3>1 DEF Labelled
    <3>4. Labelled(list)[1] = IF Len(work.of) = 3 THEN [work EXCEPT !.of = Append(work.of, 1)]
                              ELSE work
      BY <3>1, <3>3
    <3> QED BY <3>2, <3>4
  <2>14. ChildrenDistinct(work)
    BY <2>3, <2>4, <2>7, <2>9 DEF ChildrenDistinct, Distinct
  <2>15. [work EXCEPT !.of = Append(work.of, 1)].stages = work.stages
         /\ [work EXCEPT !.of = Append(work.of, 1)].screenshots = work.screenshots
    BY <2>9
  <2>16. ChildrenDistinct(Labelled(list)[1])
    BY <2>13, <2>14, <2>15 DEF ChildrenDistinct
  <2>17. AllDistinct(section, Legacy(section))
    BY <2>12, <2>13, <2>16 DEF AllDistinct, Distinct
  <2> QED BY <1>0, <2>11, <2>12, <2>17, LabelsKeepContent
<1> QED BY <1>1, <1>2

LEMMA FirstIsContent ==
  ASSUME NEW section \in ListSections, NEW age \in Ages
  PROVE  /\ IsContent(section, MaxEntries, FirstEntries(section, age))
         /\ AllDistinct(section, FirstEntries(section, age))
<1>0. 0 \in Nat /\ MaxEntries \in Nat /\ 0 + MaxEntries = MaxEntries /\ 0 <= MaxEntries
  BY PortfolioAssumption
<1>1. IsContent(section, 0, Legacy(section)) /\ AllDistinct(section, Legacy(section))
  BY LegacyIsContent
<1>2. CASE age = "unkeyed"
  <2>1. FirstEntries(section, age) = Legacy(section)
    BY <1>2 DEF FirstEntries
  <2> QED BY <1>0, <1>1, <2>1, KeysGrow
<1>3. CASE age = "unpointed"
  <2>1. FirstEntries(section, age) = EntriesAndStages(section, Legacy(section), 0)
    BY <1>3 DEF FirstEntries, EntriesAndStages
  <2>2. /\ IsContent(section, 0 + MaxEntries, EntriesAndStages(section, Legacy(section), 0))
        /\ AllDistinct(section, EntriesAndStages(section, Legacy(section), 0))
    BY <1>0, <1>1, EntriesAndStagesGetKeys
  <2> QED BY <1>0, <2>1, <2>2
<1>4. CASE age = "created"
  <2> DEFINE mapped == OnEntries(section, Legacy(section), MappedFields)
  <2>1. FirstEntries(section, age) = withEntryKeys(section, mapped, 0)
    BY <1>4 DEF FirstEntries
  <2>2. IsContent(section, 0, mapped)
    BY <1>0, <1>1, MappingKeepsContent
  <2> HIDE DEF mapped
  <2>3. /\ IsContent(section, 0 + MaxEntries, withEntryKeys(section, mapped, 0))
        /\ AllDistinct(section, withEntryKeys(section, mapped, 0))
    BY <1>0, <2>2, SectionGetsKeys
  <2> QED BY <1>0, <2>1, <2>3
<1> QED BY <1>2, <1>3, <1>4 DEF Ages

-----------------------------------------------------------------------------
(* What the DTOs accept, the schema stores.                                 *)

ListLayers == ListSections \cup {"stages", "screenshots", "hotspots"}

LEMMA RequiredMustBeSent ==
  ASSUME NEW layer \in ListLayers
  PROVE  Layers[layer].schema.required \subseteq Layers[layer].dto.must
BY DEF ListLayers, ListSections, KEYED_ARRAY_SECTIONS, Layers, Layer, Dto, Schema,
       WorkEntryDto, StageEntryDto, ScreenshotDto, HotspotDto, TimelineEntryDto,
       CapabilityEntryDto, OfferingEntryDto, MetricEntryDto, TestimonialEntryDto,
       TeamMemberEntryDto, MediaEntryDto, ContentEntryDto,
       WorkSchema, StageSchema, ScreenshotSchema, HotspotSchema, TimelineSchema,
       CapabilitySchema, OfferingSchema, MetricSchema, TestimonialSchema,
       TeamMemberSchema, MediaSchema, ContentSchema

LEMMA AcceptedIsStorable ==
  ASSUME NEW layer \in ListLayers, NEW f \in Fields(layer), Accepted(Layers[layer].dto, f)
  PROVE  Storable(Layers[layer].schema, MappedFields(layer, f))
<1>1. ASSUME NEW g \in Layers[layer].schema.required
      PROVE  MappedFields(layer, f)[g] \notin Absent
  <2>1. g \in Layers[layer].dto.must
    BY RequiredMustBeSent
  <2>2. g \in DOMAIN f /\ f[g] \notin Absent
    BY <2>1 DEF Fields, FieldsOf, Accepted
  <2>3. MappedFields(layer, f)[g] = f[g]
    BY <2>2 DEF MappedFields, Mapped
  <2> QED BY <2>2, <2>3
<1> QED BY <1>1 DEF Storable

LEMMA FieldsOfEntries ==
  ASSUME NEW section \in ListSections, section # "works", NEW l
  PROVE  FieldsIn(section, l) = {[layer |-> section, fields |-> l[i].fields] : i \in DOMAIN l}
<1>1. section \notin ObjectSections
  BY DEF ListSections, KEYED_ARRAY_SECTIONS, ObjectSections
<1> QED BY <1>1 DEF FieldsIn

\* The fields found in a work, and in what is nested in it.
OfWork(w, x) ==
  \/ x = [layer |-> "works", fields |-> w.fields]
  \/ \E j \in DOMAIN w.stages : x = [layer |-> "stages", fields |-> w.stages[j].fields]
  \/ \E s \in DOMAIN w.screenshots :
       \/ x = [layer |-> "screenshots", fields |-> w.screenshots[s].fields]
       \/ \E h \in DOMAIN w.screenshots[s].hotspots :
            x = [layer |-> "hotspots", fields |-> w.screenshots[s].hotspots[h].fields]

LEMMA FieldsOfWorks ==
  ASSUME NEW l
  PROVE  \A x : x \in FieldsIn("works", l) <=> \E i \in DOMAIN l : OfWork(l[i], x)
<1> DEFINE plain == {[layer |-> "works", fields |-> l[i].fields] : i \in DOMAIN l}
           told(i) == {[layer |-> "stages", fields |-> l[i].stages[j].fields] :
                         j \in DOMAIN l[i].stages}
           shot(s) == {[layer |-> "screenshots", fields |-> s.fields]}
                        \cup {[layer |-> "hotspots", fields |-> s.hotspots[h].fields] :
                                h \in DOMAIN s.hotspots}
           shown(i) == UNION {shot(s) : s \in {l[i].screenshots[n] : n \in DOMAIN l[i].screenshots}}
<1>1. "works" \notin ObjectSections
  BY DEF ObjectSections
<1>2. FieldsIn("works", l) = plain \cup UNION {told(i) \cup shown(i) : i \in DOMAIN l}
  BY <1>1 DEF FieldsIn
<1>3. \A x : x \in plain <=> \E i \in DOMAIN l : x = [layer |-> "works", fields |-> l[i].fields]
  OBVIOUS
<1>4. \A x, i : x \in told(i) <=>
        \E j \in DOMAIN l[i].stages : x = [layer |-> "stages", fields |-> l[i].stages[j].fields]
  OBVIOUS
<1>5. \A x, s : x \in shot(s) <=>
        \/ x = [layer |-> "screenshots", fields |-> s.fields]
        \/ \E h \in DOMAIN s.hotspots : x = [layer |-> "hotspots", fields |-> s.hotspots[h].fields]
  OBVIOUS
<1> HIDE DEF plain, told, shot
<1>6. \A x, i : x \in shown(i) <=> \E s \in DOMAIN l[i].screenshots : x \in shot(l[i].screenshots[s])
  OBVIOUS
<1> HIDE DEF shown
<1>7. \A x : x \in FieldsIn("works", l) <=>
        x \in plain \/ \E i \in DOMAIN l : x \in told(i) \/ x \in shown(i)
  BY <1>2
<1> QED BY <1>3, <1>4, <1>5, <1>6, <1>7 DEF OfWork

\* Two works with the same fields, everywhere.
SameFields(a, b) ==
  /\ a.fields = b.fields
  /\ DOMAIN a.stages = DOMAIN b.stages
  /\ \A j \in DOMAIN a.stages : a.stages[j].fields = b.stages[j].fields
  /\ DOMAIN a.screenshots = DOMAIN b.screenshots
  /\ \A s \in DOMAIN a.screenshots :
       /\ a.screenshots[s].fields = b.screenshots[s].fields
       /\ DOMAIN a.screenshots[s].hotspots = DOMAIN b.screenshots[s].hotspots
       /\ \A h \in DOMAIN a.screenshots[s].hotspots :
            a.screenshots[s].hotspots[h].fields = b.screenshots[s].hotspots[h].fields

LEMMA SameFieldsInside ==
  ASSUME NEW a, NEW b, SameFields(a, b), NEW x, OfWork(a, x)
  PROVE  OfWork(b, x)
BY DEF OfWork, SameFields

LEMMA KeysLeaveFields ==
  ASSUME NEW n \in Nat, NEW section \in ListSections, NEW l, IsContent(section, n, l),
         NEW out \in {withEntryKeys(section, l, n), EntriesAndStages(section, l, n)}
  PROVE  /\ DOMAIN out = DOMAIN l
         /\ \A i \in DOMAIN l : IF section = "works" THEN SameFields(out[i], l[i])
                                ELSE out[i].fields = l[i].fields
<1> DEFINE keyed == withUniqueKeys(l, n)
           whole == withEntryKeys(section, l, n)
           told == EntriesAndStages(section, l, n)
<1>1. CASE section # "works"
  <2>1. whole = keyed /\ told = keyed
    BY <1>1 DEF withEntryKeys, EntriesAndStages
  <2>2. DOMAIN keyed = DOMAIN l /\ \A i \in DOMAIN l : keyed[i].fields = l[i].fields
    BY <1>1, EntriesGetKeys DEF IsContent
  <2> QED BY <1>1, <2>1, <2>2
<1>2. CASE section = "works"
  <2>1. /\ whole = [i \in DOMAIN keyed |-> withWorkChildKeys(keyed[i], n)]
        /\ told = [i \in DOMAIN keyed |->
                     [keyed[i] EXCEPT !.stages = withUniqueKeys(keyed[i].stages, n)]]
    BY <1>2 DEF withEntryKeys, EntriesAndStages
  <2>2. AreWorks(n, l)
    BY <1>2 DEF IsContent
  <2>3. /\ DOMAIN keyed = DOMAIN l
        /\ \A i \in DOMAIN l :
             /\ keyed[i] = [key |-> keyed[i].key, of |-> l[i].of, fields |-> l[i].fields,
                            stages |-> l[i].stages, screenshots |-> l[i].screenshots]
             /\ keyed[i].key \in 0 .. n + MaxEntries
    BY <2>2, WorksGetKeys
  <2> HIDE DEF keyed, whole, told
  <2>4. ASSUME NEW i \in DOMAIN l
        PROVE  SameFields(whole[i], l[i]) /\ SameFields(told[i], l[i])
    <3> DEFINE w == keyed[i]
               stages == withUniqueKeys(l[i].stages, n)
    <3>1. /\ l[i].fields \in Fields("works")
          /\ AreEntries("stages", n, l[i].stages) /\ AreShots(n, l[i].screenshots)
      BY <2>2 DEF AreWorks, IsWork
    <3>2. /\ w = [key |-> w.key, of |-> w.of, fields |-> w.fields, stages |-> w.stages,
                  screenshots |-> w.screenshots]
          /\ w.key \in 0 .. n + MaxEntries /\ w.fields = l[i].fields
          /\ w.stages = l[i].stages /\ w.screenshots = l[i].screenshots
      BY <2>3
    <3>3. whole[i] = withWorkChildKeys(w, n) /\ told[i] = [w EXCEPT !.stages = stages]
      BY <2>1, <2>3, <3>2
    <3>4. DOMAIN stages = DOMAIN l[i].stages
          /\ \A j \in DOMAIN l[i].stages : stages[j].fields = l[i].stages[j].fields
      BY <3>1, EntriesGetKeys
    <3> HIDE DEF w, stages
    <3>5. SameFields(whole[i], l[i])
      <4>1. LET c == withWorkChildKeys(w, n)
            IN  /\ c.fields = w.fields
                /\ DOMAIN c.stages = DOMAIN w.stages
                /\ \A j \in DOMAIN w.stages : c.stages[j].fields = w.stages[j].fields
                /\ DOMAIN c.screenshots = DOMAIN w.screenshots
                /\ \A s \in DOMAIN w.screenshots :
                     /\ c.screenshots[s].fields = w.screenshots[s].fields
                     /\ DOMAIN c.screenshots[s].hotspots = DOMAIN w.screenshots[s].hotspots
                     /\ \A h \in DOMAIN w.screenshots[s].hotspots :
                          c.screenshots[s].hotspots[h].fields
                            = w.screenshots[s].hotspots[h].fields
        BY <3>1, <3>2, ChildrenGetKeys
      <4> QED BY <3>2, <3>3, <4>1 DEF SameFields
    <3>6. told[i] = [key |-> w.key, of |-> w.of, fields |-> l[i].fields, stages |-> stages,
                     screenshots |-> l[i].screenshots]
      BY <3>2, <3>3
    <3>7. SameFields(told[i], l[i])
      BY <3>4, <3>6 DEF SameFields
    <3> QED BY <3>5, <3>7
  <2>5. DOMAIN whole = DOMAIN l /\ DOMAIN told = DOMAIN l
    BY <2>1, <2>3
  <2> QED BY <1>2, <2>4, <2>5 DEF whole, told
<1> QED BY <1>1, <1>2

LEMMA KeysKeepFields ==
  ASSUME NEW n \in Nat, NEW section \in ListSections, NEW l, IsContent(section, n, l)
  PROVE  /\ FieldsIn(section, withEntryKeys(section, l, n)) \subseteq FieldsIn(section, l)
         /\ FieldsIn(section, EntriesAndStages(section, l, n)) \subseteq FieldsIn(section, l)
<1>1. ASSUME NEW out \in {withEntryKeys(section, l, n), EntriesAndStages(section, l, n)}
      PROVE  FieldsIn(section, out) \subseteq FieldsIn(section, l)
  <2>1. DOMAIN out = DOMAIN l
        /\ \A i \in DOMAIN l : IF section = "works" THEN SameFields(out[i], l[i])
                               ELSE out[i].fields = l[i].fields
    BY KeysLeaveFields
  <2>2. CASE section # "works"
    BY <2>1, <2>2, FieldsOfEntries
  <2>3. CASE section = "works"
    BY <2>1, <2>3, SameFieldsInside, FieldsOfWorks
  <2> QED BY <2>2, <2>3
<1> QED BY <1>1

\* The same work, with the fields a layer makes of them.
IsMapped(a, b) ==
  /\ a.fields = MappedFields("works", b.fields)
  /\ DOMAIN a.stages = DOMAIN b.stages
  /\ \A j \in DOMAIN b.stages : a.stages[j].fields = MappedFields("stages", b.stages[j].fields)
  /\ DOMAIN a.screenshots = DOMAIN b.screenshots
  /\ \A s \in DOMAIN b.screenshots :
       /\ a.screenshots[s].fields = MappedFields("screenshots", b.screenshots[s].fields)
       /\ DOMAIN a.screenshots[s].hotspots = DOMAIN b.screenshots[s].hotspots
       /\ \A h \in DOMAIN b.screenshots[s].hotspots :
            a.screenshots[s].hotspots[h].fields
              = MappedFields("hotspots", b.screenshots[s].hotspots[h].fields)

IsRead(a, b) ==
  /\ a.fields = HydratedFields("works", b.fields)
  /\ DOMAIN a.stages = DOMAIN b.stages
  /\ \A j \in DOMAIN b.stages : a.stages[j].fields = HydratedFields("stages", b.stages[j].fields)
  /\ DOMAIN a.screenshots = DOMAIN b.screenshots
  /\ \A s \in DOMAIN b.screenshots :
       /\ a.screenshots[s].fields = HydratedFields("screenshots", b.screenshots[s].fields)
       /\ DOMAIN a.screenshots[s].hotspots = DOMAIN b.screenshots[s].hotspots
       /\ \A h \in DOMAIN b.screenshots[s].hotspots :
            a.screenshots[s].hotspots[h].fields
              = HydratedFields("hotspots", b.screenshots[s].hotspots[h].fields)

LEMMA WorksAreMade ==
  ASSUME NEW b
  PROVE  IsMapped(OnWork(b, MappedFields), b) /\ IsRead(OnWork(b, HydratedFields), b)
BY DEF IsMapped, IsRead, OnWork

At(layer, f) == [layer |-> layer, fields |-> f]

LEMMA PlacesInAWork ==
  ASSUME NEW b
  PROVE  /\ OfWork(b, At("works", b.fields))
         /\ \A j \in DOMAIN b.stages : OfWork(b, At("stages", b.stages[j].fields))
         /\ \A s \in DOMAIN b.screenshots :
              /\ OfWork(b, At("screenshots", b.screenshots[s].fields))
              /\ \A h \in DOMAIN b.screenshots[s].hotspots :
                   OfWork(b, At("hotspots", b.screenshots[s].hotspots[h].fields))
BY DEF OfWork, At

LEMMA InsideAMappedWork ==
  ASSUME NEW b, NEW m, IsMapped(m, b), NEW x, OfWork(m, x)
  PROVE  \E layer, f : OfWork(b, At(layer, f)) /\ x = At(layer, MappedFields(layer, f))
<1>1. \/ x = At("works", m.fields)
      \/ \E j \in DOMAIN m.stages : x = At("stages", m.stages[j].fields)
      \/ \E s \in DOMAIN m.screenshots :
           \/ x = At("screenshots", m.screenshots[s].fields)
           \/ \E h \in DOMAIN m.screenshots[s].hotspots :
                x = At("hotspots", m.screenshots[s].hotspots[h].fields)
  BY DEF OfWork, At
<1> QED BY <1>1, PlacesInAWork DEF IsMapped

LEMMA InsideAReadWork ==
  ASSUME NEW b, NEW m, IsRead(m, b), NEW x, OfWork(m, x)
  PROVE  \E layer, f : OfWork(b, At(layer, f)) /\ x = At(layer, HydratedFields(layer, f))
<1>1. \/ x = At("works", m.fields)
      \/ \E j \in DOMAIN m.stages : x = At("stages", m.stages[j].fields)
      \/ \E s \in DOMAIN m.screenshots :
           \/ x = At("screenshots", m.screenshots[s].fields)
           \/ \E h \in DOMAIN m.screenshots[s].hotspots :
                x = At("hotspots", m.screenshots[s].hotspots[h].fields)
  BY DEF OfWork, At
<1> QED BY <1>1, PlacesInAWork DEF IsRead

MappedEntries(section, l) == OnEntries(section, l, MappedFields)
ReadEntries(section, l) == OnEntries(section, l, HydratedFields)

\* What is in a mapped list, or in one that is read, was in the list it comes from.
LEMMA InsideAMadeList ==
  ASSUME NEW section \in ListSections, NEW l
  PROVE  /\ \A x \in FieldsIn(section, MappedEntries(section, l)) :
              \E layer, f : At(layer, f) \in FieldsIn(section, l)
                            /\ x = At(layer, MappedFields(layer, f))
         /\ \A x \in FieldsIn(section, ReadEntries(section, l)) :
              \E layer, f : At(layer, f) \in FieldsIn(section, l)
                            /\ x = At(layer, HydratedFields(layer, f))
<1> DEFINE mapped == MappedEntries(section, l)
           read == ReadEntries(section, l)
<1>1. CASE section = "works"
  <2>1. /\ mapped = [i \in DOMAIN l |-> OnWork(l[i], MappedFields)]
        /\ read = [i \in DOMAIN l |-> OnWork(l[i], HydratedFields)]
    BY <1>1 DEF OnEntries, MappedEntries, ReadEntries
  <2>2. /\ DOMAIN mapped = DOMAIN l /\ \A i \in DOMAIN l : IsMapped(mapped[i], l[i])
        /\ DOMAIN read = DOMAIN l /\ \A i \in DOMAIN l : IsRead(read[i], l[i])
    BY <2>1, WorksAreMade
  <2> HIDE DEF mapped, read
  <2>3. ASSUME NEW x \in FieldsIn(section, mapped)
        PROVE  \E layer, f : At(layer, f) \in FieldsIn(section, l)
                             /\ x = At(layer, MappedFields(layer, f))
    BY <1>1, <2>2, FieldsOfWorks, InsideAMappedWork
  <2>4. ASSUME NEW x \in FieldsIn(section, read)
        PROVE  \E layer, f : At(layer, f) \in FieldsIn(section, l)
                             /\ x = At(layer, HydratedFields(layer, f))
    BY <1>1, <2>2, FieldsOfWorks, InsideAReadWork
  <2> QED BY <2>3, <2>4 DEF mapped, read
<1>2. CASE section # "works"
  <2>1. /\ DOMAIN mapped = DOMAIN l
        /\ \A i \in DOMAIN l : mapped[i].fields = MappedFields(section, l[i].fields)
        /\ DOMAIN read = DOMAIN l
        /\ \A i \in DOMAIN l : read[i].fields = HydratedFields(section, l[i].fields)
    BY <1>2 DEF OnEntries, MappedEntries, ReadEntries
  <2> HIDE DEF mapped, read
  <2>2. \A e : FieldsIn(section, e) = {At(section, e[i].fields) : i \in DOMAIN e}
    BY <1>2, FieldsOfEntries DEF At
  <2>3. ASSUME NEW x \in FieldsIn(section, mapped)
        PROVE  \E layer, f : At(layer, f) \in FieldsIn(section, l)
                             /\ x = At(layer, MappedFields(layer, f))
    BY <2>1, <2>2
  <2>4. ASSUME NEW x \in FieldsIn(section, read)
        PROVE  \E layer, f : At(layer, f) \in FieldsIn(section, l)
                             /\ x = At(layer, HydratedFields(layer, f))
    BY <2>1, <2>2
  <2> QED BY <2>3, <2>4 DEF mapped, read
<1> QED BY <1>1, <1>2

LEMMA FieldsAreTyped ==
  ASSUME NEW n, NEW section \in ListSections, NEW l, IsContent(section, n, l),
         NEW x \in FieldsIn(section, l)
  PROVE  x.layer \in ListLayers /\ x.fields \in Fields(x.layer)
<1>1. CASE section = "works"
  <2>1. PICK i \in DOMAIN l : OfWork(l[i], x)
    BY <1>1, FieldsOfWorks
  <2>2. IsWork(n, l[i])
    BY <1>1 DEF IsContent, AreWorks
  <2>3. /\ l[i].fields \in Fields("works")
        /\ \A j \in DOMAIN l[i].stages : l[i].stages[j].fields \in Fields("stages")
        /\ \A s \in DOMAIN l[i].screenshots :
             /\ l[i].screenshots[s].fields \in Fields("screenshots")
             /\ \A h \in DOMAIN l[i].screenshots[s].hotspots :
                  l[i].screenshots[s].hotspots[h].fields \in Fields("hotspots")
    BY <2>2 DEF IsWork, AreEntries, IsEntry, AreShots, IsShot
  <2>4. {"works", "stages", "screenshots", "hotspots"} \subseteq ListLayers
    BY DEF ListLayers, ListSections, KEYED_ARRAY_SECTIONS
  <2> QED BY <2>1, <2>3, <2>4 DEF OfWork
<1>2. CASE section # "works"
  <2>1. PICK i \in DOMAIN l : x = [layer |-> section, fields |-> l[i].fields]
    BY <1>2, FieldsOfEntries
  <2>2. l[i].fields \in Fields(section)
    BY <1>2 DEF IsContent, AreEntries, IsEntry
  <2> QED BY <2>1, <2>2 DEF ListLayers
<1> QED BY <1>1, <1>2

LEMMA AcceptedBodiesAreStorable ==
  ASSUME NEW n \in Nat, NEW section \in ListSections, NEW body, IsContent(section, n, body),
         BodyAccepted(section, body)
  PROVE  SectionStorable(section,
           withEntryKeys(section, OnEntries(section, body, MappedFields), n))
<1> DEFINE mapped == MappedEntries(section, body)
           out == withEntryKeys(section, mapped, n)
<1>1. IsContent(section, n, mapped)
  BY MappingKeepsContent DEF MappedEntries
<1>2. ASSUME NEW x \in FieldsIn(section, out)
      PROVE  Storable(Layers[x.layer].schema, x.fields)
  <2>1. x \in FieldsIn(section, mapped)
    <3> HIDE DEF mapped
    <3> QED BY <1>1, <1>2, KeysKeepFields
  <2>2. PICK layer, f : At(layer, f) \in FieldsIn(section, body)
                        /\ x = At(layer, MappedFields(layer, f))
    BY <2>1, InsideAMadeList
  <2>3. At(layer, f).layer = layer /\ At(layer, f).fields = f
        /\ x.layer = layer /\ x.fields = MappedFields(layer, f)
    BY <2>2 DEF At
  <2>4. layer \in ListLayers /\ f \in Fields(layer)
    BY <2>2, <2>3, FieldsAreTyped
  <2>5. Accepted(Layers[layer].dto, f)
    BY <2>2, <2>3 DEF BodyAccepted
  <2> QED BY <2>3, <2>4, <2>5, AcceptedIsStorable
<1> QED BY <1>2 DEF SectionStorable, MappedEntries

-----------------------------------------------------------------------------
(* The invariant.                                                           *)

KeyedSections(doc, n) ==
  \A s \in DOMAIN doc \cap ListSections : IsContent(s, n, doc[s]) /\ AllDistinct(s, doc[s])

PortfolioInv ==
  /\ minted \in Nat
  /\ subject \in ListSections \cup ObjectSections
  /\ DOMAIN stored = ListSections \cup ObjectSections
  /\ KeyedSections(stored, minted)
  /\ subject \in ListSections => \A c \in Clients : IsContent(subject, minted, views[c])
  /\ DOMAIN views = Clients
  /\ \A b \in backfill :
       DOMAIN b.changes \subseteq ListSections /\ KeyedSections(b.changes, minted)
  /\ refused \cap ListSections = {}

LEMMA RecordOfLists ==
  ASSUME NEW n \in Nat, NEW doc, KeyedSections(doc, n)
  PROVE  /\ DOMAIN Record(doc) = DOMAIN doc
         /\ KeyedSections(Record(doc), n)
<1>1. DOMAIN Record(doc) = DOMAIN doc
  BY DEF Record
<1>2. ASSUME NEW s \in DOMAIN doc \cap ListSections
      PROVE  IsContent(s, n, Record(doc)[s]) /\ AllDistinct(s, Record(doc)[s])
  <2> DEFINE read == OnEntries(s, doc[s], HydratedFields)
  <2>1. Record(doc)[s] = read
    BY DEF Record, OnSection
  <2>2. IsContent(s, n, doc[s]) /\ AllDistinct(s, doc[s])
    BY DEF KeyedSections
  <2>3. IsContent(s, n, read) /\ SameKeysThroughout(s, doc[s], read)
    BY <2>2, MappingKeepsContent
  <2> HIDE DEF read
  <2>4. AllDistinct(s, read)
    BY <2>2, <2>3, SameKeysSameDistinct
  <2> QED BY <2>1, <2>3, <2>4
<1> QED BY <1>1, <1>2 DEF KeyedSections

LEMMA SectionsGrow ==
  ASSUME NEW n \in Nat, NEW m \in Nat, n <= m, NEW doc, KeyedSections(doc, n)
  PROVE  KeyedSections(doc, m)
BY KeysGrow DEF KeyedSections

LEMMA InitInv == Init => PortfolioInv
<1> SUFFICES ASSUME Init PROVE PortfolioInv
  OBVIOUS
<1>1. PICK age \in Ages : stored = Document(age)
  BY DEF Init
<1>2. minted = MaxEntries /\ minted \in Nat
  BY PortfolioAssumption DEF Init
<1>3. DOMAIN stored = ListSections \cup ObjectSections
      /\ \A s \in ListSections : stored[s] = FirstEntries(s, age)
  BY <1>1 DEF Document, ListSections, KEYED_ARRAY_SECTIONS
<1>4. KeyedSections(stored, minted)
  BY <1>2, <1>3, FirstIsContent DEF KeyedSections
<1>5. DOMAIN Record(stored) = DOMAIN stored /\ KeyedSections(Record(stored), minted)
  BY <1>2, <1>4, RecordOfLists
<1>6. subject \in ListSections \cup ObjectSections
      /\ views = [c \in Clients |-> Record(stored)[subject]] /\ backfill = {} /\ refused = {}
  BY DEF Init
<1>7. subject \in ListSections => \A c \in Clients : IsContent(subject, minted, views[c])
  BY <1>3, <1>5, <1>6 DEF KeyedSections
<1> QED BY <1>2, <1>3, <1>4, <1>6, <1>7 DEF PortfolioInv

LEMMA LoadKeeps ==
  ASSUME PortfolioInv, NEW c \in Clients, Load(c)
  PROVE  PortfolioInv'
<1>1. /\ views' = [views EXCEPT ![c] = Record(stored)[subject]]
      /\ UNCHANGED <<stored, minted, subject, backfill, heard, refused>>
  BY DEF Load
<1>2. DOMAIN Record(stored) = DOMAIN stored /\ KeyedSections(Record(stored), minted)
  BY RecordOfLists DEF PortfolioInv
<1>3. subject \in ListSections => IsContent(subject, minted, Record(stored)[subject])
  BY <1>2 DEF PortfolioInv, KeyedSections
<1>4. DOMAIN views' = Clients
      /\ \A d \in Clients : views'[d] = views[d] \/ views'[d] = Record(stored)[subject]
  BY <1>1 DEF PortfolioInv
<1> QED BY <1>1, <1>3, <1>4 DEF PortfolioInv

\* A PATCH of a list is stored; one of an object leaves the lists alone.
LEMMA PatchKeeps ==
  ASSUME PortfolioInv, NEW c \in Clients, Patch(c)
  PROVE  PortfolioInv'
<1> DEFINE m == minted + MaxEntries
<1>0. minted \in Nat /\ m \in Nat /\ minted <= m
  BY PortfolioAssumption DEF PortfolioInv
<1>1. PICK body \in Bodies(subject, views[c]) :
        /\ BodyAccepted(subject, body)
        /\ LET content == Updated(subject, body)
           IN  IF SectionStorable(subject, content)
               THEN /\ stored' = [stored EXCEPT ![subject] = content]
                    /\ minted' = m
                    /\ \E answer \in {Record(stored')[subject], views[c]} :
                         views' = [views EXCEPT ![c] = answer]
                    /\ UNCHANGED refused
               ELSE /\ refused' = refused \cup {subject}
                    /\ UNCHANGED <<stored, minted, views>>
        /\ UNCHANGED <<subject, backfill, heard>>
  BY DEF Patch
<1> DEFINE content == Updated(subject, body)
<1>2. CASE subject \in ListSections
  <2> DEFINE mapped == OnEntries(subject, body, MappedFields)
  <2>1. IsContent(subject, minted, body)
    BY <1>0, <1>2, BodiesAreContent DEF PortfolioInv
  <2>2. content = withEntryKeys(subject, mapped, minted)
    BY <1>2 DEF Updated, toProfileUpdateFields
  <2>3. SectionStorable(subject, content)
    BY <1>0, <1>1, <1>2, <2>1, <2>2, AcceptedBodiesAreStorable
  <2>4. IsContent(subject, minted, mapped)
    BY <1>0, <2>1, MappingKeepsContent
  <2> HIDE DEF mapped, content
  <2>5. IsContent(subject, m, content) /\ AllDistinct(subject, content)
    BY <1>0, <2>2, <2>4, SectionGetsKeys
  <2>6. /\ stored' = [stored EXCEPT ![subject] = content] /\ minted' = m
        /\ \E answer \in {Record(stored')[subject], views[c]} :
             views' = [views EXCEPT ![c] = answer]
        /\ UNCHANGED <<subject, backfill, heard, refused>>
    BY <1>1, <2>3 DEF content
  <2>7. KeyedSections(stored, m)
    BY <1>0, SectionsGrow DEF PortfolioInv
  <2>8. DOMAIN stored' = DOMAIN stored /\ KeyedSections(stored', m)
    BY <2>5, <2>6, <2>7 DEF KeyedSections
  <2>9. DOMAIN Record(stored') = DOMAIN stored' /\ KeyedSections(Record(stored'), m)
    BY <1>0, <2>8, RecordOfLists
  <2>10. IsContent(subject, m, Record(stored')[subject])
    BY <1>2, <2>8, <2>9 DEF KeyedSections, PortfolioInv
  <2>11. \A d \in Clients : IsContent(subject, m, views[d])
    BY <1>0, <1>2, KeysGrow DEF PortfolioInv
  <2>12. DOMAIN views' = Clients /\ \A d \in Clients : IsContent(subject, m, views'[d])
    BY <2>6, <2>10, <2>11 DEF PortfolioInv
  <2>13. \A b \in backfill : KeyedSections(b.changes, m)
    BY <1>0, SectionsGrow DEF PortfolioInv
  <2> HIDE DEF m
  <2> QED BY <1>0, <1>2, <2>6, <2>8, <2>12, <2>13 DEF PortfolioInv
<1>3. CASE subject \notin ListSections
  <2> HIDE DEF content
  <2>1. minted' \in {minted, m}
    BY <1>1
  <2>2. DOMAIN stored' = DOMAIN stored /\ \A s \in ListSections : stored'[s] = stored[s]
    BY <1>1, <1>3 DEF PortfolioInv
  <2>3. DOMAIN views' = Clients
    BY <1>1 DEF PortfolioInv
  <2>4. refused' \cap ListSections = {} /\ UNCHANGED <<subject, backfill>>
    BY <1>1, <1>3 DEF PortfolioInv
  <2>5. minted' \in Nat /\ minted <= minted'
    BY <1>0, <2>1
  <2>6. KeyedSections(stored, minted') /\ \A b \in backfill : KeyedSections(b.changes, minted')
    BY <1>0, <2>5, SectionsGrow DEF PortfolioInv
  <2>7. KeyedSections(stored', minted')
    BY <2>2, <2>6 DEF KeyedSections
  <2> QED BY <1>3, <2>2, <2>3, <2>4, <2>5, <2>6, <2>7 DEF PortfolioInv
<1> QED BY <1>2, <1>3

LEMMA BackfillReadsKeeps ==
  ASSUME PortfolioInv, BackfillReads
  PROVE  PortfolioInv'
<1> DEFINE m == minted + MaxEntries
           changes == keyedSectionsOf(stored)
<1>0. minted \in Nat /\ m \in Nat /\ minted <= m
  BY PortfolioAssumption DEF PortfolioInv
<1>1. /\ backfill' = {[changes |-> changes, read |-> m]} /\ minted' = m
      /\ UNCHANGED <<stored, subject, views, heard, refused>>
  BY DEF BackfillReads
<1>2. DOMAIN changes \subseteq ListSections
      /\ \A s \in DOMAIN changes : changes[s] = EntriesAndStages(s, stored[s], minted)
  BY DEF keyedSectionsOf, BackfilledSection, EntriesAndStages
<1> HIDE DEF changes, m
<1>3. ASSUME NEW s \in DOMAIN changes
      PROVE  IsContent(s, m, changes[s]) /\ AllDistinct(s, changes[s])
  <2>1. IsContent(s, minted, stored[s]) /\ AllDistinct(s, stored[s])
    BY <1>2 DEF PortfolioInv, KeyedSections
  <2> QED BY <1>0, <1>2, <2>1, EntriesAndStagesGetKeys DEF m
<1>4. KeyedSections(changes, m)
  BY <1>3 DEF KeyedSections
<1>5. \A b \in backfill' : DOMAIN b.changes \subseteq ListSections /\ KeyedSections(b.changes, m)
  BY <1>1, <1>2, <1>4
<1>6. KeyedSections(stored, m)
  BY <1>0, SectionsGrow DEF PortfolioInv
<1>7. subject \in ListSections => \A d \in Clients : IsContent(subject, m, views[d])
  BY <1>0, KeysGrow DEF PortfolioInv
<1> QED BY <1>0, <1>1, <1>5, <1>6, <1>7 DEF PortfolioInv

LEMMA BackfillWritesKeeps ==
  ASSUME PortfolioInv, BackfillWrites
  PROVE  PortfolioInv'
<1>1. PICK b \in backfill :
        /\ stored' = [s \in DOMAIN stored |->
                        IF s \in DOMAIN b.changes THEN b.changes[s] ELSE stored[s]]
        /\ backfill' = {}
        /\ UNCHANGED <<minted, subject, views, heard, refused>>
  BY DEF BackfillWrites
<1>2. DOMAIN stored' = DOMAIN stored /\ KeyedSections(stored', minted)
  BY <1>1 DEF PortfolioInv, KeyedSections
<1> QED BY <1>1, <1>2 DEF PortfolioInv

LEMMA StepKeeps ==
  ASSUME PortfolioInv, [Next]_vars
  PROVE  PortfolioInv'
<1>1. CASE AgentJoins \/ BackfillDies \/ UNCHANGED vars
  BY <1>1 DEF AgentJoins, BackfillDies, vars, PortfolioInv
<1> QED BY <1>1, LoadKeeps, PatchKeeps, BackfillReadsKeeps, BackfillWritesKeeps DEF Next

LEMMA Inductive == Spec => []PortfolioInv
<1> QED BY InitInv, StepKeeps, PTL DEF Spec

-----------------------------------------------------------------------------

\* No accepted body of a list fails in the schema, in any order of reads, writes and
\* backfills, whatever a client sends back.
THEOREM ListsAreStored == Spec => []AcceptedListsAreStored
<1>1. PortfolioInv => AcceptedListsAreStored
  BY DEF PortfolioInv, AcceptedListsAreStored
<1> QED BY <1>1, Inductive, PTL

-----------------------------------------------------------------------------
(* Names.                                                                   *)

\* A slide of its own for a section.
Alone(slides, name) ==
  \A s \in slides : s.id = SlideId(name, <<>>) /\ \A t \in slides : s = t

LEMMA SectionSlideIsAlone ==
  ASSUME NEW record, NEW section, NEW entries, NEW payload, NEW focus
  PROVE  /\ Alone(SectionSlide(record, section, entries, payload, focus), section)
         /\ \A s \in SectionSlide(record, section, entries, payload, focus) : s.focus = focus
<1> DEFINE slide == Slide(<<Place(record, section), 0, 0>>, SlideId(section, <<>>),
                          Items(entries, payload), focus)
<1>1. slide.id = SlideId(section, <<>>) /\ slide.focus = focus
  BY DEF Slide
<1>2. \A s \in SectionSlide(record, section, entries, payload, focus) : s = slide
  BY DEF SectionSlide
<1> HIDE DEF slide
<1> QED BY <1>1, <1>2 DEF Alone

LEMMA WorkSlideNames ==
  ASSUME NEW record, NEW i
  PROVE  /\ workSlide(record, i).id = SlideId("work", <<record.works[i].key>>)
         /\ workSlide(record, i).focus = screenshotFocus(record.works[i].screenshots)
BY DEF workSlide, Slide

LEMMA StageSlideNames ==
  ASSUME NEW record, NEW i, NEW j
  PROVE  /\ stageSlide(record, i, j).id =
              SlideId("stage", <<record.works[i].key, record.works[i].stages[j].key>>)
         /\ stageSlide(record, i, j).focus = {}
BY DEF stageSlide, Slide

\* What a path of one key, or of two, spells out.
LEMMA OneKey ==
  ASSUME NEW t, NEW a, t = <<a>>
  PROVE  DOMAIN t = {1} /\ t[1] = a
OBVIOUS

LEMMA TwoKeys ==
  ASSUME NEW t, NEW a, NEW b, t = <<a, b>>
  PROVE  DOMAIN t = {1, 2} /\ t[1] = a /\ t[2] = b
OBVIOUS

LEMMA EntriesAreNamedOnce ==
  ASSUME NEW l, Distinct(l), NEW f \in EntryFocus(l), NEW g \in EntryFocus(l),
         f.key = g.key, f.key[1] # NoKey
  PROVE  f = g
<1>1. PICK i \in DOMAIN l : f = Focus(<<i, 0>>, <<l[i].key>>, l[i].of)
  BY DEF EntryFocus
<1>2. PICK j \in DOMAIN l : g = Focus(<<j, 0>>, <<l[j].key>>, l[j].of)
  BY DEF EntryFocus
<1>3. f.key = <<l[i].key>> /\ g.key = <<l[j].key>>
  BY <1>1, <1>2 DEF Focus
<1>4. l[i].key = l[j].key /\ l[i].key # NoKey
  <2>1. f.key[1] = l[i].key
    BY <1>3, OneKey
  <2>2. g.key[1] = l[j].key
    BY <1>3, OneKey
  <2> QED BY <2>1, <2>2
<1>5. i = j
  BY <1>4 DEF Distinct
<1> QED BY <1>1, <1>2, <1>5

LEMMA ShotsAreNamedOnce ==
  ASSUME NEW l, Distinct(l), \A s \in DOMAIN l : Distinct(l[s].hotspots),
         NEW f \in screenshotFocus(l), NEW g \in screenshotFocus(l), f.key = g.key,
         \A k \in DOMAIN f.key : f.key[k] # NoKey
  PROVE  f = g
<1> DEFINE OfShot(h, i) == h = Focus(<<i, 0>>, <<l[i].key>>, l[i].of)
           OfSpot(h, i, n) == h = Focus(<<i, n>>, <<l[i].key, l[i].hotspots[n].key>>,
                                        l[i].hotspots[n].of)
<1>1. \A h \in screenshotFocus(l) :
        \E i \in DOMAIN l : OfShot(h, i) \/ \E n \in DOMAIN l[i].hotspots : OfSpot(h, i, n)
  <2>1. SUFFICES ASSUME NEW h \in screenshotFocus(l)
                 PROVE  \E i \in DOMAIN l :
                          OfShot(h, i) \/ \E n \in DOMAIN l[i].hotspots : OfSpot(h, i, n)
    OBVIOUS
  <2> HIDE DEF OfShot, OfSpot
  <2>2. PICK i \in DOMAIN l :
          h \in {Focus(<<i, 0>>, <<l[i].key>>, l[i].of)}
                \cup {Focus(<<i, n>>, <<l[i].key, l[i].hotspots[n].key>>,
                            l[i].hotspots[n].of) : n \in DOMAIN l[i].hotspots}
    BY Zenon DEF screenshotFocus
  <2>3. OfShot(h, i) \/ \E n \in DOMAIN l[i].hotspots : OfSpot(h, i, n)
    BY <2>2, Zenon DEF OfShot, OfSpot
  <2> QED BY <2>3
<1>2. \A h, i : OfShot(h, i) => h.key = <<l[i].key>>
  BY DEF Focus
<1>3. \A h, i, n : OfSpot(h, i, n) => h.key = <<l[i].key, l[i].hotspots[n].key>>
  BY DEF Focus
<1>4. PICK i \in DOMAIN l : OfShot(f, i) \/ \E n \in DOMAIN l[i].hotspots : OfSpot(f, i, n)
  BY <1>1
<1>5. PICK j \in DOMAIN l : OfShot(g, j) \/ \E n \in DOMAIN l[j].hotspots : OfSpot(g, j, n)
  BY <1>1
<1>6. CASE OfShot(f, i) /\ OfShot(g, j)
  <2>1. l[i].key = l[j].key /\ l[i].key # NoKey
    BY <1>2, <1>6
  <2>2. i = j
    BY <2>1 DEF Distinct
  <2> QED BY <1>6, <2>2
<1>7. ASSUME NEW n \in DOMAIN l[i].hotspots, OfSpot(f, i, n),
             NEW o \in DOMAIN l[j].hotspots, OfSpot(g, j, o)
      PROVE  f = g
  <2>1. f.key = <<l[i].key, l[i].hotspots[n].key>> /\ g.key = <<l[j].key, l[j].hotspots[o].key>>
    BY <1>7 DEF OfSpot, Focus
  <2>2. /\ l[i].key = l[j].key /\ l[i].key # NoKey
        /\ l[i].hotspots[n].key = l[j].hotspots[o].key /\ l[i].hotspots[n].key # NoKey
    <3>1. DOMAIN f.key = {1, 2} /\ f.key[1] = l[i].key /\ f.key[2] = l[i].hotspots[n].key
      BY <2>1, TwoKeys
    <3>2. g.key = <<l[j].key, l[j].hotspots[o].key>>
      BY <2>1
    <3>3. g.key[1] = l[j].key /\ g.key[2] = l[j].hotspots[o].key
      BY <3>2, TwoKeys
    <3> QED BY <3>1, <3>3
  <2>3. i = j
    BY <2>2 DEF Distinct
  <2>4. n = o
    BY <2>2, <2>3 DEF Distinct
  <2> QED BY <1>7, <2>3, <2>4
<1>8. ~(OfShot(f, i) /\ \E o \in DOMAIN l[j].hotspots : OfSpot(g, j, o))
  <2>1. ASSUME OfShot(f, i), NEW o, OfSpot(g, j, o) PROVE FALSE
    <3>1. f.key = <<l[i].key>> /\ g.key = <<l[j].key, l[j].hotspots[o].key>>
      BY <2>1 DEF OfShot, OfSpot, Focus
    <3>2. Len(f.key) = 1 /\ Len(g.key) = 2
      BY <3>1
    <3> QED BY <3>2
  <2> QED BY <2>1
<1>9. ~(OfShot(g, j) /\ \E n \in DOMAIN l[i].hotspots : OfSpot(f, i, n))
  <2>1. ASSUME OfShot(g, j), NEW n, OfSpot(f, i, n) PROVE FALSE
    <3>1. g.key = <<l[j].key>> /\ f.key = <<l[i].key, l[i].hotspots[n].key>>
      BY <2>1 DEF OfShot, OfSpot, Focus
    <3>2. Len(g.key) = 1 /\ Len(f.key) = 2
      BY <3>1
    <3> QED BY <3>2
  <2> QED BY <2>1
<1> HIDE DEF OfShot, OfSpot
<1> QED BY <1>4, <1>5, <1>6, <1>7, <1>8, <1>9

\* The slides told of the works of a list without shared keys.
LEMMA WorksAreNamedOnce ==
  ASSUME NEW record, AllDistinct("works", record.works)
  PROVE  /\ NamesAreUnique(workSlides(record))
         /\ \A s \in workSlides(record) : s.id.name \in {"work", "stage"}
<1> DEFINE works == record.works
<1>1. ASSUME NEW s \in workSlides(record)
      PROVE  \E i \in DOMAIN works :
               \/ /\ s = workSlide(record, i)
                  /\ s.id = SlideId("work", <<works[i].key>>)
                  /\ s.focus = screenshotFocus(works[i].screenshots)
               \/ \E j \in DOMAIN works[i].stages :
                    /\ s = stageSlide(record, i, j)
                    /\ s.id = SlideId("stage", <<works[i].key, works[i].stages[j].key>>)
                    /\ s.focus = {}
  <2>1. \E i \in DOMAIN works :
          s = workSlide(record, i) \/ \E j \in DOMAIN works[i].stages : s = stageSlide(record, i, j)
    BY DEF workSlides, Taken
  <2>2. PICK i \in DOMAIN works :
          s = workSlide(record, i) \/ \E j \in DOMAIN works[i].stages : s = stageSlide(record, i, j)
    BY <2>1
  <2>3. CASE s = workSlide(record, i)
    BY <2>3, WorkSlideNames
  <2>4. ASSUME NEW j \in DOMAIN works[i].stages, s = stageSlide(record, i, j)
        PROVE  /\ s.id = SlideId("stage", <<works[i].key, works[i].stages[j].key>>)
               /\ s.focus = {}
    BY <2>4, StageSlideNames
  <2> QED BY <2>2, <2>3, <2>4
<1>2. Distinct(works) /\ \A i \in DOMAIN works : ChildrenDistinct(works[i])
  BY DEF AllDistinct
<1> HIDE DEF works
<1>3. ASSUME NEW s \in workSlides(record), NEW t \in workSlides(record),
             IsKeyed(Path(s.id, <<>>)), s.id = t.id
      PROVE  s = t
  <2>1. PICK i \in DOMAIN works :
          \/ s = workSlide(record, i) /\ s.id = SlideId("work", <<works[i].key>>)
          \/ \E j \in DOMAIN works[i].stages :
               /\ s = stageSlide(record, i, j)
               /\ s.id = SlideId("stage", <<works[i].key, works[i].stages[j].key>>)
    BY <1>1
  <2>2. PICK k \in DOMAIN works :
          \/ t = workSlide(record, k) /\ t.id = SlideId("work", <<works[k].key>>)
          \/ \E j \in DOMAIN works[k].stages :
               /\ t = stageSlide(record, k, j)
               /\ t.id = SlideId("stage", <<works[k].key, works[k].stages[j].key>>)
    BY <1>1
  <2>3. \A n \in DOMAIN s.id.keys : s.id.keys[n] # NoKey
    BY <1>3 DEF IsKeyed, Path
  <2>4. CASE s = workSlide(record, i) /\ s.id = SlideId("work", <<works[i].key>>)
    <3>1. s.id.name = "work" /\ s.id.keys = <<works[i].key>>
      BY <2>4 DEF SlideId
    <3>2. t = workSlide(record, k) /\ t.id.keys = <<works[k].key>>
      <4>1. ASSUME NEW o, t.id = SlideId("stage", <<works[k].key, works[k].stages[o].key>>)
            PROVE  FALSE
        <5>1. t.id.name = "stage"
          BY <4>1 DEF SlideId
        <5> QED BY <1>3, <3>1, <5>1
      <4>2. t = workSlide(record, k) /\ t.id = SlideId("work", <<works[k].key>>)
        BY <2>2, <4>1
      <4> QED BY <4>2 DEF SlideId
    <3>3. DOMAIN s.id.keys = {1} /\ s.id.keys[1] = works[i].key /\ t.id.keys[1] = works[k].key
      BY <3>1, <3>2
    <3>4. works[i].key = works[k].key /\ works[i].key # NoKey
      BY <1>3, <2>3, <3>3
    <3>5. i = k
      BY <1>2, <3>4 DEF Distinct
    <3> QED BY <2>4, <3>2, <3>5
  <2>5. ASSUME NEW j \in DOMAIN works[i].stages, s = stageSlide(record, i, j),
               s.id = SlideId("stage", <<works[i].key, works[i].stages[j].key>>)
        PROVE  s = t
    <3>1. s.id.name = "stage" /\ s.id.keys = <<works[i].key, works[i].stages[j].key>>
      BY <2>5 DEF SlideId
    <3>2. PICK o \in DOMAIN works[k].stages :
            /\ t = stageSlide(record, k, o)
            /\ t.id = SlideId("stage", <<works[k].key, works[k].stages[o].key>>)
      BY <1>3, <2>2, <3>1 DEF SlideId
    <3>3. t.id.keys = <<works[k].key, works[k].stages[o].key>>
      BY <3>2 DEF SlideId
    <3>4. /\ DOMAIN s.id.keys = {1, 2}
          /\ s.id.keys[1] = works[i].key /\ s.id.keys[2] = works[i].stages[j].key
          /\ t.id.keys[1] = works[k].key /\ t.id.keys[2] = works[k].stages[o].key
      BY <3>1, <3>3
    <3>5. /\ works[i].key = works[k].key /\ works[i].key # NoKey
          /\ works[i].stages[j].key = works[k].stages[o].key
          /\ works[i].stages[j].key # NoKey
      BY <1>3, <2>3, <3>4
    <3>6. i = k
      BY <1>2, <3>5 DEF Distinct
    <3>7. j = o
      BY <1>2, <3>5, <3>6 DEF Distinct, ChildrenDistinct
    <3> QED BY <2>5, <3>2, <3>6, <3>7
  <2> QED BY <2>1, <2>4, <2>5
<1>4. ASSUME NEW s \in workSlides(record), NEW f \in s.focus, NEW g \in s.focus,
             IsKeyed(Path(s.id, f.key)), f.key = g.key
      PROVE  f = g
  <2>1. PICK i \in DOMAIN works :
          s.focus = screenshotFocus(works[i].screenshots) \/ s.focus = {}
    BY <1>1
  <2>2. s.focus = screenshotFocus(works[i].screenshots)
    BY <1>4, <2>1
  <2>3. \A n \in DOMAIN f.key : f.key[n] # NoKey
    BY <1>4 DEF IsKeyed, Path
  <2>4. /\ Distinct(works[i].screenshots)
        /\ \A n \in DOMAIN works[i].screenshots : Distinct(works[i].screenshots[n].hotspots)
    BY <1>2 DEF ChildrenDistinct
  <2> DEFINE shots == works[i].screenshots
  <2>5. f \in screenshotFocus(shots) /\ g \in screenshotFocus(shots)
    BY <1>4, <2>2
  <2>6. Distinct(shots) /\ \A n \in DOMAIN shots : Distinct(shots[n].hotspots)
    BY <2>4
  <2> HIDE DEF shots
  <2> QED BY <1>4, <2>3, <2>5, <2>6, ShotsAreNamedOnce
<1>5. ASSUME NEW s \in workSlides(record) PROVE s.id.name \in {"work", "stage"}
  <2>1. PICK i \in DOMAIN works :
          \/ s.id = SlideId("work", <<works[i].key>>)
          \/ \E j \in DOMAIN works[i].stages :
               s.id = SlideId("stage", <<works[i].key, works[i].stages[j].key>>)
    BY <1>1
  <2>2. \A name, keys : SlideId(name, keys).name = name
    BY DEF SlideId
  <2> QED BY <2>1, <2>2
<1> QED BY <1>3, <1>4, <1>5 DEF NamesAreUnique

\* Slides that answer to some names, and no two of them to one.
Unique(slides, names) ==
  NamesAreUnique(slides) /\ \A s \in slides : s.id.name \in names

LEMMA UniqueTogether ==
  ASSUME NEW S, NEW T, NEW N, NEW M, Unique(S, N), Unique(T, M), \A n \in N : n \notin M
  PROVE  Unique(S \cup T, N \cup M)
BY DEF Unique, NamesAreUnique

\* A section has one slide, with a thing to point at for every entry or for none.
LEMMA SectionSlideIsUnique ==
  ASSUME NEW record, NEW section, NEW entries, NEW payload, NEW l, Distinct(l),
         NEW focus, focus = {} \/ focus = EntryFocus(l)
  PROVE  Unique(SectionSlide(record, section, entries, payload, focus), {section})
<1> DEFINE slides == SectionSlide(record, section, entries, payload, focus)
<1>1. Alone(slides, section) /\ \A s \in slides : s.focus = focus
  BY SectionSlideIsAlone
<1> HIDE DEF slides
<1>2. \A s \in slides : s.id.name = section
  BY <1>1 DEF Alone, SlideId
<1>3. \A s, t \in slides : s = t
  BY <1>1 DEF Alone
<1>4. ASSUME NEW s \in slides, NEW f \in s.focus, NEW g \in s.focus,
             IsKeyed(Path(s.id, f.key)), f.key = g.key
      PROVE  f = g
  <2>1. f \in EntryFocus(l) /\ g \in EntryFocus(l)
    BY <1>1, <1>4
  <2>2. PICK i \in DOMAIN l : f = Focus(<<i, 0>>, <<l[i].key>>, l[i].of)
    BY <2>1 DEF EntryFocus
  <2>3. f.key = <<l[i].key>>
    BY <2>2 DEF Focus
  <2>4. DOMAIN f.key = {1}
    BY <2>3, OneKey
  <2>5. f.key[1] # NoKey
    BY <1>4, <2>4 DEF IsKeyed, Path
  <2> QED BY <1>4, <2>1, <2>5, EntriesAreNamedOnce
<1>5. Unique(slides, {section})
  BY <1>2, <1>3, <1>4 DEF Unique, NamesAreUnique
<1> QED BY <1>5 DEF slides

LEMMA IdentityIsUnique ==
  ASSUME NEW record
  PROVE  Unique({identitySlide(record)}, {"identity"})
<1>1. identitySlide(record).focus = {} /\ identitySlide(record).id.name = "identity"
  BY DEF identitySlide, Slide, SlideId
<1> QED BY <1>1 DEF Unique, NamesAreUnique

\* The whole deck of a record whose lists have no shared keys.
LEMMA DeckIsUnique ==
  ASSUME NEW record, AllDistinct("works", record.works),
         Distinct(record.capabilities), Distinct(record.timeline)
  PROVE  NamesAreUnique(projectSlides(record))
<1> DEFINE A == {identitySlide(record)} \cup workSlides(record)
           B == capabilitiesSlide(record) \cup timelineSlide(record)
           C == offeringsSlide(record) \cup metricsSlide(record)
           D == testimonialsSlide(record) \cup teamSlide(record)
           E == contentSlide(record) \cup mediaSlide(record)
           F == contactSlide(record)
<1>1. Unique(A, {"identity"} \cup {"work", "stage"})
  <2>1. Unique(workSlides(record), {"work", "stage"})
    BY WorksAreNamedOnce DEF Unique
  <2> QED BY <2>1, IdentityIsUnique, UniqueTogether
<1>2. Unique(B, {"capabilities"} \cup {"timeline"})
  <2>1. Unique(capabilitiesSlide(record), {"capabilities"})
    BY SectionSlideIsUnique DEF capabilitiesSlide
  <2>2. Unique(timelineSlide(record), {"timeline"})
    BY SectionSlideIsUnique DEF timelineSlide
  <2> QED BY <2>1, <2>2, UniqueTogether
<1>3. Unique(C, {"offerings"} \cup {"metrics"})
  <2>1. Unique(offeringsSlide(record), {"offerings"})
    BY SectionSlideIsUnique DEF offeringsSlide
  <2>2. Unique(metricsSlide(record), {"metrics"})
    BY SectionSlideIsUnique DEF metricsSlide
  <2> QED BY <2>1, <2>2, UniqueTogether
<1>4. Unique(D, {"testimonials"} \cup {"team"})
  <2>1. Unique(testimonialsSlide(record), {"testimonials"})
    BY SectionSlideIsUnique DEF testimonialsSlide
  <2>2. Unique(teamSlide(record), {"team"})
    BY SectionSlideIsUnique DEF teamSlide
  <2> QED BY <2>1, <2>2, UniqueTogether
<1>5. Unique(E, {"content"} \cup {"media"})
  <2>1. Unique(contentSlide(record), {"content"})
    BY SectionSlideIsUnique DEF contentSlide
  <2>2. Unique(mediaSlide(record), {"media"})
    BY SectionSlideIsUnique DEF mediaSlide
  <2> QED BY <2>1, <2>2, UniqueTogether
<1>6. Unique(F, {"contact"})
  BY SectionSlideIsUnique DEF contactSlide
<1>7. projectSlides(record) = A \cup B \cup C \cup D \cup E \cup F
  BY DEF projectSlides
<1> HIDE DEF A, B, C, D, E, F
<1>8. Unique(A \cup B, {"identity", "work", "stage", "capabilities", "timeline"})
  <2>1. Unique(A \cup B, ({"identity"} \cup {"work", "stage"}) \cup ({"capabilities"} \cup {"timeline"}))
    BY <1>1, <1>2, UniqueTogether
  <2> QED BY <2>1 DEF Unique
<1>9. Unique(C \cup D, {"offerings", "metrics", "testimonials", "team"})
  <2>1. Unique(C \cup D, ({"offerings"} \cup {"metrics"}) \cup ({"testimonials"} \cup {"team"}))
    BY <1>3, <1>4, UniqueTogether
  <2> QED BY <2>1 DEF Unique
<1>10. Unique(E \cup F, {"content", "media", "contact"})
  <2>1. Unique(E \cup F, ({"content"} \cup {"media"}) \cup {"contact"})
    BY <1>5, <1>6, UniqueTogether
  <2> QED BY <2>1 DEF Unique
<1>11. Unique((A \cup B) \cup (C \cup D), {"identity", "work", "stage", "capabilities", "timeline"}
                \cup {"offerings", "metrics", "testimonials", "team"})
  BY <1>8, <1>9, UniqueTogether
<1>12. \A n \in {"identity", "work", "stage", "capabilities", "timeline"}
                  \cup {"offerings", "metrics", "testimonials", "team"} :
         n \notin {"content", "media", "contact"}
  OBVIOUS
<1>13. NamesAreUnique(((A \cup B) \cup (C \cup D)) \cup (E \cup F))
  <2>1. Unique(((A \cup B) \cup (C \cup D)) \cup (E \cup F),
               ({"identity", "work", "stage", "capabilities", "timeline"}
                  \cup {"offerings", "metrics", "testimonials", "team"})
                 \cup {"content", "media", "contact"})
    BY <1>10, <1>11, <1>12, UniqueTogether
  <2> QED BY <2>1 DEF Unique
<1>14. ((A \cup B) \cup (C \cup D)) \cup (E \cup F) = A \cup B \cup C \cup D \cup E \cup F
  OBVIOUS
<1> QED BY <1>7, <1>13, <1>14

\* A name leads to one slide and a focus to one thing on it, in every deck that is
\* derived from a document the program can have stored.
THEOREM NamesStayUnique == Spec => []SlideNamesAreUnique
<1>1. ASSUME PortfolioInv PROVE SlideNamesAreUnique
  <2> DEFINE record == Record(stored)
  <2>1. DOMAIN record = ListSections \cup ObjectSections /\ KeyedSections(record, minted)
    BY <1>1, RecordOfLists DEF PortfolioInv
  <2>2. {"works", "capabilities", "timeline"} \subseteq ListSections
    BY DEF ListSections, KEYED_ARRAY_SECTIONS
  <2> HIDE DEF record
  <2>3. AllDistinct("works", record["works"])
    BY <2>1, <2>2 DEF KeyedSections
  <2>4. Distinct(record["capabilities"]) /\ Distinct(record["timeline"])
    BY <2>1, <2>2 DEF KeyedSections, AllDistinct
  <2>5. NamesAreUnique(projectSlides(record))
    BY <2>3, <2>4, DeckIsUnique
  <2> QED BY <2>5 DEF SlideNamesAreUnique, Catalog, record
<1> QED BY <1>1, Inductive, PTL

=============================================================================
