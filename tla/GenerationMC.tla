----------------------------- MODULE GenerationMC -----------------------------
(* Three sections: a list whose entries are grounded and may have images, and *)
(* the two objects.  Each is answered in many ways while the others are       *)
(* answered plainly.                                                          *)
EXTENDS Generation, SequencesExt

\* Of an object section one field, and all the others.
Fields(first, rest) ==
  [f \in UNION {Own[s] : s \in ObjectSections} |->
     IF f \in {"tagline", "email"} THEN first ELSE rest]

Good(name) ==
  [shape |-> "valid", link |-> "real", said |-> TRUE, name |-> name, image |-> Undefined,
   fields |-> Fields(Given, Undefined)]

Raws ==
  {Good("x"), [Good("y") EXCEPT !.image = Given], Good("z"),
   [Good("x") EXCEPT !.said = FALSE], [Good("y") EXCEPT !.link = "invented"],
   [Good("z") EXCEPT !.shape = "invalid"], [Good("z") EXCEPT !.shape = "junk"]}

\* One field and null of the others, or empty; and nothing but nulls.
Objects ==
  Raws \cup {[Good("x") EXCEPT !.image = Null, !.fields = Fields(Given, Null)],
            [Good("x") EXCEPT !.fields = Fields(Given, Filled)],
            [Good("x") EXCEPT !.fields = Fields(Undefined, Null)]}

Entries(seq) == [form |-> "entries", entries |-> seq]

Plain == [s \in Planable |-> Entries(<<Good("x")>>)]

\* Any two entries, and any three good ones.
WorksAnswers ==
  {Entries(seq) : seq \in SeqOf(Raws, 2) \cup SeqOf({e \in Raws : Usable("works", e)}, 3)}
    \cup {Nothing, [Nothing EXCEPT !.form = "shapeless"]}

\* Any one entry, and a second that is not read.
ObjectAnswers ==
  {Entries(seq) : seq \in SeqOf(Objects, 1)}
    \cup {Entries(<<e, Good("y")>>) : e \in Objects} \cup {Nothing}

MCAnswers ==
  {[Plain EXCEPT !["works"] = a] : a \in WorksAnswers}
    \cup {[Plain EXCEPT ![s] = a] : s \in Planable \cap ObjectSections, a \in ObjectAnswers}

MCCap == [s \in ListSections |-> 2]
=============================================================================
