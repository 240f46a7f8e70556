-------------------------- MODULE ImdbDataset_proofs --------------------------
(***************************************************************************)
(* The safety properties of ImdbDataset for any number of ingests, any     *)
(* timeouts that meet TimesAssumption, and any number of restarts.         *)
(*                                                                         *)
(* The inductive invariant IInv is a conjunction of parts with a section   *)
(* each.  TypeStep and StagingStep rest on each other: a leftover of a     *)
(* restart is typed because its ingest was young.  NewerStep needs         *)
(* BesideInv, for an ingest that commits must not overtake another that is *)
(* believed to be alone, and LeftStep needs both the ages and BesideInv.   *)
(* Records with Boolean fields are taken apart by the lemmas of the first  *)
(* section only; the later ones speak of fields.  AloneInv holds while no  *)
(* ingest is left at work by a switch-off, and is kept apart from IInv.    *)
(***************************************************************************)
EXTENDS ImdbDataset, FiniteSetTheorems, TLAPS

Phases == {"opening", "titles", "titlesBody", "ratings", "ratingsBody", "staged", "replacing", "vacuum"}

Slots == [Ingests -> Ingest \cup {Idle}]

-----------------------------------------------------------------------------
(* One ingest under EXCEPT.                                                *)

LEMMA Fields ==
  ASSUME NEW x \in Ingest
  PROVE  /\ x.pc \in Phases
         /\ x.titles \in Days /\ x.ratings \in Days /\ x.clock \in Nat /\ x.age \in Nat
BY Zenon DEF Ingest, Phases

LEMMA AllPhases ==
  /\ "titles" \in Phases /\ "titlesBody" \in Phases /\ "ratings" \in Phases
  /\ "ratingsBody" \in Phases /\ "staged" \in Phases /\ "replacing" \in Phases /\ "vacuum" \in Phases
BY DEF Phases

\* y has the dumps and the owner of x.
Same(x, y) ==
  y \in Ingest /\ y.own = x.own /\ y.titles = x.titles /\ y.ratings = x.ratings

LEMMA Moves ==
  ASSUME NEW x \in Ingest, NEW pc \in Phases
  PROVE  LET y == [x EXCEPT !.pc = pc]
         IN /\ Same(x, y)
            /\ y.pc = pc /\ y.clock = x.clock /\ y.age = x.age
            /\ y.staged = x.staged /\ y.beside = x.beside
BY Zenon DEF Ingest, Phases, Same

LEMMA Settles ==
  ASSUME NEW x \in Ingest
  PROVE  LET y == [x EXCEPT !.pc = "titles", !.staged = TRUE]
         IN /\ Same(x, y)
            /\ y.pc = "titles" /\ y.clock = x.clock /\ y.age = x.age
            /\ y.staged /\ y.beside = x.beside
BY Zenon DEF Ingest, Same

LEMMA Disowned ==
  ASSUME NEW x \in Ingest
  PROVE  LET y == [x EXCEPT !.own = FALSE]
         IN /\ y \in Ingest
            /\ ~y.own
            /\ y.pc = x.pc /\ y.titles = x.titles /\ y.ratings = x.ratings
            /\ y.clock = x.clock /\ y.age = x.age /\ y.staged = x.staged /\ y.beside = x.beside
BY Zenon DEF Ingest

Aged(x, m, n) == [x EXCEPT !.clock = m, !.age = n]

LEMMA Older ==
  ASSUME NEW x \in Ingest, NEW m \in Nat, NEW n \in Nat
  PROVE  /\ Same(x, Aged(x, m, n))
         /\ Aged(x, m, n).clock = m /\ Aged(x, m, n).age = n
         /\ Aged(x, m, n).pc = x.pc
         /\ Aged(x, m, n).staged = x.staged /\ Aged(x, m, n).beside = x.beside
BY Zenon DEF Ingest, Same, Aged

LEMMA HasTitles ==
  ASSUME NEW x \in Ingest, NEW d \in Days
  PROVE  LET y == [x EXCEPT !.pc = "titlesBody", !.age = 0, !.titles = d]
         IN /\ y \in Ingest
            /\ y.pc = "titlesBody" /\ y.age = 0 /\ y.titles = d
            /\ y.own = x.own /\ y.ratings = x.ratings /\ y.clock = x.clock
            /\ y.staged = x.staged /\ y.beside = x.beside
<1>1. 0 \in Nat
  OBVIOUS
<1>2. QED
  BY <1>1, Zenon DEF Ingest

LEMMA HasRatings ==
  ASSUME NEW x \in Ingest, NEW d \in Days
  PROVE  LET y == [x EXCEPT !.pc = "ratingsBody", !.age = 0, !.ratings = d]
         IN /\ y \in Ingest
            /\ y.pc = "ratingsBody" /\ y.age = 0 /\ y.ratings = d
            /\ y.own = x.own /\ y.titles = x.titles /\ y.clock = x.clock
            /\ y.staged = x.staged /\ y.beside = x.beside
<1>1. 0 \in Nat
  OBVIOUS
<1>2. QED
  BY <1>1, Zenon DEF Ingest

LEMMA GoesOn ==
  ASSUME NEW x \in Ingest
  PROVE  LET y == [x EXCEPT !.pc = "ratings", !.clock = 0]
         IN /\ Same(x, y)
            /\ y.pc = "ratings" /\ y.clock = 0 /\ y.age = x.age
            /\ y.staged = x.staged /\ y.beside = x.beside
<1>1. 0 \in Nat
  OBVIOUS
<1>2. QED
  BY <1>1, Zenon DEF Ingest, Same

LEMMA Zero == 0 \in Days
BY BoundsAssumption DEF Days

LEMMA NewIngest ==
  ASSUME NEW b \in BOOLEAN
  PROVE  LET y == [pc |-> "opening", own |-> TRUE, titles |-> 0, ratings |-> 0, clock |-> 0, age |-> 0,
                   staged |-> FALSE, beside |-> b]
         IN /\ y \in Ingest
            /\ y.pc = "opening" /\ y.own /\ y.titles = 0 /\ y.ratings = 0
            /\ y.clock = 0 /\ y.age = 0 /\ y.beside = b
<1>1. 0 \in Nat
  OBVIOUS
<1>2. QED
  BY <1>1, Zero, Zenon DEF Ingest

-----------------------------------------------------------------------------
(* The start of an ingest.                                                 *)

\* What a new ingest makes of those that are still at work.
Joined(x, y) ==
  /\ Same(x, y)
  /\ y.pc = x.pc /\ y.clock = x.clock /\ y.age = x.age /\ y.staged = x.staged
  /\ y.beside = (x.beside \/ ~x.own)

LEMMA Joining ==
  ASSUME NEW x \in Ingest
  PROVE  Joined(x, [x EXCEPT !.beside = x.beside \/ ~x.own])
<1>1. (x.beside \/ ~x.own) \in BOOLEAN
  OBVIOUS
<1>2. QED
  BY <1>1, Zenon DEF Ingest, Joined, Same

LEMMA Started ==
  ASSUME NEW before \in Slots, StartIngest(before)
  PROVE  /\ ingests' \in Slots
         /\ \E i \in Ingests :
              /\ before[i] = Idle
              /\ ingests'[i] \in Ingest
              /\ ingests'[i].pc = "opening" /\ ingests'[i].own
              /\ ingests'[i].clock = 0 /\ ingests'[i].age = 0
              /\ ingests'[i].titles = 0 /\ ingests'[i].ratings = 0
              /\ (\E k \in Ingests : before[k] # Idle /\ ~before[k].own) => ingests'[i].beside
              /\ \A j \in Ingests : j # i /\ before[j] = Idle => ingests'[j] = Idle
              /\ \A j \in Ingests : j # i /\ before[j] # Idle => Joined(before[j], ingests'[j])
<1> DEFINE b == \E k \in Ingests : before[k] # Idle /\ ~before[k].own
           new == [pc |-> "opening", own |-> TRUE, titles |-> 0, ratings |-> 0, clock |-> 0, age |-> 0,
                   staged |-> FALSE, beside |-> b]
           joined(j) == [before[j] EXCEPT !.beside = before[j].beside \/ ~before[j].own]
<1>1. PICK i \in Ingests :
        /\ before[i] = Idle
        /\ ingests' = [j \in Ingests |->
             IF j = i THEN new ELSE IF before[j] = Idle THEN Idle ELSE joined(j)]
  BY Zenon DEF StartIngest
<1>2. /\ new \in Ingest
      /\ new.pc = "opening" /\ new.own /\ new.titles = 0 /\ new.ratings = 0
      /\ new.clock = 0 /\ new.age = 0 /\ new.beside = b
  BY NewIngest, Zenon
<1>3. ASSUME NEW j \in Ingests, before[j] # Idle
      PROVE  Joined(before[j], joined(j))
  <2>1. before[j] \in Ingest
    BY <1>3 DEF Slots
  <2>2. QED
    BY <2>1, Joining, Zenon
<1> HIDE DEF new, joined, b
<1>4. /\ ingests'[i] = new
      /\ \A j \in Ingests : j # i /\ before[j] = Idle => ingests'[j] = Idle
      /\ \A j \in Ingests : j # i /\ before[j] # Idle => ingests'[j] = joined(j)
  BY <1>1, Zenon
<1>5. ASSUME NEW j \in Ingests
      PROVE  (IF j = i THEN new ELSE IF before[j] = Idle THEN Idle ELSE joined(j)) \in Ingest \cup {Idle}
  BY <1>2, <1>3, Zenon DEF Joined, Same
<1>6. ingests' \in Slots
  BY <1>1, <1>5, Zenon DEF Slots
<1>7. b => ingests'[i].beside
  BY <1>2, <1>4, Zenon
<1>8. QED
  BY <1>1, <1>2, <1>3, <1>4, <1>6, <1>7, Zenon DEF b

-----------------------------------------------------------------------------
(* Its sweep.                                                              *)

\* What a sweep leaves of the ingests that are at work.
Spared(x, y) ==
  /\ Same(x, y)
  /\ y.pc = x.pc /\ y.clock = x.clock /\ y.age = x.age /\ y.beside = x.beside
  /\ y.staged = (x.staged /\ ~Abandoned(x.age))

LEMMA Sparing ==
  ASSUME NEW x \in Ingest, x # Idle
  PROVE  Spared(x, Swept(x))
<1>1. (x.staged /\ ~Abandoned(x.age)) \in BOOLEAN
  OBVIOUS
<1>2. Swept(x) = [x EXCEPT !.staged = x.staged /\ ~Abandoned(x.age)]
  BY Zenon DEF Swept
<1>3. QED
  BY <1>1, <1>2, Zenon DEF Ingest, Spared, Same

LEMMA SweptClean ==
  ASSUME ingests \in Slots, NEW i \in Ingests, Sweep(i)
  PROVE  /\ ingests' \in Slots
         /\ ingests[i] # Idle /\ ingests[i].pc = "opening"
         /\ ingests'[i] # Idle =>
              /\ Same(ingests[i], ingests'[i])
              /\ ingests'[i].pc = "titles" /\ ingests'[i].staged
              /\ ingests'[i].clock = ingests[i].clock /\ ingests'[i].age = ingests[i].age
              /\ ingests'[i].beside = ingests[i].beside
         /\ \A j \in Ingests : j # i /\ ingests[j] = Idle => ingests'[j] = Idle
         /\ \A j \in Ingests : j # i /\ ingests[j] # Idle => Spared(ingests[j], ingests'[j])
<1>1. ingests[i] # Idle /\ ingests[i].pc = "opening" /\ ingests[i] \in Ingest
  BY Zenon DEF Sweep, Slots
<1>2. PICK settled : settled = [ingests[i] EXCEPT !.pc = "titles", !.staged = TRUE]
  OBVIOUS
<1>3. /\ Same(ingests[i], settled)
      /\ settled.pc = "titles" /\ settled.staged
      /\ settled.clock = ingests[i].clock /\ settled.age = ingests[i].age
      /\ settled.beside = ingests[i].beside
  BY <1>1, <1>2, Settles, Zenon
<1>4. PICK mine \in {settled, Idle} :
        ingests' = [j \in Ingests |-> IF j = i THEN mine ELSE Swept(ingests[j])]
  BY <1>2, Zenon DEF Sweep
<1>5. mine \in Ingest \cup {Idle}
  BY <1>3, <1>4, Zenon DEF Same
<1>6. ASSUME NEW j \in Ingests
      PROVE  /\ ingests[j] = Idle => Swept(ingests[j]) = Idle
             /\ ingests[j] # Idle => Spared(ingests[j], Swept(ingests[j]))
             /\ Swept(ingests[j]) \in Ingest \cup {Idle}
  <2>1. ingests[j] = Idle => Swept(ingests[j]) = Idle
    BY Zenon DEF Swept
  <2>2. ingests[j] # Idle => Spared(ingests[j], Swept(ingests[j]))
    BY Sparing, Zenon DEF Slots
  <2>3. QED
    BY <2>1, <2>2, Zenon DEF Spared, Same
<1>7. ingests' \in Slots
  BY <1>4, <1>5, <1>6, Zenon DEF Slots
<1>8. /\ ingests'[i] = mine
      /\ \A j \in Ingests : j # i => ingests'[j] = Swept(ingests[j])
  BY <1>4, Zenon
<1>9. QED
  BY <1>1, <1>3, <1>4, <1>6, <1>7, <1>8, Zenon

\* What is left of the leftovers is young, or has been tried.
LEMMA Sweepable ==
  ASSUME NEW i \in Ingests, Sweep(i)
  PROVE  \A a \in leftovers' : (a \in leftovers /\ ~Abandoned(a)) \/ a = 0 \/ a = AbandonedAfter
<1>1. leftovers' \in Sweepings
  BY Zenon DEF Sweep
<1>2. PICK passed \in SUBSET {0, AbandonedAfter} :
        leftovers' = {a \in leftovers : ~Abandoned(a)} \cup passed
  BY <1>1 DEF Sweepings
<1>3. QED
  BY <1>2

-----------------------------------------------------------------------------
(* Types, and the ages of the ingests.                                     *)

\* A directory is older than the download only from the one to the other.
Eldest(x) == IF x.pc = "ratings" THEN Timeout + x.clock ELSE x.clock

InTime(x) == x.clock <= Limit(x) /\ x.age <= Eldest(x)

(* No ingest is older than its phase allows, hence none as old as what a   *)
(* sweep removes.                                                          *)
AgeInv == \A i \in Ingests : ingests[i] # Idle => InTime(ingests[i])

LEMMA LimitIsNat ==
  ASSUME NEW x
  PROVE  Limit(x) \in {0, Timeout, Timeout + Writing}
BY DEF Limit

LEMMA InTimeIsYoung ==
  ASSUME NEW x \in Ingest, InTime(x)
  PROVE  /\ x.age \in 0 .. Longest
         /\ ~Abandoned(x.age)
<1>1. x.age \in Nat /\ x.clock \in Nat /\ x.clock <= Limit(x) /\ x.age <= Eldest(x)
  BY Fields, Zenon DEF InTime
<1>2. CASE x.pc = "ratings"
  <2>1. Limit(x) = Timeout /\ Eldest(x) = Timeout + x.clock
    BY <1>2 DEF Limit, Downloads, Eldest
  <2>2. QED
    BY <1>1, <2>1, TimesAssumption DEF Abandoned, Longest
<1>3. CASE x.pc # "ratings"
  <2>1. Eldest(x) = x.clock
    BY <1>3, Zenon DEF Eldest
  <2>2. QED
    BY <1>1, <2>1, LimitIsNat, TimesAssumption DEF Abandoned, Longest
<1>4. QED
  BY <1>2, <1>3

LEMMA Young ==
  ASSUME TypeOK, AgeInv, NEW i \in Ingests, ingests[i] # Idle
  PROVE  /\ ingests[i].age \in 0 .. Longest
         /\ ~Abandoned(ingests[i].age)
BY InTimeIsYoung, Zenon DEF TypeOK, AgeInv

\* A step of one ingest.
LEMMA Alone ==
  ASSUME TypeOK, NEW i \in Ingests, NEW y \in Ingest \cup {Idle},
         ingests' = [ingests EXCEPT ![i] = y]
  PROVE  /\ ingests' \in Slots
         /\ ingests'[i] = y
         /\ \A j \in Ingests : j # i => ingests'[j] = ingests[j]
BY Zenon DEF TypeOK, Slots

\* It is over, and perhaps left its directory.
LEMMA Ended ==
  ASSUME TypeOK, NEW i \in Ingests, Ends(i)
  PROVE  /\ ingests' \in Slots
         /\ ingests'[i] = Idle
         /\ \A j \in Ingests : j # i => ingests'[j] = ingests[j]
         /\ \A a \in leftovers' : a \in leftovers \/ a = 0 \/ a = ingests[i].age
<1>1. /\ ingests' \in Slots
      /\ ingests'[i] = Idle
      /\ \A j \in Ingests : j # i => ingests'[j] = ingests[j]
  BY Zenon DEF Ends, TypeOK, Slots
<1>2. PICK left \in {{}, {0}, {ingests[i].age}} : leftovers' = leftovers \cup left
  BY Zenon DEF Ends
<1>3. QED
  BY <1>1, <1>2

LEMMA NotOpened ==
  ASSUME TypeOK, NEW i \in Ingests, OpenFails(i)
  PROVE  /\ ingests' \in Slots
         /\ ingests'[i] = Idle
         /\ \A j \in Ingests : j # i => ingests'[j] = ingests[j]
         /\ \A a \in leftovers' : (a \in leftovers /\ ~Abandoned(a)) \/ a = AbandonedAfter
<1>1. /\ ingests' \in Slots
      /\ ingests'[i] = Idle
      /\ \A j \in Ingests : j # i => ingests'[j] = ingests[j]
  BY Zenon DEF OpenFails, TypeOK, Slots
<1>2. leftovers' = {IF Abandoned(a) THEN AbandonedAfter ELSE a : a \in leftovers}
  BY Zenon DEF OpenFails
<1>3. QED
  BY <1>1, <1>2

\* What happens to an ingest when its phase is over.
Moved(i, pc) ==
  /\ ingests[i] # Idle /\ ingests[i] \in Ingest
  /\ ingests' \in Slots
  /\ \A j \in Ingests : j # i => ingests'[j] = ingests[j]
  /\ ingests'[i] \in Ingest
  /\ ingests'[i].pc = pc
  /\ ingests'[i].own = ingests[i].own
  /\ ingests'[i].staged = ingests[i].staged
  /\ ingests'[i].beside = ingests[i].beside

LEMMA TitlesBegun ==
  ASSUME TypeOK, NEW i \in Ingests, TitlesAnswered(i)
  PROVE  /\ Moved(i, "titlesBody")
         /\ ingests'[i].age = 0 /\ ingests'[i].clock = ingests[i].clock
         /\ ingests'[i].titles = published.titles
         /\ ingests'[i].ratings = ingests[i].ratings
<1>1. ingests[i] \in Ingest /\ ingests[i] # Idle
  BY Zenon DEF TypeOK, TitlesAnswered
<1>2. published.titles \in Days
  BY Zenon DEF TypeOK, Dumps
<1>3. PICK y : y = [ingests[i] EXCEPT !.pc = "titlesBody", !.age = 0, !.titles = published.titles]
  OBVIOUS
<1>4. /\ y \in Ingest
      /\ y.pc = "titlesBody" /\ y.age = 0 /\ y.titles = published.titles
      /\ y.ratings = ingests[i].ratings /\ y.clock = ingests[i].clock
      /\ y.own = ingests[i].own /\ y.staged = ingests[i].staged /\ y.beside = ingests[i].beside
  BY <1>1, <1>2, <1>3, HasTitles, Zenon
<1>5. ingests' = [ingests EXCEPT ![i] = y]
  BY <1>3, Zenon DEF TitlesAnswered
<1>6. QED
  BY <1>1, <1>4, <1>5, Alone, Zenon DEF Moved

LEMMA TitlesLanded ==
  ASSUME TypeOK, NEW i \in Ingests, TitlesLand(i)
  PROVE  /\ Moved(i, "ratings")
         /\ ingests'[i].age = ingests[i].age /\ ingests'[i].clock = 0
         /\ ingests'[i].titles = ingests[i].titles
         /\ ingests'[i].ratings = ingests[i].ratings
<1>1. ingests[i] \in Ingest /\ ingests[i] # Idle
  BY Zenon DEF TypeOK, TitlesLand
<1>2. PICK y : y = [ingests[i] EXCEPT !.pc = "ratings", !.clock = 0]
  OBVIOUS
<1>3. /\ Same(ingests[i], y)
      /\ y.pc = "ratings" /\ y.clock = 0 /\ y.age = ingests[i].age
      /\ y.staged = ingests[i].staged /\ y.beside = ingests[i].beside
  BY <1>1, <1>2, GoesOn, Zenon
<1>4. ingests' = [ingests EXCEPT ![i] = y]
  BY <1>2, Zenon DEF TitlesLand
<1>5. QED
  BY <1>1, <1>3, <1>4, Alone, Zenon DEF Moved, Same

LEMMA RatingsBegun ==
  ASSUME TypeOK, NEW i \in Ingests, RatingsAnswered(i)
  PROVE  /\ Moved(i, "ratingsBody")
         /\ ingests'[i].age = 0 /\ ingests'[i].clock = ingests[i].clock
         /\ ingests'[i].titles = ingests[i].titles
         /\ ingests'[i].ratings = published.ratings
<1>1. ingests[i] \in Ingest /\ ingests[i] # Idle
  BY Zenon DEF TypeOK, RatingsAnswered
<1>2. published.ratings \in Days
  BY Zenon DEF TypeOK, Dumps
<1>3. PICK y : y = [ingests[i] EXCEPT !.pc = "ratingsBody", !.age = 0, !.ratings = published.ratings]
  OBVIOUS
<1>4. /\ y \in Ingest
      /\ y.pc = "ratingsBody" /\ y.age = 0 /\ y.ratings = published.ratings
      /\ y.titles = ingests[i].titles /\ y.clock = ingests[i].clock
      /\ y.own = ingests[i].own /\ y.staged = ingests[i].staged /\ y.beside = ingests[i].beside
  BY <1>1, <1>2, <1>3, HasRatings, Zenon
<1>5. ingests' = [ingests EXCEPT ![i] = y]
  BY <1>3, Zenon DEF RatingsAnswered
<1>6. QED
  BY <1>1, <1>4, <1>5, Alone, Zenon DEF Moved

LEMMA Replacing ==
  ASSUME TypeOK, NEW i \in Ingests,
         NEW pc \in Phases, ingests[i] # Idle,
         ingests' = [ingests EXCEPT ![i] = [ingests[i] EXCEPT !.pc = pc]]
  PROVE  /\ Moved(i, pc)
         /\ ingests'[i].age = ingests[i].age /\ ingests'[i].clock = ingests[i].clock
         /\ ingests'[i].titles = ingests[i].titles
         /\ ingests'[i].ratings = ingests[i].ratings
<1>1. ingests[i] \in Ingest
  BY Zenon DEF TypeOK
<1>2. PICK y : y = [ingests[i] EXCEPT !.pc = pc]
  OBVIOUS
<1>3. /\ Same(ingests[i], y)
      /\ y.pc = pc /\ y.clock = ingests[i].clock /\ y.age = ingests[i].age
      /\ y.staged = ingests[i].staged /\ y.beside = ingests[i].beside
  BY <1>1, <1>2, Moves, Zenon
<1>4. ingests' = [ingests EXCEPT ![i] = y]
  BY <1>2, Zenon
<1>5. QED
  BY <1>1, <1>3, <1>4, Alone, Zenon DEF Moved, Same

LEMMA RatingsLanded ==
  ASSUME TypeOK, NEW i \in Ingests, RatingsLand(i)
  PROVE  /\ Moved(i, "staged")
         /\ ingests'[i].age = ingests[i].age /\ ingests'[i].clock = ingests[i].clock
         /\ ingests'[i].titles = ingests[i].titles
         /\ ingests'[i].ratings = ingests[i].ratings
BY Replacing, AllPhases, Zenon DEF RatingsLand

LEMMA SwitchedOff ==
  ASSUME TypeOK, SwitchOff
  PROVE  /\ ingests' \in Slots
         /\ \A i \in Ingests : ingests[i] = Idle => ingests'[i] = Idle
         /\ \A i \in Ingests : ingests[i] # Idle =>
              /\ ingests'[i] \in Ingest /\ ~ingests'[i].own
              /\ ingests'[i].pc = ingests[i].pc
              /\ ingests'[i].clock = ingests[i].clock /\ ingests'[i].age = ingests[i].age
              /\ ingests'[i].titles = ingests[i].titles /\ ingests'[i].ratings = ingests[i].ratings
              /\ ingests'[i].staged = ingests[i].staged /\ ingests'[i].beside = ingests[i].beside
<1> DEFINE y(i) == IF ingests[i] = Idle THEN Idle ELSE [ingests[i] EXCEPT !.own = FALSE]
<1>1. ingests' = [i \in Ingests |-> y(i)]
  BY Zenon DEF SwitchOff
<1>2. ASSUME NEW i \in Ingests, ingests[i] # Idle
      PROVE  /\ y(i) \in Ingest /\ ~y(i).own
             /\ y(i).pc = ingests[i].pc
             /\ y(i).clock = ingests[i].clock /\ y(i).age = ingests[i].age
             /\ y(i).titles = ingests[i].titles /\ y(i).ratings = ingests[i].ratings
             /\ y(i).staged = ingests[i].staged /\ y(i).beside = ingests[i].beside
  <2>1. ingests[i] \in Ingest /\ y(i) = [ingests[i] EXCEPT !.own = FALSE]
    BY <1>2, Zenon DEF TypeOK
  <2>2. QED
    BY <2>1, Disowned, Zenon
<1>3. \A i \in Ingests : ingests[i] = Idle => y(i) = Idle
  BY Zenon
<1> HIDE DEF y
<1>4. \A i \in Ingests : y(i) \in Ingest \cup {Idle}
  BY <1>2, <1>3, Zenon
<1>5. QED
  BY <1>1, <1>2, <1>3, <1>4, Zenon DEF Slots

LEMMA Ticked ==
  ASSUME TypeOK, Tick
  PROVE  /\ ingests' \in Slots
         /\ \A i \in Ingests : ingests[i] = Idle => ingests'[i] = Idle
         /\ \A i \in Ingests : ingests[i] # Idle =>
              /\ Same(ingests[i], ingests'[i])
              /\ ingests'[i].clock = ingests[i].clock + 1 /\ ingests'[i].age = ingests[i].age + 1
              /\ ingests'[i].pc = ingests[i].pc
              /\ ingests'[i].staged = ingests[i].staged /\ ingests'[i].beside = ingests[i].beside
<1> DEFINE y(i) == IF ingests[i] = Idle THEN Idle
                   ELSE [ingests[i] EXCEPT !.clock = ingests[i].clock + 1, !.age = ingests[i].age + 1]
<1>1. ingests' = [i \in Ingests |-> y(i)]
  BY Zenon DEF Tick
<1>2. ASSUME NEW i \in Ingests, ingests[i] # Idle
      PROVE  /\ Same(ingests[i], y(i))
             /\ y(i).clock = ingests[i].clock + 1 /\ y(i).age = ingests[i].age + 1
             /\ y(i).pc = ingests[i].pc
             /\ y(i).staged = ingests[i].staged /\ y(i).beside = ingests[i].beside
  <2>1. /\ ingests[i] \in Ingest
        /\ y(i) = Aged(ingests[i], ingests[i].clock + 1, ingests[i].age + 1)
    BY <1>2, Zenon DEF TypeOK, Aged
  <2>2. ingests[i].clock + 1 \in Nat /\ ingests[i].age + 1 \in Nat
    BY <2>1, Fields
  <2> HIDE DEF y
  <2>3. PICK m \in Nat : m = ingests[i].clock + 1
    BY <2>2
  <2>4. PICK n \in Nat : n = ingests[i].age + 1
    BY <2>2
  <2>5. PICK x \in Ingest : x = ingests[i]
    BY <2>1
  <2>6. y(i) = Aged(x, m, n)
    BY <2>1, <2>3, <2>4, <2>5, Zenon
  <2>7. /\ Same(x, y(i)) /\ y(i).clock = m /\ y(i).age = n
        /\ y(i).pc = x.pc /\ y(i).staged = x.staged /\ y(i).beside = x.beside
    BY <2>6, Zenon DEF Aged, Ingest, Same
  <2>8. QED
    BY <2>3, <2>4, <2>5, <2>7, Zenon
<1>3. \A i \in Ingests : ingests[i] = Idle => y(i) = Idle
  BY Zenon
<1> HIDE DEF y
<1>4. \A i \in Ingests : y(i) \in Ingest \cup {Idle}
  BY <1>2, <1>3, Zenon DEF Same
<1>5. QED
  BY <1>1, <1>2, <1>3, <1>4, Zenon DEF Slots

LEMMA Held ==
  ASSUME UNCHANGED ingests, NEW i \in Ingests
  PROVE  ingests'[i] = ingests[i]
BY Zenon

\* What a restart leaves of the ingests that were at work.
Left == leftovers \cup {ingests[i].age : i \in {j \in Busy : ingests[j].staged}}

LEMMA LeftTyped ==
  ASSUME TypeOK, AgeInv
  PROVE  Left \subseteq 0 .. Reclaimed + 1
<1>1. ASSUME NEW i \in Busy
      PROVE  ingests[i].age \in 0 .. Reclaimed + 1
  <2>1. ingests[i].age \in 0 .. Longest
    BY Young DEF Busy
  <2>2. QED
    BY <2>1, TimesAssumption DEF Reclaimed, Longest
<1>2. leftovers \subseteq 0 .. Reclaimed + 1
  BY DEF TypeOK
<1>3. QED
  BY <1>1, <1>2, Zenon DEF Left

LEMMA AllIdle == [i \in Ingests |-> Idle] \in Slots
BY Zenon DEF Slots

LEMMA TypeInit == Init => TypeOK
<1> SUFFICES ASSUME Init PROVE TypeOK
  OBVIOUS
<1>1. published \in Dumps
  BY Zero, Zenon DEF Init, Dumps
<1>2. ingests \in Slots
  BY AllIdle, Zenon DEF Init
<1>3. due \in 0 .. Interval /\ crashes \in 0 .. MaxCrashes
  BY TimesAssumption, BoundsAssumption DEF Init
<1>4. QED
  BY <1>1, <1>2, <1>3 DEF Init, TypeOK, Slots

(* The parts of the type invariant a step changes, one by one.             *)
LEMMA TypeStep == TypeOK /\ AgeInv /\ [Next]_vars => TypeOK'
<1> SUFFICES ASSUME TypeOK, AgeInv, [Next]_vars PROVE TypeOK'
  OBVIOUS
<1> USE TimesAssumption, BoundsAssumption
<1>1. ASSUME NEW before \in Slots, StartIngest(before)
      PROVE  ingests' \in Slots
  BY <1>1, Started, Zenon
<1>2. leftovers \in SUBSET (0 .. Reclaimed + 1) /\ ingests \in Slots
  BY DEF TypeOK, Slots
<1>3. Opened \in Dumps \cup {Superseded, Empty}
  BY DEF TypeOK, Opened
<1>4. /\ Interval \in 0 .. Interval /\ 0 \in 0 .. Interval
      /\ 0 \in 0 .. Reclaimed + 1 /\ AbandonedAfter \in 0 .. Reclaimed + 1
  BY DEF Reclaimed, Longest
<1>5. CASE SwitchOn
  <2>1. ingests' \in Slots
    BY <1>1, <1>2, <1>5, Zenon DEF SwitchOn
  <2>2. QED
    BY <1>3, <1>4, <1>5, <2>1 DEF SwitchOn, TypeOK, Slots, outside
<1>6. CASE SwitchOff
  <2>1. ingests' \in Slots
    BY <1>6, SwitchedOff, Zenon
  <2>2. QED
    BY <1>4, <1>6, <2>1 DEF SwitchOff, TypeOK, Slots, outside
<1>7. CASE TimerFires
  <2>1. ingests' \in Slots
    BY <1>1, <1>2, <1>7, Zenon DEF TimerFires
  <2>2. QED
    BY <1>4, <1>7, <2>1 DEF TimerFires, TypeOK, Slots, outside
<1>8. ASSUME NEW i \in Ingests, NEW pc, Moved(i, pc), UNCHANGED <<open, due, leftovers, outside>>,
             dataset' \in Dumps \cup {Superseded, Empty}, fetched' \subseteq Dumps
      PROVE  TypeOK'
  <2>1. ingests' \in Slots
    BY <1>8, Zenon DEF Moved
  <2>2. QED
    BY <1>8, <2>1, Zenon DEF TypeOK, Slots, outside
<1>9. dataset \in Dumps \cup {Superseded, Empty} /\ fetched \subseteq Dumps
  BY DEF TypeOK
<1>10. ASSUME NEW i \in Ingests, ingests[i] # Idle
       PROVE  [titles |-> ingests[i].titles, ratings |-> ingests[i].ratings] \in Dumps
  BY <1>10, Fields, Zenon DEF TypeOK, Dumps
<1>11. ASSUME NEW i \in Ingests, TitlesAnswered(i) \/ TitlesLand(i) \/ RatingsAnswered(i) \/ ReplaceBegins(i)
       PROVE  TypeOK'
  <2>1. \E pc : Moved(i, pc)
    BY <1>11, TitlesBegun, TitlesLanded, RatingsBegun, Replacing, AllPhases, Zenon DEF ReplaceBegins
  <2>2. UNCHANGED <<open, due, leftovers, outside, dataset, fetched>>
    BY <1>11, Zenon DEF TitlesAnswered, TitlesLand, RatingsAnswered, ReplaceBegins
  <2>3. QED
    BY <1>8, <1>9, <2>1, <2>2, Zenon
<1>12. ASSUME NEW i \in Ingests, RatingsLand(i)
       PROVE  TypeOK'
  <2>1. Moved(i, "staged")
    BY <1>12, RatingsLanded, Zenon
  <2>2. fetched' \subseteq Dumps
    BY <1>9, <1>10, <1>12, Zenon DEF RatingsLand
  <2>3. UNCHANGED <<open, due, leftovers, outside, dataset>>
    BY <1>12, Zenon DEF RatingsLand
  <2>4. QED
    BY <1>8, <1>9, <2>1, <2>2, <2>3, Zenon
<1>13. ASSUME NEW i \in Ingests, Commits(i)
       PROVE  TypeOK'
  <2>1. Moved(i, "vacuum")
    BY <1>13, Replacing, AllPhases, Zenon DEF Commits
  <2>2. dataset' \in Dumps
    BY <1>10, <1>13, Zenon DEF Commits
  <2>3. UNCHANGED <<open, due, leftovers, outside, fetched>>
    BY <1>13, Zenon DEF Commits
  <2>4. QED
    BY <1>8, <1>9, <2>1, <2>2, <2>3, Zenon
<1>14. ASSUME ingests' \in Slots, leftovers' \subseteq 0 .. Reclaimed + 1,
              UNCHANGED <<dataset, open, due, fetched, outside>>
       PROVE  TypeOK'
  BY <1>14, Zenon DEF TypeOK, Slots, outside
<1>15. ASSUME NEW i \in Ingests,
              DownloadFails(i) \/ DownloadTimesOut(i) \/ ReplaceFails(i) \/ VacuumEnds(i)
       PROVE  TypeOK'
  <2>1. /\ Ends(i) /\ ingests[i] # Idle
        /\ UNCHANGED <<dataset, open, due, fetched, outside>>
    BY <1>15, Zenon DEF DownloadFails, DownloadTimesOut, Downloading, ReplaceFails, VacuumEnds
  <2>2. ingests[i].age \in 0 .. Reclaimed + 1
    <3>1. ingests[i].age \in 0 .. Longest
      BY <2>1, Young, Zenon
    <3>2. QED
      BY <3>1 DEF Reclaimed, Longest
  <2>3. ingests' \in Slots /\ leftovers' \subseteq 0 .. Reclaimed + 1
    BY <1>2, <1>4, <2>1, <2>2, Ended, Zenon
  <2>4. QED
    BY <1>14, <2>1, <2>3, Zenon
<1>16. ASSUME NEW i \in Ingests, OpenFails(i)
       PROVE  TypeOK'
  <2>1. UNCHANGED <<dataset, open, due, fetched, outside>>
    BY <1>16, Zenon DEF OpenFails
  <2>2. ingests' \in Slots /\ leftovers' \subseteq 0 .. Reclaimed + 1
    BY <1>2, <1>4, <1>16, NotOpened, Zenon
  <2>3. QED
    BY <1>14, <2>1, <2>2, Zenon
<1>17. ASSUME NEW i \in Ingests, Sweep(i)
       PROVE  TypeOK'
  <2>1. UNCHANGED <<dataset, open, due, fetched, outside>>
    BY <1>17, Zenon DEF Sweep
  <2>2. ingests' \in Slots /\ leftovers' \subseteq 0 .. Reclaimed + 1
    BY <1>2, <1>4, <1>17, SweptClean, Sweepable, Zenon
  <2>3. QED
    BY <1>14, <2>1, <2>2, Zenon
<1>18. CASE Restart
  <2>1. Left \in SUBSET (0 .. Reclaimed + 1) /\ leftovers' = Left
    BY <1>18, LeftTyped, Zenon DEF Restart, Left
  <2>2. ingests' \in Slots /\ due' \in {due, Interval}
    BY <1>1, <1>18, AllIdle, Zenon DEF Restart
  <2>3. QED
    <3>1. crashes' \in 0 .. MaxCrashes /\ UNCHANGED <<published, dataset, open, fetched>>
      BY <1>18 DEF Restart, TypeOK
    <3>2. due' \in 0 .. Interval
      BY <1>4, <2>2, Zenon DEF TypeOK
    <3>3. QED
      BY <2>1, <2>2, <3>1, <3>2, Zenon DEF TypeOK, Slots
<1>19. ASSUME NEW dump \in Renewed, Publish(dump)
       PROVE  TypeOK'
  <2>1. published[dump] \in Days
    BY Zenon DEF TypeOK, Dumps
  <2>2. published[dump] + 1 \in Days
    BY <1>19, <2>1 DEF Publish, Days
  <2>3. published' = [published EXCEPT ![dump] = published[dump] + 1]
    BY <1>19, Zenon DEF Publish
  <2>4. published' \in Dumps
    BY <2>2, <2>3, Zenon DEF TypeOK, Dumps
  <2>5. QED
    BY <1>19, <2>4 DEF Publish, TypeOK
<1>20. CASE Tick
  <2>1. ingests' \in Slots
    BY <1>20, Ticked, Zenon
  <2>2. /\ due' = IF due = 0 THEN 0 ELSE due - 1
        /\ leftovers' = {IF a > Reclaimed THEN a ELSE a + 1 : a \in leftovers}
        /\ UNCHANGED <<dataset, open, fetched, outside>>
    BY <1>20, Zenon DEF Tick
  <2>3. leftovers' \subseteq 0 .. Reclaimed + 1
    BY <2>2 DEF TypeOK, Reclaimed, Longest
  <2>4. due' \in 0 .. Interval
    BY <2>2 DEF TypeOK
  <2>5. QED
    BY <2>1, <2>2, <2>3, <2>4, Zenon DEF TypeOK, Slots, outside
<1>21. CASE UNCHANGED vars
  BY <1>21 DEF vars, TypeOK
<1>22. QED
  BY <1>5, <1>6, <1>7, <1>11, <1>12, <1>13, <1>15, <1>16, <1>17, <1>18, <1>19, <1>20, <1>21, Zenon DEF Next

-----------------------------------------------------------------------------
(* The staging directories: an ingest has its own for as long as it works. *)

\* What AgeInv and StagingSafe say of one ingest.
Sound(x) == InTime(x) /\ (x.pc # "opening" => x.staged)

StagingInv == \A i \in Ingests : ingests[i] # Idle => Sound(ingests[i])

LEMMA StagingParts == StagingInv <=> AgeInv /\ StagingSafe
BY Zenon DEF StagingInv, Sound, AgeInv, StagingSafe, Busy

\* Two ingests in the same phase for the same time.
LEMMA SoundAlike ==
  ASSUME NEW x, NEW y, Sound(x),
         y.pc = x.pc, y.clock = x.clock, y.age = x.age, x.staged => y.staged
  PROVE  Sound(y)
<1>1. Limit(y) = Limit(x) /\ Eldest(y) = Eldest(x)
  BY Zenon DEF Limit, Eldest
<1>2. QED
  BY <1>1, Zenon DEF Sound, InTime

LEMMA StagingStarted ==
  ASSUME NEW before \in Slots, StartIngest(before),
         \A i \in Ingests : before[i] # Idle => Sound(before[i])
  PROVE  StagingInv'
<1>1. PICK i \in Ingests :
        /\ ingests'[i].pc = "opening" /\ ingests'[i].clock = 0 /\ ingests'[i].age = 0
        /\ \A j \in Ingests : j # i /\ before[j] = Idle => ingests'[j] = Idle
        /\ \A j \in Ingests : j # i /\ before[j] # Idle => Joined(before[j], ingests'[j])
  BY Started, Zenon
<1>2. Sound(ingests'[i])
  <2>1. Limit(ingests'[i]) = 0 /\ Eldest(ingests'[i]) = 0 /\ 0 <= 0
    BY <1>1 DEF Limit, Eldest
  <2>2. QED
    BY <1>1, <2>1, Zenon DEF Sound, InTime
<1>3. ASSUME NEW j \in Ingests, j # i, ingests'[j] # Idle
      PROVE  Sound(ingests'[j])
  BY <1>1, <1>3, SoundAlike, Zenon DEF Joined
<1>4. QED
  BY <1>2, <1>3, Zenon DEF StagingInv

\* An ingest in one of its phases, for a time and with a directory of an age.
LEMMA SoundIf ==
  ASSUME NEW x \in Ingest, x.staged
  PROVE  /\ x.pc \in Downloads /\ x.clock <= Timeout /\ x.age <= x.clock => Sound(x)
         /\ x.pc = "ratings" /\ x.clock = 0 /\ x.age <= Timeout => Sound(x)
         /\ x.pc \in {"staged", "replacing", "vacuum"} /\ x.clock <= Timeout + Writing /\ x.age <= x.clock
              => Sound(x)
<1>1. x.clock \in Nat /\ x.age \in Nat
  BY Fields
<1>2. /\ x.pc \in Downloads => Limit(x) = Timeout
      /\ x.pc \in {"staged", "replacing", "vacuum"} => Limit(x) = Timeout + Writing
      /\ x.pc = "ratings" => Limit(x) = Timeout
  BY DEF Limit, Downloads
<1>3. x.age <= x.clock => x.age <= Eldest(x)
  BY <1>1, TimesAssumption DEF Eldest
<1>4. x.pc = "ratings" /\ x.clock = 0 /\ x.age <= Timeout => x.clock <= Timeout /\ x.age <= Eldest(x)
  BY <1>1, TimesAssumption DEF Eldest
<1>5. QED
  BY <1>2, <1>3, <1>4, Zenon DEF Sound, InTime

\* What is known of an ingest in one of its phases.
LEMMA SoundSays ==
  ASSUME NEW x \in Ingest, Sound(x)
  PROVE  /\ x.pc \in Downloads => x.clock <= Timeout
         /\ x.pc = "opening" => x.clock = 0
         /\ x.clock <= Timeout + Writing
         /\ x.pc # "ratings" => x.age <= x.clock
<1>1. x.clock \in Nat /\ x.age \in Nat /\ x.clock <= Limit(x) /\ x.age <= Eldest(x)
  BY Fields, Zenon DEF Sound, InTime
<1>2. x.pc \in Downloads => Limit(x) = Timeout
  BY DEF Limit, Downloads
<1>3. x.pc = "opening" => Limit(x) = 0
  BY DEF Limit
<1>4. x.clock <= Timeout + Writing
  BY <1>1, LimitIsNat, TimesAssumption
<1>5. x.pc # "ratings" => x.age <= x.clock
  BY <1>1 DEF Eldest
<1>6. QED
  BY <1>1, <1>2, <1>3, <1>4, <1>5

LEMMA StagingStep == TypeOK /\ StagingInv /\ [Next]_vars => StagingInv'
<1> SUFFICES ASSUME TypeOK, StagingInv, [Next]_vars PROVE StagingInv'
  OBVIOUS
<1>1. ingests \in Slots /\ \A i \in Ingests : ingests[i] # Idle => ingests[i] \in Ingest /\ Sound(ingests[i])
  BY Zenon DEF TypeOK, StagingInv, Slots
<1>2. ASSUME UNCHANGED ingests
      PROVE  StagingInv'
  BY <1>2, Zenon DEF StagingInv
<1>3. ASSUME StartIngest(ingests)
      PROVE  StagingInv'
  BY <1>1, <1>3, StagingStarted, Zenon
<1>4. ASSUME NEW i \in Ingests, NEW pc, Moved(i, pc), Sound(ingests'[i])
      PROVE  StagingInv'
  BY <1>1, <1>4, Zenon DEF StagingInv, Moved
<1>5. ASSUME NEW i \in Ingests, ingests'[i] = Idle, \A j \in Ingests : j # i => ingests'[j] = ingests[j]
      PROVE  StagingInv'
  BY <1>1, <1>5, Zenon DEF StagingInv
<1>6. ASSUME NEW i \in Ingests, NEW pc, Moved(i, pc), ingests[i].pc # "opening"
      PROVE  ingests'[i] \in Ingest /\ ingests'[i].staged /\ ingests[i] \in Ingest /\ Sound(ingests[i])
  BY <1>1, <1>6, Zenon DEF Moved, Sound
<1>7. CASE SwitchOn
  BY <1>3, <1>7, Zenon DEF SwitchOn
<1>8. CASE SwitchOff
  BY <1>1, <1>8, SoundAlike, SwitchedOff, Zenon DEF StagingInv
<1>9. CASE TimerFires
  BY <1>2, <1>3, <1>9, Zenon DEF TimerFires
<1>10. ASSUME NEW i \in Ingests, OpenFails(i)
       PROVE  StagingInv'
  BY <1>5, <1>10, NotOpened, Zenon
<1>11. ASSUME NEW i \in Ingests, Sweep(i)
       PROVE  StagingInv'
  <2>1. ASSUME ingests'[i] # Idle
        PROVE  Sound(ingests'[i])
    <3>1. /\ ingests[i] \in Ingest /\ Sound(ingests[i]) /\ ingests[i].pc = "opening"
          /\ ingests'[i] \in Ingest /\ ingests'[i].pc = "titles" /\ ingests'[i].staged
          /\ ingests'[i].clock = ingests[i].clock /\ ingests'[i].age = ingests[i].age
      BY <1>1, <1>11, <2>1, SweptClean, Zenon DEF Same
    <3>2. ingests'[i].clock = 0 /\ ingests'[i].age <= ingests'[i].clock
      BY <3>1, SoundSays
    <3>3. ingests'[i].pc \in Downloads /\ ingests'[i].clock <= Timeout
      BY <3>1, <3>2, TimesAssumption DEF Downloads
    <3>4. QED
      BY <3>1, <3>2, <3>3, SoundIf, Zenon
  <2>2. ASSUME NEW j \in Ingests, j # i, ingests'[j] # Idle
        PROVE  Sound(ingests'[j])
    <3>1. /\ ingests[j] \in Ingest /\ Sound(ingests[j])
          /\ Spared(ingests[j], ingests'[j])
      BY <1>1, <1>11, <2>2, SweptClean, Zenon
    <3>2. ~Abandoned(ingests[j].age)
      BY <3>1, InTimeIsYoung, Zenon DEF Sound
    <3>3. QED
      BY <3>1, <3>2, SoundAlike, Zenon DEF Spared
  <2>3. QED
    BY <2>1, <2>2, Zenon DEF StagingInv
<1>12. ASSUME NEW i \in Ingests, TitlesAnswered(i)
       PROVE  StagingInv'
  <2>1. /\ Moved(i, "titlesBody") /\ ingests'[i].age = 0 /\ ingests'[i].clock = ingests[i].clock
        /\ ingests[i].pc = "titles" /\ "titles" # "opening"
    BY <1>12, TitlesBegun, Zenon DEF TitlesAnswered
  <2>2. ingests'[i].clock \in Nat /\ ingests'[i].clock <= Timeout
    BY <1>6, <2>1, SoundSays, Fields DEF Downloads
  <2>3. ingests'[i].pc \in Downloads /\ ingests'[i].age <= ingests'[i].clock
    BY <2>1, <2>2 DEF Downloads, Moved
  <2>4. QED
    BY <1>4, <1>6, <2>1, <2>2, <2>3, SoundIf, Zenon
<1>13. ASSUME NEW i \in Ingests, TitlesLand(i)
       PROVE  StagingInv'
  <2>1. /\ Moved(i, "ratings") /\ ingests'[i].age = ingests[i].age /\ ingests'[i].clock = 0
        /\ ingests[i].pc = "titlesBody" /\ "titlesBody" # "opening" /\ "titlesBody" # "ratings"
    BY <1>13, TitlesLanded, Zenon DEF TitlesLand
  <2>2. ingests[i].clock <= Timeout /\ ingests[i].age <= ingests[i].clock
    BY <1>6, <2>1, SoundSays DEF Downloads
  <2>3. ingests[i].clock \in Nat /\ ingests[i].age \in Nat
    BY <1>6, <2>1, Fields
  <2>4. ingests'[i].age <= Timeout
    BY <2>1, <2>2, <2>3, TimesAssumption
  <2>5. ingests'[i].pc = "ratings"
    BY <2>1, Zenon DEF Moved
  <2>6. QED
    BY <1>4, <1>6, <2>1, <2>4, <2>5, SoundIf, Zenon
<1>14. ASSUME NEW i \in Ingests, RatingsAnswered(i)
       PROVE  StagingInv'
  <2>1. /\ Moved(i, "ratingsBody") /\ ingests'[i].age = 0 /\ ingests'[i].clock = ingests[i].clock
        /\ ingests[i].pc = "ratings" /\ "ratings" # "opening"
    BY <1>14, RatingsBegun, Zenon DEF RatingsAnswered
  <2>2. ingests'[i].clock \in Nat /\ ingests'[i].clock <= Timeout
    BY <1>6, <2>1, SoundSays, Fields DEF Downloads
  <2>3. ingests'[i].pc \in Downloads /\ ingests'[i].age <= ingests'[i].clock
    BY <2>1, <2>2 DEF Downloads, Moved
  <2>4. QED
    BY <1>4, <1>6, <2>1, <2>2, <2>3, SoundIf, Zenon
<1>15. ASSUME NEW i \in Ingests, NEW pc \in {"staged", "replacing", "vacuum"}, Moved(i, pc),
              ingests[i].pc # "opening", ingests[i].pc # "ratings",
              ingests'[i].age = ingests[i].age, ingests'[i].clock = ingests[i].clock
       PROVE  StagingInv'
  <2>1. ingests'[i].clock <= Timeout + Writing /\ ingests'[i].age <= ingests'[i].clock
    BY <1>6, <1>15, SoundSays
  <2>2. ingests'[i].pc \in {"staged", "replacing", "vacuum"}
    BY <1>15, Zenon DEF Moved
  <2>3. QED
    BY <1>4, <1>6, <1>15, <2>1, <2>2, SoundIf, Zenon
<1>16. /\ "ratingsBody" # "opening" /\ "ratingsBody" # "ratings" /\ "staged" # "opening"
       /\ "staged" # "ratings" /\ "replacing" # "opening" /\ "replacing" # "ratings"
  OBVIOUS
<1>17. ASSUME NEW i \in Ingests, RatingsLand(i)
       PROVE  StagingInv'
  BY <1>15, <1>16, <1>17, RatingsLanded, Zenon DEF RatingsLand
<1>18. ASSUME NEW i \in Ingests, ReplaceBegins(i)
       PROVE  StagingInv'
  BY <1>15, <1>16, <1>18, Replacing, AllPhases, Zenon DEF ReplaceBegins
<1>19. ASSUME NEW i \in Ingests, Commits(i)
       PROVE  StagingInv'
  BY <1>15, <1>16, <1>19, Replacing, AllPhases, Zenon DEF Commits
<1>20. ASSUME NEW i \in Ingests,
              DownloadFails(i) \/ DownloadTimesOut(i) \/ ReplaceFails(i) \/ VacuumEnds(i)
       PROVE  StagingInv'
  <2>1. Ends(i)
    BY <1>20, Zenon DEF DownloadFails, DownloadTimesOut, ReplaceFails, VacuumEnds
  <2>2. QED
    BY <1>5, <2>1, Ended, Zenon
<1>21. CASE Restart
  <2>1. ASSUME StartIngest([i \in Ingests |-> Idle])
        PROVE  StagingInv'
    BY <2>1, AllIdle, StagingStarted, Zenon
  <2>2. ASSUME ingests' = [i \in Ingests |-> Idle]
        PROVE  StagingInv'
    BY <2>2, Zenon DEF StagingInv
  <2>3. QED
    BY <1>21, <2>1, <2>2, Zenon DEF Restart
<1>22. ASSUME NEW dump \in Renewed, Publish(dump)
       PROVE  StagingInv'
  BY <1>2, <1>22, Zenon DEF Publish
<1>23. CASE Tick
  <2>1. ASSUME NEW i \in Ingests, ingests'[i] # Idle
        PROVE  Sound(ingests'[i])
    <3>1. /\ ingests[i] # Idle
          /\ ingests'[i].clock = ingests[i].clock + 1 /\ ingests'[i].age = ingests[i].age + 1
          /\ ingests'[i].pc = ingests[i].pc /\ ingests'[i].staged = ingests[i].staged
      BY <1>23, <2>1, Ticked, Zenon
    <3>2. ingests[i].clock < Limit(ingests[i]) /\ ingests[i].age <= Eldest(ingests[i])
      BY <1>1, <1>23, <3>1, Zenon DEF Tick, Busy, Sound, InTime
    <3>3. Limit(ingests'[i]) = Limit(ingests[i])
      BY <3>1, Zenon DEF Limit
    <3>4. /\ ingests[i].clock \in Nat /\ ingests[i].age \in Nat
          /\ Limit(ingests[i]) \in Nat
      BY <1>1, <3>1, Fields, LimitIsNat, TimesAssumption
    <3>5. Eldest(ingests'[i]) = Eldest(ingests[i]) + 1 /\ Eldest(ingests[i]) \in Nat
      BY <3>1, <3>4, TimesAssumption DEF Eldest
    <3>6. ingests'[i].clock <= Limit(ingests'[i]) /\ ingests'[i].age <= Eldest(ingests'[i])
      BY <3>1, <3>2, <3>3, <3>4, <3>5
    <3>7. QED
      BY <1>1, <3>1, <3>6, Zenon DEF Sound, InTime
  <2>2. QED
    BY <2>1, Zenon DEF StagingInv
<1>24. CASE UNCHANGED vars
  BY <1>2, <1>24, Zenon DEF vars
<1>25. QED
  BY <1>7, <1>8, <1>9, <1>10, <1>11, <1>12, <1>13, <1>14, <1>17, <1>18, <1>19, <1>20, <1>21, <1>22,
     <1>23, <1>24, Zenon DEF Next

-----------------------------------------------------------------------------
(* The dumps: what an ingest replaces the copy with, it downloaded whole.  *)

\* What ingest x puts in the copy is both dumps of one download.
Downloaded(x, pairs) ==
  x.pc \in {"staged", "replacing", "vacuum"} => [titles |-> x.titles, ratings |-> x.ratings] \in pairs

DownloadedInv == \A i \in Ingests : ingests[i] # Idle => Downloaded(ingests[i], fetched)

LEMMA DownloadedStarted ==
  ASSUME NEW before \in Slots, StartIngest(before), UNCHANGED fetched,
         \A i \in Ingests : before[i] # Idle => Downloaded(before[i], fetched)
  PROVE  DownloadedInv'
<1>1. PICK i \in Ingests :
        /\ ingests'[i].pc = "opening"
        /\ \A j \in Ingests : j # i /\ before[j] = Idle => ingests'[j] = Idle
        /\ \A j \in Ingests : j # i /\ before[j] # Idle => Joined(before[j], ingests'[j])
  BY Started, Zenon
<1>2. ASSUME NEW x, NEW y, Downloaded(x, fetched), Joined(x, y)
      PROVE  Downloaded(y, fetched)
  BY <1>2, Zenon DEF Downloaded, Joined, Same
<1>3. Downloaded(ingests'[i], fetched)
  <2>1. "opening" \notin {"staged", "replacing", "vacuum"}
    OBVIOUS
  <2>2. QED
    BY <1>1, <2>1, Zenon DEF Downloaded
<1>4. QED
  BY <1>1, <1>2, <1>3, Zenon DEF DownloadedInv

LEMMA DownloadedStep ==
  TypeOK /\ DownloadedInv /\ WholeDownload /\ [Next]_vars => DownloadedInv' /\ WholeDownload'
<1> SUFFICES ASSUME TypeOK, DownloadedInv, WholeDownload, [Next]_vars
             PROVE  DownloadedInv' /\ WholeDownload'
  OBVIOUS
<1>1. ASSUME StartIngest(ingests), UNCHANGED fetched
      PROVE  DownloadedInv'
  BY <1>1, DownloadedStarted, Zenon DEF DownloadedInv, TypeOK, Slots
<1>2. ASSUME UNCHANGED <<ingests, fetched>>
      PROVE  DownloadedInv'
  BY <1>2, Zenon DEF DownloadedInv
<1>3. ASSUME UNCHANGED <<dataset, fetched>>
      PROVE  WholeDownload'
  BY <1>3, Zenon DEF WholeDownload
<1>4. ASSUME dataset' = Opened, UNCHANGED fetched
      PROVE  WholeDownload'
  BY <1>4, Zenon DEF WholeDownload, Opened
<1>5. CASE SwitchOn
  BY <1>1, <1>4, <1>5, Zenon DEF SwitchOn
<1>6. CASE SwitchOff
  <2>1. UNCHANGED <<dataset, fetched>>
    BY <1>6, Zenon DEF SwitchOff
  <2>2. DownloadedInv'
    BY <1>6, <2>1, SwitchedOff, Zenon DEF DownloadedInv, Downloaded
  <2>3. QED
    BY <1>3, <2>1, <2>2, Zenon
<1>7. CASE TimerFires
  BY <1>1, <1>2, <1>3, <1>7, Zenon DEF TimerFires
<1>8. /\ "titles" \notin {"staged", "replacing", "vacuum"}
      /\ "titlesBody" \notin {"staged", "replacing", "vacuum"}
      /\ "ratings" \notin {"staged", "replacing", "vacuum"}
      /\ "ratingsBody" \notin {"staged", "replacing", "vacuum"}
  OBVIOUS
<1>9. ASSUME NEW i \in Ingests, TitlesAnswered(i) \/ TitlesLand(i) \/ RatingsAnswered(i)
      PROVE  DownloadedInv' /\ WholeDownload'
  <2>1. UNCHANGED <<dataset, fetched>>
    BY <1>9, Zenon DEF TitlesAnswered, TitlesLand, RatingsAnswered
  <2>2. PICK pc \in {"titlesBody", "ratings", "ratingsBody"} : Moved(i, pc)
    BY <1>9, TitlesBegun, TitlesLanded, RatingsBegun, Zenon
  <2>3. Downloaded(ingests'[i], fetched')
    BY <1>8, <2>2, Zenon DEF Downloaded, Moved
  <2>4. QED
    BY <1>3, <2>1, <2>2, <2>3, Zenon DEF DownloadedInv, Moved
<1>10. ASSUME NEW i \in Ingests, RatingsLand(i)
       PROVE  DownloadedInv' /\ WholeDownload'
  <2>1. /\ dataset' = dataset
        /\ fetched' = fetched \cup {[titles |-> ingests[i].titles, ratings |-> ingests[i].ratings]}
    BY <1>10, Zenon DEF RatingsLand
  <2>2. /\ Moved(i, "staged")
        /\ ingests'[i].titles = ingests[i].titles
        /\ ingests'[i].ratings = ingests[i].ratings
    BY <1>10, RatingsLanded, Zenon
  <2>3. Downloaded(ingests'[i], fetched')
    BY <2>1, <2>2, Zenon DEF Downloaded
  <2>4. \A x : Downloaded(x, fetched) => Downloaded(x, fetched')
    BY <2>1, Zenon DEF Downloaded
  <2>5. WholeDownload'
    BY <2>1, Zenon DEF WholeDownload
  <2>6. QED
    BY <2>2, <2>3, <2>4, <2>5, Zenon DEF DownloadedInv, Moved
<1>11. ASSUME NEW i \in Ingests, NEW pc \in {"replacing", "vacuum"},
              Moved(i, pc), ingests[i].pc \in {"staged", "replacing"}, UNCHANGED fetched,
              ingests'[i].titles = ingests[i].titles, ingests'[i].ratings = ingests[i].ratings
       PROVE  DownloadedInv'
  <2>1. ingests[i].pc \in {"staged", "replacing", "vacuum"}
    BY <1>11, Zenon
  <2>2. [titles |-> ingests[i].titles, ratings |-> ingests[i].ratings] \in fetched
    BY <1>11, <2>1, Zenon DEF DownloadedInv, Downloaded, Moved
  <2>3. Downloaded(ingests'[i], fetched)
    BY <1>11, <2>2, Zenon DEF Downloaded
  <2>4. QED
    BY <1>11, <2>3, Zenon DEF DownloadedInv, Moved
<1>12. ASSUME NEW i \in Ingests, ReplaceBegins(i)
       PROVE  DownloadedInv' /\ WholeDownload'
  <2>1. UNCHANGED <<dataset, fetched>> /\ ingests[i].pc \in {"staged", "replacing"}
    BY <1>12, Zenon DEF ReplaceBegins
  <2>2. /\ Moved(i, "replacing")
        /\ ingests'[i].titles = ingests[i].titles /\ ingests'[i].ratings = ingests[i].ratings
    BY <1>12, Replacing, AllPhases, Zenon DEF ReplaceBegins
  <2>3. QED
    BY <1>3, <1>11, <2>1, <2>2, Zenon
<1>13. ASSUME NEW i \in Ingests, Commits(i)
       PROVE  DownloadedInv' /\ WholeDownload'
  <2>1. /\ fetched' = fetched /\ ingests[i].pc \in {"staged", "replacing"}
        /\ dataset' = [titles |-> ingests[i].titles, ratings |-> ingests[i].ratings]
    BY <1>13, Zenon DEF Commits
  <2>2. /\ Moved(i, "vacuum")
        /\ ingests'[i].titles = ingests[i].titles /\ ingests'[i].ratings = ingests[i].ratings
    BY <1>13, Replacing, AllPhases, Zenon DEF Commits
  <2>3. ingests[i].pc \in {"staged", "replacing", "vacuum"}
    BY <2>1, Zenon
  <2>4. dataset' \in fetched
    BY <2>1, <2>2, <2>3, Zenon DEF DownloadedInv, Downloaded, Moved
  <2>5. QED
    BY <1>11, <2>1, <2>2, <2>4, Zenon DEF WholeDownload
<1>14. ASSUME NEW i \in Ingests,
              DownloadFails(i) \/ DownloadTimesOut(i) \/ ReplaceFails(i) \/ VacuumEnds(i)
       PROVE  DownloadedInv' /\ WholeDownload'
  <2>1. Ends(i) /\ UNCHANGED <<dataset, fetched>>
    BY <1>14, Zenon DEF DownloadFails, DownloadTimesOut, ReplaceFails, VacuumEnds
  <2>2. QED
    BY <1>3, <2>1, Ended, Zenon DEF DownloadedInv
<1>15. ASSUME NEW i \in Ingests, OpenFails(i)
       PROVE  DownloadedInv' /\ WholeDownload'
  <2>1. UNCHANGED <<dataset, fetched>>
    BY <1>15, Zenon DEF OpenFails
  <2>2. QED
    BY <1>3, <1>15, <2>1, NotOpened, Zenon DEF DownloadedInv
<1>16. ASSUME NEW i \in Ingests, Sweep(i)
       PROVE  DownloadedInv' /\ WholeDownload'
  <2>1. UNCHANGED <<dataset, fetched>> /\ ingests \in Slots
    BY <1>16, Zenon DEF Sweep, TypeOK, Slots
  <2>2. ASSUME NEW x, NEW y, Downloaded(x, fetched), Spared(x, y)
        PROVE  Downloaded(y, fetched)
    BY <2>2, Zenon DEF Downloaded, Spared, Same
  <2>3. ASSUME NEW y, y.pc = "titles"
        PROVE  Downloaded(y, fetched)
    BY <1>8, <2>3, Zenon DEF Downloaded
  <2>4. DownloadedInv'
    BY <1>16, <2>1, <2>2, <2>3, SweptClean, Zenon DEF DownloadedInv
  <2>5. QED
    BY <1>3, <2>1, <2>4, Zenon
<1>17. CASE Restart
  <2>1. UNCHANGED <<dataset, fetched>>
    BY <1>17, Zenon DEF Restart
  <2>2. ASSUME StartIngest([i \in Ingests |-> Idle])
        PROVE  DownloadedInv'
    BY <2>1, <2>2, AllIdle, DownloadedStarted, Zenon
  <2>3. ASSUME ingests' = [i \in Ingests |-> Idle]
        PROVE  DownloadedInv'
    BY <2>3, Zenon DEF DownloadedInv
  <2>4. QED
    BY <1>3, <1>17, <2>1, <2>2, <2>3, Zenon DEF Restart
<1>18. ASSUME NEW dump \in Renewed, Publish(dump)
       PROVE  DownloadedInv' /\ WholeDownload'
  BY <1>2, <1>3, <1>18, Zenon DEF Publish
<1>19. CASE Tick
  <2>1. UNCHANGED <<dataset, fetched>>
    BY <1>19, Zenon DEF Tick
  <2>2. DownloadedInv'
    BY <1>19, <2>1, Ticked, Zenon DEF DownloadedInv, Downloaded, Same
  <2>3. QED
    BY <1>3, <2>1, <2>2, Zenon
<1>20. CASE UNCHANGED vars
  BY <1>2, <1>3, <1>20, Zenon DEF vars
<1>21. QED
  BY <1>5, <1>6, <1>7, <1>9, <1>10, <1>12, <1>13, <1>14, <1>15, <1>16, <1>17, <1>18, <1>19, <1>20,
     Zenon DEF Next

-----------------------------------------------------------------------------
(* Two ingests at once: only one of them can be the refresher's own, and   *)
(* both know they ran beside another.                                      *)

Owned(i) == ingests[i] # Idle /\ ingests[i].own

BesideInv ==
  /\ ~open => \A i \in Ingests : ~Owned(i)
  /\ \A i, j \in Ingests :
       i # j /\ ingests[i] # Idle /\ ingests[j] # Idle => ingests[i].beside

LEMMA BesideStarted ==
  ASSUME NEW before \in Slots, StartIngest(before),
         \A i \in Ingests : before[i] # Idle => ~before[i].own,
         open'
  PROVE  BesideInv'
<1>1. PICK i \in Ingests :
        /\ (\E k \in Ingests : before[k] # Idle /\ ~before[k].own) => ingests'[i].beside
        /\ before[i] = Idle
        /\ \A j \in Ingests : j # i /\ before[j] = Idle => ingests'[j] = Idle
        /\ \A j \in Ingests : j # i /\ before[j] # Idle => Joined(before[j], ingests'[j])
  BY Started, Zenon
<1>2. \A j \in Ingests : j # i /\ ingests'[j] # Idle => before[j] # Idle /\ ingests'[j].beside
  <2>1. ASSUME NEW x, NEW y, ~x.own, Joined(x, y)
        PROVE  y.beside
    BY <2>1, Zenon DEF Joined
  <2>2. QED
    BY <1>1, <2>1, Zenon
<1>3. QED
  BY <1>1, <1>2, Zenon DEF BesideInv

LEMMA BesideStep == TypeOK /\ BesideInv /\ [Next]_vars => BesideInv'
<1> SUFFICES ASSUME TypeOK, BesideInv, [Next]_vars PROVE BesideInv'
  OBVIOUS
<1>1. ASSUME StartIngest(ingests), \A i \in Ingests : ~Owned(i), open'
      PROVE  BesideInv'
  BY <1>1, BesideStarted, Zenon DEF Owned, TypeOK, Slots
<1>2. ASSUME UNCHANGED <<ingests, open>>
      PROVE  BesideInv'
  BY <1>2, Zenon DEF BesideInv, Owned
<1>3. ASSUME UNCHANGED open,
             \A i \in Ingests : ingests'[i] # Idle =>
               ingests[i] # Idle /\ ingests'[i].own = ingests[i].own /\ ingests'[i].beside = ingests[i].beside
      PROVE  BesideInv'
  BY <1>3, Zenon DEF BesideInv, Owned
<1>4. CASE SwitchOn
  BY <1>1, <1>4, Zenon DEF SwitchOn, BesideInv
<1>5. CASE SwitchOff
  BY <1>5, SwitchedOff, Zenon DEF BesideInv, Owned
<1>6. CASE TimerFires
  BY <1>1, <1>2, <1>6, Zenon DEF TimerFires, Running, Busy, Owned
<1>7. ASSUME NEW i \in Ingests, NEW pc, Moved(i, pc), UNCHANGED open
      PROVE  BesideInv'
  BY <1>3, <1>7, Zenon DEF Moved
<1>8. ASSUME NEW i \in Ingests, TitlesAnswered(i) \/ TitlesLand(i) \/ RatingsAnswered(i) \/ RatingsLand(i)
      PROVE  BesideInv'
  BY <1>7, <1>8, TitlesBegun, TitlesLanded, RatingsBegun, RatingsLanded,
     Zenon DEF TitlesAnswered, TitlesLand, RatingsAnswered, RatingsLand
<1>9. ASSUME NEW i \in Ingests, ReplaceBegins(i)
      PROVE  BesideInv'
  BY <1>7, <1>9, Replacing, AllPhases, Zenon DEF ReplaceBegins
<1>10. ASSUME NEW i \in Ingests, Commits(i)
       PROVE  BesideInv'
  BY <1>7, <1>10, Replacing, AllPhases, Zenon DEF Commits
<1>11. ASSUME NEW i \in Ingests,
              DownloadFails(i) \/ DownloadTimesOut(i) \/ ReplaceFails(i) \/ VacuumEnds(i)
       PROVE  BesideInv'
  <2>1. Ends(i) /\ UNCHANGED open
    BY <1>11, Zenon DEF DownloadFails, DownloadTimesOut, ReplaceFails, VacuumEnds
  <2>2. QED
    BY <1>3, <2>1, Ended, Zenon
<1>12. ASSUME NEW i \in Ingests, OpenFails(i)
       PROVE  BesideInv'
  <2>1. UNCHANGED open
    BY <1>12, Zenon DEF OpenFails
  <2>2. QED
    BY <1>3, <1>12, <2>1, NotOpened, Zenon
<1>13. ASSUME NEW i \in Ingests, Sweep(i)
       PROVE  BesideInv'
  <2>1. UNCHANGED open /\ ingests \in Slots
    BY <1>13, Zenon DEF Sweep, TypeOK, Slots
  <2>2. ASSUME ingests'[i] # Idle
        PROVE  /\ ingests[i] # Idle
               /\ ingests'[i].own = ingests[i].own /\ ingests'[i].beside = ingests[i].beside
    BY <1>13, <2>1, <2>2, SweptClean, Zenon DEF Same
  <2>3. ASSUME NEW j \in Ingests, j # i, ingests'[j] # Idle
        PROVE  ingests[j] # Idle /\ Spared(ingests[j], ingests'[j])
    BY <1>13, <2>1, <2>3, SweptClean, Zenon
  <2>4. ASSUME NEW j \in Ingests, ingests'[j] # Idle
        PROVE  /\ ingests[j] # Idle
               /\ ingests'[j].own = ingests[j].own /\ ingests'[j].beside = ingests[j].beside
    BY <2>2, <2>3, <2>4, Zenon DEF Spared, Same
  <2>5. QED
    BY <1>3, <2>1, <2>4, Zenon
<1>14. CASE Restart
  <2>1. ASSUME StartIngest([i \in Ingests |-> Idle]), open'
        PROVE  BesideInv'
    BY <2>1, AllIdle, BesideStarted, Zenon
  <2>2. ASSUME ingests' = [i \in Ingests |-> Idle]
        PROVE  BesideInv'
    BY <2>2, Zenon DEF BesideInv, Owned
  <2>3. QED
    BY <1>14, <2>1, <2>2, Zenon DEF Restart
<1>15. ASSUME NEW dump \in Renewed, Publish(dump)
       PROVE  BesideInv'
  BY <1>2, <1>15, Zenon DEF Publish
<1>16. CASE Tick
  <2>1. open' = open
    BY <1>16, Zenon DEF Tick
  <2>2. QED
    BY <1>3, <1>16, <2>1, Ticked, Zenon DEF Same
<1>17. CASE UNCHANGED vars
  BY <1>2, <1>17, Zenon DEF vars
<1>18. QED
  BY <1>4, <1>5, <1>6, <1>8, <1>9, <1>10, <1>11, <1>12, <1>13, <1>14, <1>15, <1>16, <1>17, Zenon DEF Next

-----------------------------------------------------------------------------
(* The days: nothing is newer than what IMDb has, and an ingest that ran   *)
(* alone downloaded after the copy was last replaced.                      *)

\* Neither dump of d is newer than those of e.
NotNewer(d, e) == d.titles <= e.titles /\ d.ratings <= e.ratings

\* What is in the copy when x is alone, x does not take back.
WithTitles == {"titlesBody", "ratings", "ratingsBody", "staged", "replacing"}
WithRatings == {"ratingsBody", "staged", "replacing"}

Later(x) ==
  /\ x.pc \in WithTitles => dataset.titles <= x.titles
  /\ x.pc \in WithRatings => dataset.ratings <= x.ratings

NewerInv ==
  /\ dataset \in Dumps => NotNewer(dataset, published)
  /\ \A i \in Ingests : ingests[i] # Idle => NotNewer(ingests[i], published)
  /\ \A i \in Ingests :
       ingests[i] # Idle /\ ~ingests[i].beside /\ dataset \in Dumps => Later(ingests[i])

LEMMA NewerStarted ==
  ASSUME TypeOK, NEW before \in Slots, StartIngest(before), UNCHANGED published,
         \A i \in Ingests : before[i] # Idle => NotNewer(before[i], published),
         \A i \in Ingests : before[i] # Idle /\ ~before[i].beside /\ dataset \in Dumps
                               => Later(before[i]),
         dataset' = Opened \/ dataset' = dataset,
         dataset \in Dumps => NotNewer(dataset, published)
  PROVE  NewerInv'
<1>1. PICK i \in Ingests :
        /\ ingests'[i].pc = "opening" /\ ingests'[i].titles = 0 /\ ingests'[i].ratings = 0
        /\ \A j \in Ingests : j # i /\ before[j] = Idle => ingests'[j] = Idle
        /\ \A j \in Ingests : j # i /\ before[j] # Idle => Joined(before[j], ingests'[j])
  BY Started, Zenon
<1>2. dataset' \in Dumps => dataset' = dataset
  BY BoundsAssumption, Zenon DEF Opened
<1>3. dataset' \in Dumps => NotNewer(dataset, published)'
  BY <1>2, Zenon DEF NotNewer
<1>4. NotNewer(ingests'[i], published')
  <2>1. published.titles \in Days /\ published.ratings \in Days
    BY Zenon DEF TypeOK, Dumps
  <2>2. 0 <= published.titles /\ 0 <= published.ratings
    BY <2>1 DEF Days
  <2>3. QED
    BY <1>1, <2>2, Zenon DEF NotNewer
<1>5. dataset' \in Dumps => Later(ingests[i])'
  <2>1. "opening" \notin WithTitles /\ "opening" \notin WithRatings
    BY DEF WithTitles, WithRatings
  <2>2. QED
    BY <1>1, <2>1, Zenon DEF Later
<1>6. ASSUME NEW j \in Ingests, j # i, ingests'[j] # Idle
      PROVE  /\ NotNewer(ingests'[j], published')
             /\ ~ingests'[j].beside /\ dataset' \in Dumps => Later(ingests[j])'
  <2>1. before[j] # Idle /\ Joined(before[j], ingests'[j])
    BY <1>1, <1>6, Zenon
  <2>2. NotNewer(ingests'[j], published')
    BY <2>1, Zenon DEF NotNewer, Joined, Same
  <2>3. ASSUME ~ingests'[j].beside, dataset' \in Dumps
        PROVE  Later(ingests[j])'
    <3>1. ~before[j].beside
      BY <2>1, <2>3, Zenon DEF Joined
    <3>2. dataset \in Dumps /\ dataset' = dataset
      BY <1>2, <2>3, Zenon
    <3>3. Later(before[j])
      BY <2>1, <3>1, <3>2, Zenon
    <3>4. QED
      BY <2>1, <3>2, <3>3, Zenon DEF Later, Joined, Same
  <2>4. QED
    BY <2>2, <2>3, Zenon
<1>7. QED
  BY <1>3, <1>4, <1>5, <1>6, Zenon DEF NewerInv

\* A step that leaves the days of the ingests alone.
LEMMA NewerKept ==
  ASSUME NewerInv, UNCHANGED <<published, dataset>>,
         \A i \in Ingests : ingests'[i] # Idle =>
           /\ ingests[i] # Idle
           /\ ingests'[i].titles = ingests[i].titles /\ ingests'[i].ratings = ingests[i].ratings
           /\ ingests'[i].pc = ingests[i].pc /\ ingests'[i].beside = ingests[i].beside
  PROVE  NewerInv'
BY Zenon DEF NewerInv, NotNewer, Later

LEMMA NewerStep == TypeOK /\ BesideInv /\ NewerInv /\ [Next]_vars => NewerInv'
<1> SUFFICES ASSUME TypeOK, BesideInv, NewerInv, [Next]_vars PROVE NewerInv'
  OBVIOUS
<1>1. ASSUME StartIngest(ingests), UNCHANGED published,
             dataset' = Opened \/ dataset' = dataset
      PROVE  NewerInv'
  BY <1>1, NewerStarted, Zenon DEF NewerInv, TypeOK, Slots
<1>2. ASSUME UNCHANGED <<published, dataset, ingests>>
      PROVE  NewerInv'
  BY <1>2, Zenon DEF NewerInv, NotNewer, Later
<1>3. CASE SwitchOn
  BY <1>1, <1>3, Zenon DEF SwitchOn, outside
<1>4. CASE SwitchOff
  <2>1. UNCHANGED <<published, dataset>>
    BY <1>4, Zenon DEF SwitchOff, outside
  <2>2. QED
    BY <1>4, <2>1, NewerKept, SwitchedOff, Zenon
<1>5. CASE TimerFires
  BY <1>1, <1>2, <1>5, Zenon DEF TimerFires, outside
<1>6. ASSUME NEW i \in Ingests, NEW pc, Moved(i, pc), UNCHANGED <<published, dataset>>,
             NotNewer(ingests'[i], published),
             ~ingests[i].beside /\ dataset \in Dumps => Later(ingests[i])'
      PROVE  NewerInv'
  BY <1>6, Zenon DEF NewerInv, NotNewer, Later, Moved
<1>7. \A d \in Days : d <= d
  BY DEF Days
<1>8. published.titles \in Days /\ published.ratings \in Days
  BY Zenon DEF TypeOK, Dumps
<1>9. /\ "titles" \notin WithTitles /\ "titles" \notin WithRatings
      /\ "titlesBody" \in WithTitles /\ "titlesBody" \notin WithRatings
      /\ "ratings" \in WithTitles /\ "ratings" \notin WithRatings
      /\ "ratingsBody" \in WithTitles
      /\ "staged" \in WithTitles /\ "staged" \in WithRatings
      /\ "vacuum" \notin WithTitles /\ "vacuum" \notin WithRatings
      /\ \A pc \in WithRatings : pc \in WithTitles
  BY DEF WithTitles, WithRatings
<1>10. ASSUME NEW i \in Ingests, TitlesAnswered(i)
       PROVE  NewerInv'
  <2>1. /\ Moved(i, "titlesBody") /\ ingests'[i].titles = published.titles
        /\ ingests'[i].ratings = ingests[i].ratings
        /\ UNCHANGED <<published, dataset>>
    BY <1>10, TitlesBegun, Zenon DEF TitlesAnswered, outside
  <2>2. NotNewer(ingests'[i], published)
    BY <1>7, <1>8, <2>1, Zenon DEF NewerInv, NotNewer, Moved
  <2>3. dataset \in Dumps => Later(ingests[i])'
    BY <1>9, <2>1, Zenon DEF NewerInv, NotNewer, Later, Moved
  <2>4. QED
    BY <1>6, <2>1, <2>2, <2>3, Zenon
<1>11. ASSUME NEW i \in Ingests, RatingsAnswered(i)
       PROVE  NewerInv'
  <2>1. /\ Moved(i, "ratingsBody") /\ ingests[i].pc = "ratings"
        /\ ingests'[i].titles = ingests[i].titles /\ ingests'[i].ratings = published.ratings
        /\ UNCHANGED <<published, dataset>>
    BY <1>11, RatingsBegun, Zenon DEF RatingsAnswered, outside
  <2>2. NotNewer(ingests'[i], published)
    BY <1>7, <1>8, <2>1, Zenon DEF NewerInv, NotNewer, Moved
  <2>3. ~ingests[i].beside /\ dataset \in Dumps => Later(ingests[i])'
    BY <1>9, <2>1, Zenon DEF NewerInv, NotNewer, Later, Moved
  <2>4. QED
    BY <1>6, <2>1, <2>2, <2>3, Zenon
\* An ingest that goes on with the dumps it has.
<1>12. ASSUME NEW i \in Ingests, NEW pc, Moved(i, pc), UNCHANGED <<published, dataset>>,
              ingests'[i].titles = ingests[i].titles, ingests'[i].ratings = ingests[i].ratings,
              pc \in WithTitles => ingests[i].pc \in WithTitles,
              pc \in WithRatings => ingests[i].pc \in WithRatings
       PROVE  NewerInv'
  <2>1. NotNewer(ingests'[i], published)
    BY <1>12, Zenon DEF NewerInv, NotNewer, Moved
  <2>2. ~ingests[i].beside /\ dataset \in Dumps => Later(ingests[i])'
    BY <1>12, Zenon DEF NewerInv, Later, Moved
  <2>3. QED
    BY <1>6, <1>12, <2>1, <2>2, Zenon
<1>13. ASSUME NEW i \in Ingests, TitlesLand(i)
       PROVE  NewerInv'
  <2>1. /\ Moved(i, "ratings") /\ ingests[i].pc = "titlesBody"
        /\ ingests'[i].titles = ingests[i].titles /\ ingests'[i].ratings = ingests[i].ratings
        /\ UNCHANGED <<published, dataset>>
    BY <1>13, TitlesLanded, Zenon DEF TitlesLand, outside
  <2>2. QED
    BY <1>9, <1>12, <2>1, Zenon
<1>14. ASSUME NEW i \in Ingests, RatingsLand(i)
       PROVE  NewerInv'
  <2>1. /\ Moved(i, "staged") /\ ingests[i].pc = "ratingsBody"
        /\ ingests'[i].titles = ingests[i].titles /\ ingests'[i].ratings = ingests[i].ratings
        /\ UNCHANGED <<published, dataset>>
    BY <1>14, RatingsLanded, Zenon DEF RatingsLand, outside
  <2>2. "ratingsBody" \in WithRatings
    BY DEF WithRatings
  <2>3. QED
    BY <1>9, <1>12, <2>1, <2>2, Zenon
<1>15. ASSUME NEW i \in Ingests, ReplaceBegins(i)
       PROVE  NewerInv'
  <2>1. /\ Moved(i, "replacing") /\ ingests[i].pc = "staged"
        /\ ingests'[i].titles = ingests[i].titles /\ ingests'[i].ratings = ingests[i].ratings
        /\ UNCHANGED <<published, dataset>>
    BY <1>15, Replacing, AllPhases, Zenon DEF ReplaceBegins, outside
  <2>2. QED
    BY <1>9, <1>12, <2>1, Zenon
<1>16. ASSUME NEW i \in Ingests, Commits(i)
       PROVE  NewerInv'
  <2>1. /\ Moved(i, "vacuum")
        /\ ingests'[i].titles = ingests[i].titles /\ ingests'[i].ratings = ingests[i].ratings
        /\ published' = published
        /\ dataset' = [titles |-> ingests[i].titles, ratings |-> ingests[i].ratings]
    BY <1>16, Replacing, AllPhases, Zenon DEF Commits, outside
  <2>2. NotNewer(dataset, published)' /\ NotNewer(ingests'[i], published')
    BY <2>1, Zenon DEF NewerInv, NotNewer, Moved
  <2>3. Later(ingests[i])'
    BY <1>9, <2>1, Zenon DEF Later, Moved
  <2>4. ASSUME NEW j \in Ingests, j # i, ingests'[j] # Idle
        PROVE  NotNewer(ingests'[j], published') /\ ingests'[j].beside
    BY <2>1, <2>4, Zenon DEF NewerInv, BesideInv, NotNewer, Moved
  <2>5. QED
    BY <2>2, <2>3, <2>4, Zenon DEF NewerInv
<1>17. ASSUME NEW i \in Ingests,
              DownloadFails(i) \/ DownloadTimesOut(i) \/ ReplaceFails(i) \/ VacuumEnds(i) \/ OpenFails(i)
       PROVE  NewerInv'
  <2>1. UNCHANGED <<published, dataset>>
    BY <1>17, Zenon DEF DownloadFails, DownloadTimesOut, ReplaceFails, VacuumEnds, OpenFails, outside
  <2>2. Ends(i) \/ OpenFails(i)
    BY <1>17, Zenon DEF DownloadFails, DownloadTimesOut, ReplaceFails, VacuumEnds
  <2>3. \A j \in Ingests : ingests'[j] # Idle => ingests'[j] = ingests[j]
    BY <2>2, Ended, NotOpened, Zenon
  <2>4. QED
    BY <2>1, <2>3, NewerKept, Zenon
<1>18. ASSUME NEW i \in Ingests, Sweep(i)
       PROVE  NewerInv'
  <2>1. UNCHANGED <<published, dataset>> /\ ingests \in Slots
    BY <1>18, Zenon DEF Sweep, outside, TypeOK, Slots
  <2>2. ASSUME ingests'[i] # Idle
        PROVE  NotNewer(ingests'[i], published') /\ Later(ingests[i])'
    <3>1. /\ ingests[i] # Idle /\ ingests'[i].pc = "titles"
          /\ ingests'[i].titles = ingests[i].titles /\ ingests'[i].ratings = ingests[i].ratings
      BY <1>18, <2>1, <2>2, SweptClean, Zenon DEF Same
    <3>2. QED
      BY <1>9, <2>1, <3>1, Zenon DEF NewerInv, NotNewer, Later
  <2>3. ASSUME NEW j \in Ingests, j # i, ingests'[j] # Idle
        PROVE  /\ NotNewer(ingests'[j], published')
               /\ ~ingests'[j].beside /\ dataset' \in Dumps => Later(ingests[j])'
    <3>1. /\ ingests[j] # Idle /\ ingests'[j].pc = ingests[j].pc
          /\ ingests'[j].titles = ingests[j].titles /\ ingests'[j].ratings = ingests[j].ratings
          /\ ingests'[j].beside = ingests[j].beside
      <4>1. ingests[j] # Idle /\ Spared(ingests[j], ingests'[j])
        BY <1>18, <2>1, <2>3, SweptClean, Zenon
      <4>2. QED
        BY <4>1, Zenon DEF Spared, Same
    <3>2. QED
      BY <2>1, <3>1, Zenon DEF NewerInv, NotNewer, Later
  <2>4. dataset' \in Dumps => NotNewer(dataset, published)'
    BY <2>1, Zenon DEF NewerInv, NotNewer
  <2>5. ASSUME NEW j \in Ingests, ingests'[j] # Idle
        PROVE  /\ NotNewer(ingests'[j], published')
               /\ ~ingests'[j].beside /\ dataset' \in Dumps => Later(ingests[j])'
    BY <2>2, <2>3, <2>5, Zenon
  <2>6. QED
    BY <2>4, <2>5, Zenon DEF NewerInv
<1>19. CASE Restart
  <2>1. UNCHANGED <<published, dataset>>
    BY <1>19, Zenon DEF Restart
  <2>2. ASSUME StartIngest([i \in Ingests |-> Idle])
        PROVE  NewerInv'
    <3>1. \A i \in Ingests : [j \in Ingests |-> Idle][i] = Idle
      BY Zenon
    <3>2. QED
      BY <2>1, <2>2, <3>1, AllIdle, NewerStarted, Zenon DEF NewerInv
  <2>3. ASSUME ingests' = [i \in Ingests |-> Idle]
        PROVE  NewerInv'
    BY <2>1, <2>3, NewerKept, Zenon
  <2>4. QED
    BY <1>19, <2>2, <2>3, Zenon DEF Restart
<1>20. ASSUME NEW dump \in Renewed, Publish(dump)
       PROVE  NewerInv'
  <2>1. UNCHANGED <<dataset, ingests>>
    BY <1>20, Zenon DEF Publish
  <2>2. published[dump] \in Days
    BY BoundsAssumption, Zenon DEF TypeOK, Dumps
  <2>3. published' = [published EXCEPT ![dump] = published[dump] + 1]
    BY <1>20, Zenon DEF Publish
  <2>4. /\ published'.titles \in {published.titles, published.titles + 1}
        /\ published'.ratings \in {published.ratings, published.ratings + 1}
    BY <2>3, Zenon DEF TypeOK, Dumps
  <2>5. \A d, e \in Days : d <= e => d <= e + 1
    BY DEF Days
  <2>6. ASSUME NEW d, d.titles \in Days, d.ratings \in Days, NotNewer(d, published)
        PROVE  NotNewer(d, published')
    BY <1>8, <2>4, <2>5, <2>6, Zenon DEF NotNewer
  <2>7. \A i \in Ingests : ingests[i] # Idle => ingests[i].titles \in Days /\ ingests[i].ratings \in Days
    BY Fields, Zenon DEF TypeOK
  <2>8. dataset \in Dumps => dataset.titles \in Days /\ dataset.ratings \in Days
    BY Zenon DEF Dumps
  <2>9. \A i \in Ingests : Later(ingests[i]) => Later(ingests[i])'
    BY <2>1, Zenon DEF Later
  <2>10. QED
    BY <2>1, <2>6, <2>7, <2>8, <2>9, Zenon DEF NewerInv
<1>21. CASE Tick
  <2>1. UNCHANGED <<published, dataset>>
    BY <1>21, Zenon DEF Tick, outside
  <2>2. \A i \in Ingests : ingests'[i] # Idle =>
          /\ ingests[i] # Idle
          /\ ingests'[i].titles = ingests[i].titles /\ ingests'[i].ratings = ingests[i].ratings
          /\ ingests'[i].pc = ingests[i].pc /\ ingests'[i].beside = ingests[i].beside
    BY <1>21, Ticked, Zenon DEF Same
  <2>3. QED
    BY <2>1, <2>2, NewerKept, Zenon
<1>22. CASE UNCHANGED vars
  BY <1>2, <1>22, Zenon DEF vars
<1>23. QED
  BY <1>3, <1>4, <1>5, <1>10, <1>11, <1>13, <1>14, <1>15, <1>16, <1>17, <1>18, <1>19, <1>20, <1>21, <1>22,
     Zenon DEF Next

-----------------------------------------------------------------------------
(* What ingests left behind.                                               *)

\* The longest x can have been at work.
Spent(x) == IF x.pc \in {"opening", "titles", "titlesBody"} THEN x.clock ELSE Timeout + x.clock

(* No leftover was older than AbandonedAfter after the last sweep that was *)
(* tried, and the next one comes with the first timer after the ingest of  *)
(* the refresher has ended.  Between the start of that ingest and its      *)
(* sweep no time passes.                                                   *)
LeftInv ==
  open =>
    /\ Opening => due = Interval
    /\ ~Opening =>
         \A a \in leftovers :
           /\ a + due <= AbandonedAfter + Longest + Interval
           /\ \A i \in Ingests : Owned(i) => a <= AbandonedAfter + Spent(ingests[i])

LEMMA OpeningIs == Opening <=> \E i \in Ingests : Owned(i) /\ ingests[i].pc = "opening"
BY Zenon DEF Opening, Busy, Owned

LEMMA LeftStarted ==
  ASSUME NEW before \in Slots, StartIngest(before), due' = Interval
  PROVE  LeftInv'
<1>1. PICK i \in Ingests :
        ingests'[i] \in Ingest /\ ingests'[i].pc = "opening" /\ ingests'[i].own
  BY Started, Zenon
<1>2. Opening'
  BY <1>1, IdleAssumption, Zenon DEF Opening, Busy
<1>3. QED
  BY <1>2, Zenon DEF LeftInv

LEMMA SpentIsNat ==
  ASSUME NEW x \in Ingest
  PROVE  Spent(x) \in Nat
BY Fields, TimesAssumption DEF Spent

\* No time passes, and the refresher's ingest goes on or ends after its sweep.
LEMMA LeftKept ==
  ASSUME TypeOK, LeftInv, UNCHANGED <<open, due>>, ~Opening' => ~Opening,
         \A a \in leftovers' : a \in leftovers \/ a \in 0 .. AbandonedAfter,
         \A i \in Ingests : Owned(i)' =>
           /\ Owned(i)
           /\ ingests'[i].pc = "opening" => ingests[i].pc = "opening"
           /\ Spent(ingests[i]) \in Nat /\ Spent(ingests'[i]) \in Nat
           /\ Spent(ingests[i]) <= Spent(ingests'[i])
  PROVE  LeftInv'
<1>1. Opening' => Opening
  BY OpeningIs, Zenon DEF Opening, Busy, Owned
<1>2. due \in Nat /\ due <= Interval /\ leftovers \subseteq Nat
  BY TimesAssumption DEF TypeOK
<1>3. ASSUME open, ~Opening, NEW a \in leftovers'
      PROVE  /\ a + due <= AbandonedAfter + Longest + Interval
             /\ \A i \in Ingests : Owned(i)' => a <= AbandonedAfter + Spent(ingests'[i])
  <2>1. a \in Nat
    <3>1. a \in leftovers \/ a \in 0 .. AbandonedAfter
      BY <1>3, Zenon
    <3>2. \A b \in 0 .. AbandonedAfter : b \in Nat
      BY TimesAssumption
    <3>3. QED
      BY <1>2, <3>1, <3>2, Zenon
  <2>2. a \in leftovers => a + due <= AbandonedAfter + Longest + Interval
    BY <1>3, Zenon DEF LeftInv
  <2>3. a + due <= AbandonedAfter + Longest + Interval
    BY <1>2, <1>3, <2>1, <2>2, TimesAssumption DEF Longest
  <2>4. ASSUME NEW i \in Ingests, Owned(i)'
        PROVE  a <= AbandonedAfter + Spent(ingests'[i])
    <3>1. a \in leftovers => a <= AbandonedAfter + Spent(ingests[i])
      BY <1>3, <2>4, Zenon DEF LeftInv
    <3>2. /\ Spent(ingests[i]) \in Nat /\ Spent(ingests'[i]) \in Nat
          /\ Spent(ingests[i]) <= Spent(ingests'[i])
      BY <2>4, Zenon
    <3>3. QED
      BY <1>3, <2>1, <3>1, <3>2, TimesAssumption
  <2>5. QED
    BY <2>3, <2>4, Zenon
<1>4. QED
  BY <1>1, <1>3, Zenon DEF LeftInv

\* A sweep was tried.
LEMMA LeftTried ==
  ASSUME TypeOK, LeftInv, UNCHANGED <<open, due>>, Opening' => Opening,
         \A a \in leftovers' : a \in 0 .. AbandonedAfter,
         ingests' \in Slots
  PROVE  LeftInv'
<1>1. due \in Nat /\ due <= Interval
  BY TimesAssumption DEF TypeOK
<1>2. ASSUME NEW a \in leftovers'
      PROVE  /\ a + due <= AbandonedAfter + Longest + Interval
             /\ \A i \in Ingests : Owned(i)' => a <= AbandonedAfter + Spent(ingests'[i])
  <2>1. a \in Nat /\ a <= AbandonedAfter
    BY <1>2, TimesAssumption
  <2>2. ASSUME NEW i \in Ingests, Owned(i)'
        PROVE  a <= AbandonedAfter + Spent(ingests'[i])
    <3>1. ingests'[i] \in Ingest
      BY <2>2, Zenon DEF Owned, Slots
    <3>2. Spent(ingests'[i]) \in Nat
      BY <3>1, SpentIsNat, Zenon
    <3>3. QED
      BY <2>1, <3>2, TimesAssumption
  <2>3. QED
    BY <1>1, <2>1, <2>2, TimesAssumption DEF Longest
<1>3. QED
  BY <1>2, Zenon DEF LeftInv

LEMMA LeftStep == TypeOK /\ StagingInv /\ BesideInv /\ LeftInv /\ [Next]_vars => LeftInv'
<1> SUFFICES ASSUME TypeOK, StagingInv, BesideInv, LeftInv, [Next]_vars PROVE LeftInv'
  OBVIOUS
<1>1. leftovers \subseteq Nat /\ ingests \in Slots
  BY DEF TypeOK, Slots
<1>2. ASSUME StartIngest(ingests), due' = Interval
      PROVE  LeftInv'
  BY <1>1, <1>2, LeftStarted, Zenon
<1>3. \A n \in Nat : n <= n
  OBVIOUS
<1>4. ASSUME NEW i \in Ingests, Owned(i)
      PROVE  ingests[i] \in Ingest /\ Sound(ingests[i]) /\ Spent(ingests[i]) \in Nat
  BY <1>4, SpentIsNat, Zenon DEF Owned, TypeOK, StagingInv
<1>5. ASSUME UNCHANGED <<open, due, leftovers, ingests>>
      PROVE  LeftInv'
  BY <1>5, Zenon DEF LeftInv, Opening, Busy, Owned
\* What a single ingest does after its sweep.
<1>6. ASSUME UNCHANGED <<open, due>>, NEW i \in Ingests, ingests[i].pc # "opening",
             \A a \in leftovers' : a \in leftovers \/ a \in 0 .. AbandonedAfter,
             \A j \in Ingests : j # i => ingests'[j] = ingests[j],
             Owned(i)' => /\ Owned(i) /\ ingests'[i].pc # "opening"
                          /\ Spent(ingests'[i]) \in Nat
                          /\ Spent(ingests[i]) <= Spent(ingests'[i])
      PROVE  LeftInv'
  <2>1. \A j \in Ingests : Owned(j)' =>
          /\ Owned(j)
          /\ ingests'[j].pc = "opening" => ingests[j].pc = "opening"
          /\ Spent(ingests[j]) \in Nat /\ Spent(ingests'[j]) \in Nat
          /\ Spent(ingests[j]) <= Spent(ingests'[j])
    BY <1>3, <1>4, <1>6, Zenon DEF Owned
  <2>2. Opening => Opening'
    BY <1>6, Zenon DEF Opening, Busy
  <2>3. QED
    BY <1>6, <2>1, <2>2, LeftKept, Zenon
<1>7. CASE SwitchOn
  BY <1>2, <1>7, Zenon DEF SwitchOn
<1>8. CASE SwitchOff
  BY <1>8, Zenon DEF SwitchOff, LeftInv
<1>9. CASE TimerFires
  <2>1. ASSUME Running, due' = Interval, UNCHANGED <<open, ingests, leftovers>>
        PROVE  LeftInv'
    <3>1. PICK i \in Ingests : Owned(i)
      BY <2>1, Zenon DEF Running, Busy, Owned
    <3>2. Spent(ingests[i]) \in Nat /\ Spent(ingests[i]) <= Longest
      <4>1. ingests[i] \in Ingest /\ Sound(ingests[i]) /\ Spent(ingests[i]) \in Nat
        BY <1>4, <3>1, Zenon
      <4>2. /\ ingests[i].pc \in {"titles", "titlesBody"} => ingests[i].clock <= Timeout
            /\ ingests[i].pc = "opening" => ingests[i].clock = 0
            /\ ingests[i].clock <= Timeout + Writing
            /\ ingests[i].clock \in Nat
        BY <4>1, SoundSays, Fields DEF Downloads
      <4>3. QED
        BY <4>1, <4>2, TimesAssumption DEF Spent, Longest
    <3>3. ~Opening'
      <4>1. open /\ due = 0 /\ Interval # 0
        BY <1>9, TimesAssumption DEF TimerFires
      <4>2. ~Opening
        BY <4>1, Zenon DEF LeftInv
      <4>3. QED
        BY <2>1, <4>2, Zenon DEF Opening, Busy
    <3>4. ASSUME open, NEW a \in leftovers
          PROVE  /\ a + due' <= AbandonedAfter + Longest + Interval
                 /\ \A j \in Ingests : Owned(j) => a <= AbandonedAfter + Spent(ingests[j])
      <4>1. \A j \in Ingests : Owned(j) => a <= AbandonedAfter + Spent(ingests[j])
        BY <2>1, <3>3, <3>4, Zenon DEF LeftInv, Opening, Busy
      <4>2. a <= AbandonedAfter + Spent(ingests[i])
        BY <3>1, <4>1, Zenon
      <4>3. a \in Nat
        BY <1>1, <3>4, Zenon
      <4>4. a + due' <= AbandonedAfter + Longest + Interval
        BY <2>1, <3>2, <4>2, <4>3, TimesAssumption DEF Longest
      <4>5. QED
        BY <4>1, <4>4, Zenon
    <3>5. QED
      BY <2>1, <3>3, <3>4, Zenon DEF LeftInv, Owned
  <2>2. QED
    BY <1>2, <1>9, <2>1, Zenon DEF TimerFires
<1>10. ASSUME NEW i \in Ingests, OpenFails(i) \/ Sweep(i)
       PROVE  LeftInv'
  <2>1. UNCHANGED <<open, due>>
    BY <1>10, Zenon DEF OpenFails, Sweep
  <2>2. /\ ingests' \in Slots
        /\ \A j \in Ingests : j # i /\ ingests'[j] # Idle =>
             /\ ingests[j] # Idle
             /\ ingests'[j].own = ingests[j].own /\ ingests'[j].pc = ingests[j].pc
        /\ ingests'[i] = Idle \/ ingests'[i].pc = "titles"
    <3>1. CASE OpenFails(i)
      BY <3>1, NotOpened, Zenon
    <3>2. CASE Sweep(i)
      <4>1. /\ ingests' \in Slots
            /\ ingests'[i] = Idle \/ ingests'[i].pc = "titles"
            /\ \A j \in Ingests : j # i /\ ingests'[j] # Idle =>
                 ingests[j] # Idle /\ Spared(ingests[j], ingests'[j])
        BY <1>1, <3>2, SweptClean, Zenon
      <4>2. QED
        BY <4>1, Zenon DEF Spared, Same
    <3>3. QED
      BY <1>10, <3>1, <3>2, Zenon
  <2>3. "titles" # "opening"
    OBVIOUS
  <2>4. Opening' => Opening
    BY <2>2, <2>3, Zenon DEF Opening, Busy
  <2>5. ASSUME NEW a \in leftovers'
        PROVE  a \in 0 .. AbandonedAfter
    <3>1. (a \in leftovers /\ ~Abandoned(a)) \/ a = 0 \/ a = AbandonedAfter
      BY <1>10, <2>5, NotOpened, Sweepable, Zenon
    <3>2. a \in Nat /\ a >= 0 /\ (~Abandoned(a) => a <= AbandonedAfter)
      <4>1. 0 \in Nat /\ AbandonedAfter \in Nat
        BY TimesAssumption
      <4>2. a \in Nat
        BY <1>1, <3>1, <4>1, Zenon
      <4>3. QED
        BY <4>2, TimesAssumption DEF Abandoned
    <3>3. a <= AbandonedAfter
      BY <3>1, <3>2, TimesAssumption
    <3>4. QED
      BY <3>2, <3>3, TimesAssumption
  <2>6. QED
    BY <2>1, <2>2, <2>4, <2>5, LeftTried, Zenon
<1>11. /\ "titlesBody" # "opening" /\ "ratings" # "opening" /\ "ratingsBody" # "opening"
       /\ "staged" # "opening" /\ "replacing" # "opening" /\ "vacuum" # "opening"
       /\ "titles" # "opening"
  OBVIOUS
\* It goes on with the clock of the same download, or what follows it.
<1>12. ASSUME NEW i \in Ingests, NEW pc, Moved(i, pc), UNCHANGED <<open, due, leftovers>>,
              pc # "opening", ingests[i].pc # "opening", ingests'[i].clock = ingests[i].clock,
              pc \in {"opening", "titles", "titlesBody"}
                <=> ingests[i].pc \in {"opening", "titles", "titlesBody"}
       PROVE  LeftInv'
  <2>1. Spent(ingests'[i]) = Spent(ingests[i])
    BY <1>12, Zenon DEF Spent, Moved
  <2>2. Owned(i)' => Owned(i)
    BY <1>12, Zenon DEF Owned, Moved
  <2>3. Owned(i)' => Spent(ingests'[i]) \in Nat /\ Spent(ingests[i]) <= Spent(ingests'[i])
    BY <1>3, <1>4, <2>1, <2>2, Zenon
  <2>4. QED
    BY <1>6, <1>12, <2>2, <2>3, Zenon DEF Moved
<1>13. /\ "titles" \in {"opening", "titles", "titlesBody"}
       /\ "titlesBody" \in {"opening", "titles", "titlesBody"}
       /\ \A pc \in {"ratings", "ratingsBody", "staged", "replacing", "vacuum"} :
            pc \notin {"opening", "titles", "titlesBody"} /\ pc # "opening"
  OBVIOUS
<1>14. ASSUME NEW i \in Ingests, TitlesAnswered(i)
       PROVE  LeftInv'
  <2>1. ingests[i].pc = "titles" /\ UNCHANGED <<open, due, leftovers>>
    BY <1>14, Zenon DEF TitlesAnswered
  <2>2. QED
    BY <1>11, <1>12, <1>13, <1>14, <2>1, TitlesBegun, Zenon
<1>15. ASSUME NEW i \in Ingests, TitlesLand(i)
       PROVE  LeftInv'
  <2>1. /\ Moved(i, "ratings") /\ ingests'[i].clock = 0 /\ ingests[i].pc = "titlesBody"
        /\ UNCHANGED <<open, due, leftovers>>
    BY <1>15, TitlesLanded, Zenon DEF TitlesLand
  <2>2. Spent(ingests'[i]) = Timeout /\ Spent(ingests[i]) = ingests[i].clock
    <3>1. Timeout + 0 = Timeout /\ "ratings" \notin {"opening", "titles", "titlesBody"}
      BY TimesAssumption
    <3>2. QED
      BY <1>13, <2>1, <3>1, Zenon DEF Spent, Moved
  <2>3. ingests[i].clock <= Timeout
    <3>1. ingests[i] \in Ingest /\ Sound(ingests[i])
      BY <2>1, Zenon DEF StagingInv, Moved
    <3>2. QED
      BY <2>1, <3>1, SoundSays DEF Downloads
  <2>4. Owned(i)' => Owned(i)
    BY <2>1, Zenon DEF Owned, Moved
  <2>5. Owned(i)' => Spent(ingests'[i]) \in Nat /\ Spent(ingests[i]) <= Spent(ingests'[i])
    BY <2>2, <2>3, TimesAssumption
  <2>6. QED
    BY <1>6, <1>11, <2>1, <2>4, <2>5, Zenon DEF Moved
<1>16. ASSUME NEW i \in Ingests, RatingsAnswered(i)
       PROVE  LeftInv'
  <2>1. /\ ingests[i].pc = "ratings" /\ UNCHANGED <<open, due, leftovers>>
        /\ Moved(i, "ratingsBody") /\ ingests'[i].clock = ingests[i].clock
    BY <1>16, RatingsBegun, Zenon DEF RatingsAnswered
  <2>2. QED
    BY <1>12, <1>13, <2>1, Zenon
<1>17. ASSUME NEW i \in Ingests, RatingsLand(i)
       PROVE  LeftInv'
  <2>1. /\ ingests[i].pc = "ratingsBody" /\ UNCHANGED <<open, due, leftovers>>
        /\ Moved(i, "staged") /\ ingests'[i].clock = ingests[i].clock
    BY <1>17, RatingsLanded, Zenon DEF RatingsLand
  <2>2. QED
    BY <1>12, <1>13, <2>1, Zenon
<1>18. ASSUME NEW i \in Ingests, ReplaceBegins(i)
       PROVE  LeftInv'
  <2>1. /\ ingests[i].pc = "staged" /\ UNCHANGED <<open, due, leftovers>>
        /\ Moved(i, "replacing") /\ ingests'[i].clock = ingests[i].clock
    BY <1>18, Replacing, AllPhases, Zenon DEF ReplaceBegins
  <2>2. QED
    BY <1>12, <1>13, <2>1, Zenon
<1>19. ASSUME NEW i \in Ingests, Commits(i)
       PROVE  LeftInv'
  <2>1. /\ ingests[i].pc = "replacing" /\ UNCHANGED <<open, due, leftovers>>
        /\ Moved(i, "vacuum") /\ ingests'[i].clock = ingests[i].clock
    BY <1>19, Replacing, AllPhases, Zenon DEF Commits
  <2>2. QED
    BY <1>12, <1>13, <2>1, Zenon
<1>20. ASSUME NEW i \in Ingests,
              DownloadFails(i) \/ DownloadTimesOut(i) \/ ReplaceFails(i) \/ VacuumEnds(i)
       PROVE  LeftInv'
  <2>1. Ends(i) /\ UNCHANGED <<open, due>> /\ ingests[i] # Idle
    BY <1>20, Zenon DEF DownloadFails, DownloadTimesOut, Downloading, ReplaceFails, VacuumEnds
  <2>2. ingests[i].pc \in Downloads \cup {"staged", "replacing", "vacuum"}
    BY <1>20, Zenon DEF DownloadFails, DownloadTimesOut, Downloading, ReplaceFails, VacuumEnds
  <2>3. ingests[i].pc # "opening"
    BY <2>2 DEF Downloads
  <2>4. ingests[i].age \in Nat /\ ~Abandoned(ingests[i].age)
    <3>1. ingests[i].age \in 0 .. Longest /\ ~Abandoned(ingests[i].age)
      BY <2>1, StagingParts, Young, Zenon
    <3>2. QED
      BY <3>1, TimesAssumption DEF Longest
  <2>5. ASSUME NEW a \in leftovers'
        PROVE  a \in leftovers \/ a \in 0 .. AbandonedAfter
    <3>1. a \in leftovers \/ a = 0 \/ a = ingests[i].age
      BY <2>1, <2>5, Ended, Zenon
    <3>2. QED
      BY <2>4, <3>1, TimesAssumption DEF Abandoned
  <2>6. ~Owned(i)' /\ \A j \in Ingests : j # i => ingests'[j] = ingests[j]
    BY <2>1, Ended, Zenon DEF Owned
  <2>7. QED
    BY <1>6, <2>1, <2>3, <2>5, <2>6, Zenon
<1>21. CASE Restart
  <2>1. ASSUME StartIngest([i \in Ingests |-> Idle]), due' = Interval
        PROVE  LeftInv'
    BY <2>1, AllIdle, LeftStarted, Zenon
  <2>2. ASSUME ~open, open' = open
        PROVE  LeftInv'
    BY <2>2, Zenon DEF LeftInv
  <2>3. QED
    BY <1>21, <2>1, <2>2, Zenon DEF Restart
<1>22. ASSUME NEW dump \in Renewed, Publish(dump)
       PROVE  LeftInv'
  BY <1>5, <1>22, Zenon DEF Publish
<1>23. CASE Tick
  <2>1. /\ open' = open
        /\ open => due > 0 /\ due' = due - 1
        /\ \A a \in leftovers' : \E b \in leftovers : a = b \/ a = b + 1
    <3>1. /\ open' = open /\ (open => due > 0)
          /\ due' = IF due = 0 THEN 0 ELSE due - 1
          /\ leftovers' = {IF a > Reclaimed THEN a ELSE a + 1 : a \in leftovers}
      BY <1>23, Zenon DEF Tick
    <3>2. due \in Nat
      BY TimesAssumption DEF TypeOK
    <3>3. open => due' = due - 1
      BY <3>1, <3>2
    <3>4. \A a \in leftovers' : \E b \in leftovers : a = b \/ a = b + 1
      BY <3>1, Zenon
    <3>5. QED
      BY <3>1, <3>3, <3>4, Zenon
  <2>2. ASSUME NEW i \in Ingests, Owned(i)
        PROVE  ingests[i].pc # "opening"
    <3>1. ingests[i].clock < Limit(ingests[i]) /\ ingests[i].clock \in Nat
      BY <1>4, <1>23, <2>2, Fields, Zenon DEF Tick, Busy, Owned
    <3>2. ingests[i].pc = "opening" => Limit(ingests[i]) = 0
      BY DEF Limit
    <3>3. QED
      BY <3>1, <3>2
  <2>3. ASSUME NEW i \in Ingests, Owned(i)'
        PROVE  /\ Owned(i) /\ ingests'[i].pc # "opening"
               /\ Spent(ingests[i]) \in Nat
               /\ Spent(ingests'[i]) = Spent(ingests[i]) + 1
    <3>1. /\ Owned(i)
          /\ ingests'[i].clock = ingests[i].clock + 1 /\ ingests'[i].pc = ingests[i].pc
      BY <1>23, <2>3, Ticked, Zenon DEF Owned, Same
    <3>2. ingests[i].clock \in Nat /\ Spent(ingests[i]) \in Nat /\ ingests'[i].pc # "opening"
      BY <1>4, <2>2, <3>1, Fields, Zenon
    <3>3. Spent(ingests'[i]) = Spent(ingests[i]) + 1
      BY <3>1, <3>2, TimesAssumption DEF Spent
    <3>4. QED
      BY <3>1, <3>2, <3>3, Zenon
  <2>4. ~Opening /\ ~Opening'
    BY <2>2, <2>3, Zenon DEF Opening, Busy, Owned
  <2>5. ASSUME open, NEW a \in leftovers'
        PROVE  /\ a + due' <= AbandonedAfter + Longest + Interval
               /\ \A i \in Ingests : Owned(i)' => a <= AbandonedAfter + Spent(ingests'[i])
    <3>1. PICK b \in leftovers : a = b \/ a = b + 1
      BY <2>1, <2>5, Zenon
    <3>2. b \in Nat /\ due \in Nat
      BY <1>1, TimesAssumption DEF TypeOK
    <3>3. /\ b + due <= AbandonedAfter + Longest + Interval
          /\ \A i \in Ingests : Owned(i) => b <= AbandonedAfter + Spent(ingests[i])
      BY <2>4, <2>5, Zenon DEF LeftInv
    <3>4. a + due' <= AbandonedAfter + Longest + Interval
      BY <2>1, <2>5, <3>1, <3>2, <3>3, TimesAssumption DEF Longest
    <3>5. ASSUME NEW i \in Ingests, Owned(i)'
          PROVE  a <= AbandonedAfter + Spent(ingests'[i])
      <4>1. b <= AbandonedAfter + Spent(ingests[i])
        BY <2>3, <3>3, <3>5, Zenon
      <4>2. Spent(ingests[i]) \in Nat /\ Spent(ingests'[i]) = Spent(ingests[i]) + 1
        BY <2>3, <3>5, Zenon
      <4>3. QED
        BY <3>1, <3>2, <4>1, <4>2, TimesAssumption
    <3>6. QED
      BY <3>4, <3>5, Zenon
  <2>6. QED
    BY <2>1, <2>4, <2>5, Zenon DEF LeftInv
<1>24. CASE UNCHANGED vars
  BY <1>5, <1>24, Zenon DEF vars
<1>25. QED
  BY <1>7, <1>8, <1>9, <1>10, <1>14, <1>15, <1>16, <1>17, <1>18, <1>19, <1>20, <1>21, <1>22, <1>23, <1>24,
     Zenon DEF Next

-----------------------------------------------------------------------------
(* One ingest at a time, as long as none is left at work by a switch-off.  *)

AloneInv ==
  /\ ~open => \A i \in Ingests : ingests[i] = Idle
  /\ \A i \in Ingests : ingests[i] # Idle => Owned(i)
  /\ \A i, j \in Ingests : ingests[i] # Idle /\ ingests[j] # Idle => i = j

\* The first ingest of all.
LEMMA AloneStarted ==
  ASSUME NEW before \in Slots, StartIngest(before), open',
         \A i \in Ingests : before[i] = Idle
  PROVE  AloneInv'
BY Started, Zenon DEF AloneInv, Owned

\* Nothing starts, and no ingest changes its owner.
LEMMA AloneKept ==
  ASSUME AloneInv, UNCHANGED open,
         \A i \in Ingests : ingests'[i] # Idle
                              => ingests[i] # Idle /\ ingests'[i].own = ingests[i].own
  PROVE  AloneInv'
BY Zenon DEF AloneInv, Owned

NoneIsLeftAtWork == SwitchOff => Busy = {}

LEMMA AloneStep ==
  TypeOK /\ AloneInv /\ [Next]_vars /\ [NoneIsLeftAtWork]_vars => AloneInv'
<1> SUFFICES ASSUME TypeOK, AloneInv, [Next]_vars, [NoneIsLeftAtWork]_vars PROVE AloneInv'
  OBVIOUS
<1>1. ingests \in Slots
  BY DEF TypeOK, Slots
<1>2. ASSUME UNCHANGED <<ingests, open>>
      PROVE  AloneInv'
  BY <1>2, Zenon DEF AloneInv, Owned
<1>3. CASE SwitchOn
  BY <1>1, <1>3, AloneStarted, Zenon DEF SwitchOn, AloneInv
<1>4. CASE SwitchOff
  <2>1. ASSUME Busy = {}
        PROVE  \A i \in Ingests : ingests'[i] = Idle
    BY <1>4, <2>1, SwitchedOff, Zenon DEF Busy
  <2>2. QED
    BY <1>2, <1>4, <2>1, Zenon DEF NoneIsLeftAtWork, vars, AloneInv
<1>5. CASE TimerFires
  <2>1. ASSUME ~Running
        PROVE  \A i \in Ingests : ingests[i] = Idle
    BY <2>1, Zenon DEF Running, Busy, AloneInv, Owned
  <2>2. QED
    BY <1>1, <1>2, <1>5, <2>1, AloneStarted, Zenon DEF TimerFires
<1>6. ASSUME NEW i \in Ingests, NEW pc, Moved(i, pc), UNCHANGED open
      PROVE  AloneInv'
  BY <1>6, AloneKept, Zenon DEF Moved
<1>7. ASSUME NEW i \in Ingests, TitlesAnswered(i) \/ TitlesLand(i) \/ RatingsAnswered(i) \/ RatingsLand(i)
      PROVE  AloneInv'
  BY <1>6, <1>7, TitlesBegun, TitlesLanded, RatingsBegun, RatingsLanded,
     Zenon DEF TitlesAnswered, TitlesLand, RatingsAnswered, RatingsLand
<1>8. ASSUME NEW i \in Ingests, OpenFails(i) \/ Sweep(i)
      PROVE  AloneInv'
  <2>1. UNCHANGED open
    BY <1>8, Zenon DEF OpenFails, Sweep
  <2>2. \A j \in Ingests : ingests'[j] # Idle
                              => ingests[j] # Idle /\ ingests'[j].own = ingests[j].own
    BY <1>1, <1>8, NotOpened, SweptClean, Zenon DEF Spared, Same
  <2>3. QED
    BY <2>1, <2>2, AloneKept, Zenon
<1>9. ASSUME NEW i \in Ingests, ReplaceBegins(i)
      PROVE  AloneInv'
  BY <1>6, <1>9, Replacing, AllPhases, Zenon DEF ReplaceBegins
<1>10. ASSUME NEW i \in Ingests, Commits(i)
       PROVE  AloneInv'
  BY <1>6, <1>10, Replacing, AllPhases, Zenon DEF Commits
<1>11. ASSUME NEW i \in Ingests,
              DownloadFails(i) \/ DownloadTimesOut(i) \/ ReplaceFails(i) \/ VacuumEnds(i)
       PROVE  AloneInv'
  <2>1. Ends(i) /\ UNCHANGED open
    BY <1>11, Zenon DEF DownloadFails, DownloadTimesOut, ReplaceFails, VacuumEnds
  <2>2. QED
    BY <2>1, Ended, AloneKept, Zenon
<1>12. CASE Restart
  <2>1. \A i \in Ingests : [j \in Ingests |-> Idle][i] = Idle
    BY Zenon
  <2>2. ASSUME StartIngest([i \in Ingests |-> Idle]), open'
        PROVE  AloneInv'
    BY <2>1, <2>2, AllIdle, AloneStarted, Zenon
  <2>3. ASSUME ingests' = [i \in Ingests |-> Idle]
        PROVE  AloneInv'
    BY <2>3, Zenon DEF AloneInv
  <2>4. QED
    BY <1>12, <2>2, <2>3, Zenon DEF Restart
<1>13. ASSUME NEW dump \in Renewed, Publish(dump)
       PROVE  AloneInv'
  BY <1>2, <1>13, Zenon DEF Publish
<1>14. CASE Tick
  <2>1. open' = open
    BY <1>14, Zenon DEF Tick
  <2>2. QED
    BY <1>14, <2>1, Ticked, AloneKept, Zenon DEF Same
<1>15. CASE UNCHANGED vars
  BY <1>2, <1>15, Zenon DEF vars
<1>16. QED
  BY <1>3, <1>4, <1>5, <1>7, <1>8, <1>9, <1>10, <1>11, <1>12, <1>13, <1>14, <1>15, Zenon DEF Next

LEMMA AloneIsOne == AloneInv => OneIngestAtATime
<1> SUFFICES ASSUME AloneInv PROVE OneIngestAtATime
  OBVIOUS
<1>1. CASE Busy = {}
  <2>1. Cardinality({}) = 0
    BY FS_EmptySet
  <2>2. QED
    BY <1>1, <2>1 DEF OneIngestAtATime
<1>2. CASE Busy # {}
  <2>1. PICK i : i \in Busy
    BY <1>2
  <2>2. Busy = {i}
    BY <2>1, Zenon DEF Busy, AloneInv
  <2>3. Cardinality({i}) = 1
    BY FS_Singleton
  <2>4. QED
    BY <2>2, <2>3 DEF OneIngestAtATime
<1>3. QED
  BY <1>1, <1>2

-----------------------------------------------------------------------------
(* The inductive invariant, and the theorems.                              *)

IInv ==
  /\ TypeOK
  /\ StagingInv
  /\ DownloadedInv
  /\ WholeDownload
  /\ BesideInv
  /\ NewerInv
  /\ LeftInv

LEMMA IInvInit == Init => IInv
<1> SUFFICES ASSUME Init PROVE IInv
  OBVIOUS
<1>1. \A i \in Ingests : ingests[i] = Idle
  BY Zenon DEF Init
<1>2. dataset \notin Dumps /\ dataset \in {Superseded, Empty}
  BY BoundsAssumption, Zenon DEF Init
<1>3. StagingInv /\ DownloadedInv /\ BesideInv
  BY <1>1, Zenon DEF StagingInv, DownloadedInv, BesideInv, Owned
<1>4. WholeDownload /\ NewerInv
  BY <1>1, <1>2, Zenon DEF WholeDownload, NewerInv
<1>5. LeftInv
  BY Zenon DEF Init, LeftInv
<1>6. QED
  BY <1>3, <1>4, <1>5, TypeInit, Zenon DEF IInv

LEMMA IInvStep == IInv /\ [Next]_vars => IInv'
<1> SUFFICES ASSUME IInv, [Next]_vars PROVE IInv'
  OBVIOUS
<1>1. AgeInv
  BY StagingParts, Zenon DEF IInv
<1>2. TypeOK'
  BY <1>1, TypeStep, Zenon DEF IInv
<1>3. StagingInv' /\ DownloadedInv' /\ WholeDownload'
  BY StagingStep, DownloadedStep, Zenon DEF IInv
<1>4. BesideInv' /\ NewerInv'
  BY BesideStep, NewerStep, Zenon DEF IInv
<1>5. LeftInv'
  BY LeftStep, Zenon DEF IInv
<1>6. QED
  BY <1>2, <1>3, <1>4, <1>5, Zenon DEF IInv

LEMMA Invariant == Spec => []IInv
BY IInvInit, IInvStep, PTL DEF Spec

(* Every variable keeps its type.                                          *)
THEOREM TypeCorrect == Spec => []TypeOK
<1>1. IInv => TypeOK
  BY Zenon DEF IInv
<1>2. QED
  BY <1>1, Invariant, PTL

(* The copy is at every moment both dumps of one download, or holds        *)
(* nothing: no failure between the dumps, no overlap of two ingests and no *)
(* end of the process half way of a replace mixes two of them.             *)
THEOREM CopiesAreWhole == Spec => []WholeDownload
<1>1. IInv => WholeDownload
  BY Zenon DEF IInv
<1>2. QED
  BY <1>1, Invariant, PTL

(* The sweep at the start of an ingest never takes the directory of one    *)
(* that is still at work, whoever started that one: it is younger than what *)
(* the sweep removes as long as ABANDONED_AFTER_MS exceeds a download and a *)
(* replace together.                                                       *)
THEOREM SweepsSpareTheWorking == Spec => []StagingSafe
<1>1. IInv => StagingSafe
  BY StagingParts, Zenon DEF IInv
<1>2. QED
  BY <1>1, Invariant, PTL

(* While the dataset is on, no leftover of an ingest goes without a sweep  *)
(* for longer than Reclaimed, though a sweep may fail, and a timer that    *)
(* finds its ingest at work starts none.                                   *)
THEOREM LeftoversAreSwept == Spec => []LeftoversSwept
<1>1. ASSUME IInv
      PROVE  LeftoversSwept
  <2>1. ASSUME open, ~Opening, NEW a \in leftovers
        PROVE  a <= Reclaimed
    <3>1. a + due <= AbandonedAfter + Longest + Interval
      BY <1>1, <2>1, Zenon DEF IInv, LeftInv
    <3>2. a \in Nat /\ due \in Nat
      BY <1>1, <2>1 DEF IInv, TypeOK
    <3>3. QED
      BY <3>1, <3>2, TimesAssumption DEF Reclaimed, Longest
  <2>2. QED
    BY <2>1, Zenon DEF LeftoversSwept
<1>2. QED
  BY <1>1, Invariant, PTL

(* A refresh that ran beside no other one replaces the copy by dumps that  *)
(* are at least as new.                                                    *)
THEOREM RefreshesGoForward == Spec => NeverBack
<1> DEFINE Forward == \A i \in Ingests :
             ingests[i] # Idle /\ ~ingests[i].beside /\ dataset \in Dumps /\ Commits(i)
             => dataset'.titles >= dataset.titles /\ dataset'.ratings >= dataset.ratings
<1>1. ASSUME IInv
      PROVE  Forward
  <2>1. SUFFICES ASSUME NEW i \in Ingests,
                        ingests[i] # Idle, ~ingests[i].beside, dataset \in Dumps, Commits(i)
                 PROVE  dataset'.titles >= dataset.titles /\ dataset'.ratings >= dataset.ratings
    OBVIOUS
  <2>2. ingests[i].pc = "replacing" /\ Later(ingests[i])
    BY <1>1, <2>1, Zenon DEF IInv, NewerInv, Commits
  <2>3. dataset.titles <= ingests[i].titles /\ dataset.ratings <= ingests[i].ratings
    BY <2>2 DEF Later, WithTitles, WithRatings
  <2>4. dataset'.titles = ingests[i].titles /\ dataset'.ratings = ingests[i].ratings
    BY <2>1, Zenon DEF Commits
  <2>5. ingests[i].titles \in Days /\ ingests[i].ratings \in Days
    BY <1>1, <2>1, Fields, Zenon DEF IInv, TypeOK
  <2>6. dataset.titles \in Days /\ dataset.ratings \in Days
    BY <2>1, Zenon DEF Dumps
  <2>7. QED
    BY <2>3, <2>4, <2>5, <2>6 DEF Days
<1>2. IInv /\ [Next]_vars => [Forward]_vars
  BY <1>1, Zenon
<1>3. QED
  BY <1>2, Invariant, PTL DEF NeverBack, Spec

(* Never two ingests at once, as long as the dataset is switched off only  *)
(* while none runs: `running` of the one refresher in force keeps its timer *)
(* out, and a restart ends them all.  The run that violates the property   *)
(* leaves an ingest at work.                                               *)
THEOREM IngestsTakeTurns == Spec /\ NoIngestStraddles => []OneIngestAtATime
<1>1. NoIngestStraddles <=> [][NoneIsLeftAtWork]_vars
  BY DEF NoIngestStraddles, NoneIsLeftAtWork
<1>2. Init => AloneInv
  BY Zenon DEF Init, AloneInv
<1>3. IInv /\ AloneInv /\ [Next]_vars /\ [NoneIsLeftAtWork]_vars => AloneInv'
  BY AloneStep, Zenon DEF IInv
<1>4. Spec /\ [][NoneIsLeftAtWork]_vars => []AloneInv
  BY <1>2, <1>3, Invariant, PTL DEF Spec
<1>5. QED
  BY <1>1, <1>4, AloneIsOne, PTL

=============================================================================
