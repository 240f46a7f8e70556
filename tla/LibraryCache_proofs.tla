-------------------------- MODULE LibraryCache_proofs --------------------------
(***************************************************************************)
(* LibraryCache for any number of tasks, writers, users and sources, any   *)
(* windows and reads of any length.                                        *)
(*                                                                         *)
(* OwnSound and JointSound say what a cache may hold, measured by the      *)
(* writes reported to one loader.  Within IInv that is the loader's own;   *)
(* AcrossInv measures by an earlier one's, and holds while no write        *)
(* straddles a reload.                                                     *)
(***************************************************************************)
EXTENDS LibraryCache, TLAPS

-----------------------------------------------------------------------------
(* Records, and the names of their changes.                                *)

Outcomes == Reading \cup {Degraded}

\* What a build becomes when source s answers.
Told(x, s, outcome) == [x EXCEPT !.got[s] = outcome]

\* What a tick makes of a build and of a read.
Riper(x) == [x EXCEPT !.got = OlderSnapshot(@), !.age = @ + 1]
Longer(x) == [x EXCEPT !.age = @ + 1]

LEMMA ReadingFields ==
  ASSUME NEW p \in Reading
  PROVE  p.v \in Nat /\ p.age \in Nat /\ p \notin Tasks /\ p # Degraded
BY NamesAssumption DEF Reading

LEMMA OlderType ==
  ASSUME NEW p \in Promise
  PROVE  /\ Older(p) \in Promise
         /\ p \in Tasks \cup {Degraded} => Older(p) = p
         /\ p \in Reading => /\ Older(p) \in Reading
                             /\ Older(p).v = p.v /\ Older(p).age = p.age + 1
<1>1. CASE p \in Tasks \cup {Degraded}
  BY <1>1, NamesAssumption DEF Older
<1>2. CASE p \in Reading
  <2>1. p \notin Tasks \cup {Degraded}
    BY <1>2, NamesAssumption
  <2>2. Older(p) = [p EXCEPT !.age = @ + 1]
    BY <2>1 DEF Older
  <2>3. QED
    BY <1>2, <2>1, <2>2 DEF Reading, Promise
<1>3. QED
  BY <1>1, <1>2 DEF Promise

LEMMA OlderSnapshotType ==
  ASSUME NEW got \in [Sources -> Promise]
  PROVE  /\ OlderSnapshot(got) \in [Sources -> Promise]
         /\ \A s \in Sources : OlderSnapshot(got)[s] = Older(got[s])
         /\ got \in Snapshot => OlderSnapshot(got) \in Snapshot
<1>1. got \notin Tasks
  BY NamesAssumption
<1>2. OlderSnapshot(got) = [s \in Sources |-> Older(got[s])]
  BY <1>1 DEF OlderSnapshot
<1>3. \A s \in Sources : got[s] \in Promise /\ Older(got[s]) \in Promise
  BY OlderType
<1>4. ASSUME got \in Snapshot, NEW s \in Sources PROVE Older(got[s]) \in Reading \cup {Degraded}
  <2>1. got[s] \in Reading \cup {Degraded}
    BY <1>4 DEF Snapshot
  <2>2. QED
    BY <2>1, <1>3, OlderType
<1>5. QED
  BY <1>2, <1>3, <1>4 DEF Snapshot

LEMMA BuildFields ==
  ASSUME NEW x \in Build
  PROVE  /\ x.gen \in Gens /\ x.key \in Keys /\ x.epoch \in Nat /\ x.age \in Nat
         /\ x.got \in [Sources -> Promise] /\ x # Idle
BY NamesAssumption DEF Build

LEMMA ToldFields ==
  ASSUME NEW x \in Build, NEW s \in Sources, NEW outcome \in Promise
  PROVE  /\ Told(x, s, outcome) \in Build
         /\ Told(x, s, outcome).gen = x.gen /\ Told(x, s, outcome).key = x.key
         /\ Told(x, s, outcome).epoch = x.epoch /\ Told(x, s, outcome).age = x.age
         /\ Told(x, s, outcome).got[s] = outcome
         /\ \A r \in Sources : r # s => Told(x, s, outcome).got[r] = x.got[r]
BY DEF Told, Build

LEMMA RiperFields ==
  ASSUME NEW x \in Build
  PROVE  /\ Riper(x) \in Build
         /\ Riper(x).gen = x.gen /\ Riper(x).key = x.key /\ Riper(x).epoch = x.epoch
         /\ Riper(x).age = x.age + 1
         /\ \A s \in Sources : Riper(x).got[s] = Older(x.got[s])
<1>1. x.got \in [Sources -> Promise] /\ x.age + 1 \in Nat
  BY BuildFields
<1>2. /\ OlderSnapshot(x.got) \in [Sources -> Promise]
      /\ \A s \in Sources : OlderSnapshot(x.got)[s] = Older(x.got[s])
  BY <1>1, OlderSnapshotType
<1>3. Riper(x) = [x EXCEPT !.got = OlderSnapshot(x.got), !.age = x.age + 1]
  BY DEF Riper
<1>4. QED
  BY <1>1, <1>2, <1>3 DEF Build

LEMMA FetchFields ==
  ASSUME NEW x \in Fetch
  PROVE  x.gen \in Gens /\ x.since \in Nat /\ x.age \in Nat /\ x.epoch \in Nat /\ x # Idle
BY NamesAssumption DEF Fetch

LEMMA LongerFields ==
  ASSUME NEW x \in Fetch
  PROVE  /\ Longer(x) \in Fetch
         /\ Longer(x).gen = x.gen /\ Longer(x).since = x.since /\ Longer(x).epoch = x.epoch
         /\ Longer(x).age = x.age + 1
BY DEF Longer, Fetch

LEMMA OwnFields ==
  ASSUME NEW x \in OwnEntry
  PROVE  x.value \in Tasks \cup Reading /\ x.left \in Nat /\ x # NoEntry
BY NamesAssumption DEF OwnEntry

LEMMA JointFields ==
  ASSUME NEW x \in JointEntry
  PROVE  /\ x.value \in Tasks \cup Snapshot /\ x.left \in Nat /\ x # NoEntry
BY NamesAssumption DEF JointEntry

LEMMA OwnMade ==
  ASSUME NEW value \in Tasks \cup Reading, NEW left \in Nat
  PROVE  /\ [value |-> value, left |-> left] \in OwnEntry
         /\ [value |-> value, left |-> left] # NoEntry
BY NamesAssumption DEF OwnEntry

LEMMA JointMade ==
  ASSUME NEW value \in Tasks \cup Snapshot, NEW left \in Nat
  PROVE  /\ [value |-> value, left |-> left] \in JointEntry
         /\ [value |-> value, left |-> left] # NoEntry
BY NamesAssumption DEF JointEntry

LEMMA SnapshotFields ==
  ASSUME NEW x \in Snapshot
  PROVE  x \notin Tasks /\ \A s \in Sources : x[s] \in Outcomes /\ x[s] \notin Tasks
<1>1. x \in [Sources -> Promise]
  BY DEF Snapshot, Promise
<1>2. QED
  BY <1>1, NamesAssumption DEF Snapshot, Outcomes

-----------------------------------------------------------------------------
(* What each step does, entry by entry.                                    *)

LEMMA PromiseKinds ==
  ASSUME NEW p \in Promise
  PROVE  p \in Tasks \/ (p \in Outcomes /\ p \notin Tasks)
BY NamesAssumption DEF Promise, Outcomes

LEMMA Entries ==
  ASSUME TypeOK
  PROVE  /\ \A g \in Gens, s \in Arrs : own[<<g, s>>] # NoEntry => own[<<g, s>>] \in OwnEntry
         /\ \A g \in Gens, k \in Keys : joint[<<g, k>>] # NoEntry => joint[<<g, k>>] \in JointEntry
         /\ \A t \in Tasks : builds[t] # Idle => builds[t] \in Build
         /\ \A t \in Tasks, s \in Sources : fetches[<<t, s>>] # Idle => fetches[<<t, s>>] \in Fetch
         /\ \A g \in Gens, s \in Sources : acked[<<g, s>>] \in Nat
         /\ \A s \in Sources : version[s] \in Nat
         /\ \A g \in Gens : epoch[g] \in Nat
BY DEF TypeOK

\* Task t asks `asked` on behalf of loader g.
Asks(t, g, asked) ==
  /\ g <= gen
  /\ \A s \in Sources : fetches[<<t, s>>] = Idle
  /\ \A s \in asked \cap Arrs : ~Live(own[<<g, s>>])
  /\ \A s \in asked : /\ fetches'[<<t, s>>] \in Fetch
                      /\ fetches'[<<t, s>>].gen = g /\ fetches'[<<t, s>>].since = version[s]
                      /\ fetches'[<<t, s>>].age = 0 /\ fetches'[<<t, s>>].epoch = epoch[g]
  /\ \A u \in Tasks, s \in Sources : u # t \/ s \notin asked => fetches'[<<u, s>>] = fetches[<<u, s>>]
  /\ \A s \in asked \cap Arrs : /\ own'[<<g, s>>] \in OwnEntry
                                /\ own'[<<g, s>>].value = t /\ own'[<<g, s>>].left = TTL
  /\ \A h \in Gens, s \in Arrs : h # g \/ s \notin asked => own'[<<h, s>>] = own[<<h, s>>]
  /\ UNCHANGED <<version, gen, writes, acked, epoch>>

LEMMA RequestFields ==
  ASSUME TypeOK, NEW g \in Gens, NEW s \in Sources
  PROVE  /\ Request(g, s) \in Fetch
         /\ Request(g, s).gen = g /\ Request(g, s).since = version[s]
         /\ Request(g, s).age = 0 /\ Request(g, s).epoch = epoch[g]
<1>1. version[s] \in Nat /\ epoch[g] \in Nat
  BY Entries
<1>2. QED
  BY <1>1 DEF Request, Fetch

LEMMA FillAsks ==
  ASSUME TypeOK, NEW t \in Tasks, NEW g \in Gens, NEW asked \in SUBSET Sources, g <= gen,
         Free(t), \A s \in asked \cap Arrs : ~Live(own[<<g, s>>]),
         Fill(t, g, asked), UNCHANGED <<version, gen, writes, acked, epoch>>
  PROVE  Asks(t, g, asked)
<1>1. \A s \in Sources : fetches[<<t, s>>] = Idle
  BY DEF Free
<1>2. \A u \in Tasks, s \in Sources :
        fetches'[<<u, s>>] = IF u = t /\ s \in asked THEN Request(g, s) ELSE fetches[<<u, s>>]
  BY DEF Fill
<1>3. \A h \in Gens, s \in Arrs :
        own'[<<h, s>>] = IF h = g /\ s \in asked THEN [value |-> t, left |-> TTL] ELSE own[<<h, s>>]
  BY DEF Fill
<1>4. \A s \in asked : /\ fetches'[<<t, s>>] \in Fetch
                       /\ fetches'[<<t, s>>].gen = g /\ fetches'[<<t, s>>].since = version[s]
                       /\ fetches'[<<t, s>>].age = 0 /\ fetches'[<<t, s>>].epoch = epoch[g]
  <2> TAKE s \in asked
  <2>1. s \in Sources /\ fetches'[<<t, s>>] = Request(g, s)
    BY <1>2
  <2>2. QED
    BY <2>1, RequestFields
<1>5. \A s \in asked \cap Arrs : /\ own'[<<g, s>>] \in OwnEntry
                                 /\ own'[<<g, s>>].value = t /\ own'[<<g, s>>].left = TTL
  <2>1. [value |-> t, left |-> TTL] \in OwnEntry
    BY OwnMade, TimesAssumption
  <2>2. QED
    BY <1>3, <2>1
<1>6. \A u \in Tasks, s \in Sources : u # t \/ s \notin asked => fetches'[<<u, s>>] = fetches[<<u, s>>]
  BY <1>2
<1>7. \A h \in Gens, s \in Arrs : h # g \/ s \notin asked => own'[<<h, s>>] = own[<<h, s>>]
  BY <1>3
<1>8. QED
  BY <1>1, <1>4, <1>5, <1>6, <1>7 DEF Asks

\* Task t builds for `key` of loader g.
Builds(t, g, key, asked) ==
  /\ Asks(t, g, asked)
  /\ builds[t] = Idle
  /\ ~Live(joint[<<g, key>>])
  /\ joint'[<<g, key>>] \in JointEntry /\ joint'[<<g, key>>].value = t /\ joint'[<<g, key>>].left = TTL
  /\ \A h \in Gens, k \in Keys : h # g \/ k # key => joint'[<<h, k>>] = joint[<<h, k>>]
  /\ builds'[t] \in Build
  /\ builds'[t].gen = g /\ builds'[t].key = key /\ builds'[t].epoch = epoch[g]
  /\ builds'[t].age = 0
  /\ \A s \in Sources :
       \/ s \in asked /\ builds'[t].got[s] = t
       \/ s \in Arrs \ asked /\ Live(own[<<g, s>>]) /\ builds'[t].got[s] = own[<<g, s>>].value
       \/ s \notin asked /\ builds'[t].got[s] = Degraded
  /\ \A b \in Tasks : b # t => builds'[b] = builds[b]
  /\ builds' \in [Tasks -> Build \cup {Idle}]
  /\ joint' \in [Gens \X Keys -> JointEntry \cup {NoEntry}]

LEMMA BuildsAsks ==
  ASSUME NEW t, NEW g, NEW key, NEW asked, Builds(t, g, key, asked)
  PROVE  Asks(t, g, asked)
BY Zenon DEF Builds

First(t, g, key, asked) ==
  [gen |-> g, key |-> key, epoch |-> epoch[g], age |-> 0,
   got |-> [s \in Sources |->
              IF s \in asked THEN t ELSE IF s \in Arrs THEN own[<<g, s>>].value ELSE Degraded]]

LEMMA FirstFields ==
  ASSUME TypeOK, NEW t \in Tasks, NEW g \in Gens, NEW key \in Keys, NEW asked \in SUBSET Sources,
         \A s \in Arrs \ asked : Live(own[<<g, s>>])
  PROVE  /\ First(t, g, key, asked) \in Build
         /\ First(t, g, key, asked).gen = g /\ First(t, g, key, asked).key = key
         /\ First(t, g, key, asked).epoch = epoch[g] /\ First(t, g, key, asked).age = 0
         /\ \A s \in Sources :
              First(t, g, key, asked).got[s]
                = IF s \in asked THEN t ELSE IF s \in Arrs THEN own[<<g, s>>].value ELSE Degraded
<1> DEFINE got == [s \in Sources |->
                     IF s \in asked THEN t ELSE IF s \in Arrs THEN own[<<g, s>>].value ELSE Degraded]
<1>1. \A s \in Arrs \ asked : own[<<g, s>>].value \in Promise
  <2> TAKE s \in Arrs \ asked
  <2>1. own[<<g, s>>] \in OwnEntry
    BY Entries DEF Live
  <2>2. QED
    BY <2>1, OwnFields DEF Promise
<1>2. got \in [Sources -> Promise]
  BY <1>1 DEF Promise
<1>3. epoch[g] \in Nat
  BY Entries
<1>4. First(t, g, key, asked) = [gen |-> g, key |-> key, epoch |-> epoch[g], age |-> 0, got |-> got]
  BY DEF First
<1> HIDE DEF got
<1>5. /\ [gen |-> g, key |-> key, epoch |-> epoch[g], age |-> 0, got |-> got] \in Build
      /\ First(t, g, key, asked).gen = g /\ First(t, g, key, asked).key = key
      /\ First(t, g, key, asked).epoch = epoch[g] /\ First(t, g, key, asked).age = 0
      /\ First(t, g, key, asked).got = got
  BY <1>2, <1>3, <1>4 DEF Build
<1>6. QED
  BY <1>4, <1>5 DEF got

LEMMA StartBuildBuilds ==
  ASSUME TypeOK, NEW t \in Tasks, NEW g \in Gens, NEW key \in Keys, StartBuild(t, g, key)
  PROVE  Builds(t, g, key, Asked(g, key))
<1> DEFINE asked == Asked(g, key)
<1>1. /\ asked \in SUBSET Sources
      /\ \A s \in asked \cap Arrs : ~Live(own[<<g, s>>])
      /\ \A s \in Arrs \ asked : Live(own[<<g, s>>])
  BY SourcesAssumption DEF Asked, Sources
<1>2. /\ g <= gen /\ Free(t) /\ ~Live(joint[<<g, key>>])
      /\ joint' = [joint EXCEPT ![<<g, key>>] = [value |-> t, left |-> TTL]]
      /\ builds' = [builds EXCEPT ![t] = First(t, g, key, asked)]
      /\ Fill(t, g, asked)
      /\ UNCHANGED <<version, gen, writes, acked, epoch>>
  BY Zenon DEF StartBuild, First
<1> HIDE DEF asked
<1>3. Asks(t, g, asked)
  BY <1>1, <1>2, FillAsks
<1>4. builds[t] = Idle
  BY <1>2 DEF Free
<1>5. /\ First(t, g, key, asked) \in Build
      /\ First(t, g, key, asked).gen = g /\ First(t, g, key, asked).key = key
      /\ First(t, g, key, asked).epoch = epoch[g] /\ First(t, g, key, asked).age = 0
      /\ \A s \in Sources :
           First(t, g, key, asked).got[s]
             = IF s \in asked THEN t ELSE IF s \in Arrs THEN own[<<g, s>>].value ELSE Degraded
  BY <1>1, FirstFields
<1>6. /\ builds'[t] = First(t, g, key, asked)
      /\ \A b \in Tasks : b # t => builds'[b] = builds[b]
      /\ builds' \in [Tasks -> Build \cup {Idle}]
  BY <1>2, <1>5 DEF TypeOK
<1>7. /\ joint'[<<g, key>>] = [value |-> t, left |-> TTL]
      /\ \A h \in Gens, k \in Keys : h # g \/ k # key => joint'[<<h, k>>] = joint[<<h, k>>]
      /\ joint' \in [Gens \X Keys -> JointEntry \cup {NoEntry}]
  <2>1. [value |-> t, left |-> TTL] \in JointEntry
    BY JointMade, TimesAssumption
  <2>2. QED
    BY <1>2, <2>1 DEF TypeOK
<1>8. joint'[<<g, key>>] \in JointEntry /\ joint'[<<g, key>>].value = t /\ joint'[<<g, key>>].left = TTL
  BY <1>7, JointMade, TimesAssumption
<1>9. \A s \in Sources :
       \/ s \in asked /\ builds'[t].got[s] = t
       \/ s \in Arrs \ asked /\ Live(own[<<g, s>>]) /\ builds'[t].got[s] = own[<<g, s>>].value
       \/ s \notin asked /\ builds'[t].got[s] = Degraded
  BY <1>1, <1>5, <1>6
<1>10. QED
  BY <1>2, <1>3, <1>4, <1>5, <1>6, <1>7, <1>8, <1>9 DEF Builds, asked

LEMMA StartSearchAsks ==
  ASSUME TypeOK, NEW t \in Tasks, NEW g \in Gens, NEW s \in Arrs, StartSearch(t, g, s)
  PROVE  Asks(t, g, {s}) /\ UNCHANGED <<joint, builds>>
<1>1. /\ g <= gen /\ Free(t) /\ ~Live(own[<<g, s>>]) /\ Fill(t, g, {s})
      /\ UNCHANGED <<version, gen, writes, acked, epoch>> /\ UNCHANGED <<joint, builds>>
  BY Zenon DEF StartSearch
<1>2. {s} \in SUBSET Sources
  BY DEF Sources
<1>3. QED
  BY <1>1, <1>2, FillAsks

\* Build b awaits what task t asked of source s; the entry (g, s) is that promise.
Awaits(b, t, s) == builds[b] # Idle /\ builds[b].got[s] = t
Promised(entry, t) == entry # NoEntry /\ entry.value = t

\* The read of source s by task t ends with this outcome.
ReadEnds(t, s, outcome) ==
  LET fetch == fetches[<<t, s>>] IN
  /\ fetch \in Fetch
  /\ \/ outcome = Degraded
     \/ /\ outcome \in Reading
        /\ outcome.age = fetch.age /\ fetch.since <= outcome.v /\ outcome.v <= version[s]
  /\ fetches'[<<t, s>>] = Idle
  /\ \A u \in Tasks, r \in Sources : u # t \/ r # s => fetches'[<<u, r>>] = fetches[<<u, r>>]
  /\ \A b \in Tasks : Awaits(b, t, s) =>
       /\ builds'[b] \in Build
       /\ builds'[b].gen = builds[b].gen /\ builds'[b].key = builds[b].key
       /\ builds'[b].epoch = builds[b].epoch /\ builds'[b].age = builds[b].age
       /\ builds'[b].got[s] = outcome
       /\ \A r \in Sources : r # s => builds'[b].got[r] = builds[b].got[r]
  /\ \A b \in Tasks : ~Awaits(b, t, s) => builds'[b] = builds[b]
  /\ \A h \in Gens, r \in Arrs :
       h # fetch.gen \/ r # s \/ ~Promised(own[<<h, r>>], t) => own'[<<h, r>>] = own[<<h, r>>]
  /\ s \in Arrs /\ Promised(own[<<fetch.gen, s>>], t) =>
       \/ outcome = Degraded /\ own'[<<fetch.gen, s>>] = NoEntry
       \/ /\ outcome \in Reading /\ own'[<<fetch.gen, s>>] \in OwnEntry
          /\ own'[<<fetch.gen, s>>].value = outcome
          /\ own'[<<fetch.gen, s>>].left = own[<<fetch.gen, s>>].left
  /\ UNCHANGED <<version, gen, joint, writes, acked, epoch>>

LEMMA Delivered ==
  ASSUME TypeOK, NEW t \in Tasks, NEW s \in Sources, NEW outcome \in Outcomes,
         Deliver(t, s, outcome)
  PROVE  /\ \A b \in Tasks : Awaits(b, t, s) =>
              /\ builds'[b] \in Build
              /\ builds'[b].gen = builds[b].gen /\ builds'[b].key = builds[b].key
              /\ builds'[b].epoch = builds[b].epoch /\ builds'[b].age = builds[b].age
              /\ builds'[b].got[s] = outcome
              /\ \A r \in Sources : r # s => builds'[b].got[r] = builds[b].got[r]
         /\ \A b \in Tasks : ~Awaits(b, t, s) => builds'[b] = builds[b]
<1>1. \A b \in Tasks : builds'[b] = IF Awaits(b, t, s) THEN Told(builds[b], s, outcome) ELSE builds[b]
  BY DEF Deliver, Awaits, Told
<1>2. outcome \in Promise
  BY DEF Outcomes, Promise
<1>3. ASSUME NEW b \in Tasks, Awaits(b, t, s)
      PROVE  /\ builds'[b] \in Build
             /\ builds'[b].gen = builds[b].gen /\ builds'[b].key = builds[b].key
             /\ builds'[b].epoch = builds[b].epoch /\ builds'[b].age = builds[b].age
             /\ builds'[b].got[s] = outcome
             /\ \A r \in Sources : r # s => builds'[b].got[r] = builds[b].got[r]
  <2>1. builds[b] \in Build
    BY <1>3, Entries DEF Awaits
  <2>2. builds'[b] = Told(builds[b], s, outcome)
    BY <1>1, <1>3
  <2>3. QED
    BY <1>2, <2>1, <2>2, ToldFields
<1>4. QED
  BY <1>1, <1>3

LEMMA SettledEnds ==
  ASSUME TypeOK, NEW t \in Tasks, NEW s \in Sources, ReadSettles(t, s)
  PROVE  \E outcome \in Outcomes : ReadEnds(t, s, outcome)
<1> DEFINE fetch == fetches[<<t, s>>]
<1>1. PICK v \in fetch.since .. version[s] :
        /\ Deliver(t, s, [v |-> v, age |-> fetch.age])
        /\ own' = [k \in Gens \X Arrs |->
             IF k = <<fetch.gen, s>>
               THEN Guarded(own[k], t, [value |-> [v |-> v, age |-> fetch.age], left |-> own[k].left])
               ELSE own[k]]
  BY DEF ReadSettles
<1>2. /\ fetch # Idle
      /\ fetches' = [fetches EXCEPT ![<<t, s>>] = Idle]
      /\ UNCHANGED <<version, gen, joint, writes, acked, epoch>>
  BY DEF ReadSettles
<1>3. fetch \in Fetch /\ version[s] \in Nat
  BY <1>2, Entries
<1> DEFINE reading == [v |-> v, age |-> fetch.age]
<1>4. /\ fetch.since \in Nat /\ fetch.age \in Nat /\ fetch.gen \in Gens
  BY <1>3, FetchFields
<1>5. /\ reading \in Reading /\ reading.age = fetch.age
      /\ fetch.since <= reading.v /\ reading.v <= version[s]
  BY <1>3, <1>4 DEF Reading
<1>6. /\ Deliver(t, s, reading)
      /\ own' = [k \in Gens \X Arrs |->
             IF k = <<fetch.gen, s>>
               THEN Guarded(own[k], t, [value |-> reading, left |-> own[k].left])
               ELSE own[k]]
  BY <1>1
<1> HIDE DEF reading
<1>7. reading \in Outcomes
  BY <1>5 DEF Outcomes
<1>8. /\ fetches'[<<t, s>>] = Idle
      /\ \A u \in Tasks, r \in Sources : u # t \/ r # s => fetches'[<<u, r>>] = fetches[<<u, r>>]
  BY <1>2 DEF TypeOK
<1>9. \A h \in Gens, r \in Arrs :
        h # fetch.gen \/ r # s \/ ~Promised(own[<<h, r>>], t) => own'[<<h, r>>] = own[<<h, r>>]
  BY <1>6 DEF Guarded, Promised
<1>10. ASSUME s \in Arrs, Promised(own[<<fetch.gen, s>>], t)
       PROVE  /\ own'[<<fetch.gen, s>>] \in OwnEntry
              /\ own'[<<fetch.gen, s>>].value = reading
              /\ own'[<<fetch.gen, s>>].left = own[<<fetch.gen, s>>].left
  <2>1. own[<<fetch.gen, s>>] \in OwnEntry
    BY <1>4, <1>10, Entries DEF Promised
  <2>2. own[<<fetch.gen, s>>].left \in Nat
    BY <2>1, OwnFields
  <2>3. own'[<<fetch.gen, s>>] = [value |-> reading, left |-> own[<<fetch.gen, s>>].left]
    BY <1>4, <1>6, <1>10 DEF Guarded, Promised
  <2>4. QED
    BY <1>5, <2>2, <2>3, OwnMade
<1>11. ReadEnds(t, s, reading)
  <2>1. s \in Arrs /\ Promised(own[<<fetch.gen, s>>], t) =>
          \/ reading = Degraded /\ own'[<<fetch.gen, s>>] = NoEntry
          \/ /\ reading \in Reading /\ own'[<<fetch.gen, s>>] \in OwnEntry
             /\ own'[<<fetch.gen, s>>].value = reading
             /\ own'[<<fetch.gen, s>>].left = own[<<fetch.gen, s>>].left
    BY <1>5, <1>10
  <2>2. /\ \A b \in Tasks : Awaits(b, t, s) =>
             /\ builds'[b] \in Build
             /\ builds'[b].gen = builds[b].gen /\ builds'[b].key = builds[b].key
             /\ builds'[b].epoch = builds[b].epoch /\ builds'[b].age = builds[b].age
             /\ builds'[b].got[s] = reading
             /\ \A r \in Sources : r # s => builds'[b].got[r] = builds[b].got[r]
        /\ \A b \in Tasks : ~Awaits(b, t, s) => builds'[b] = builds[b]
    BY <1>6, <1>7, Delivered
  <2>3. QED
    BY <1>2, <1>3, <1>5, <1>8, <1>9, <2>1, <2>2, Zenon DEF ReadEnds
<1>12. QED
  BY <1>7, <1>11

LEMMA FailedEnds ==
  ASSUME TypeOK, NEW t \in Tasks, NEW s \in Sources, ReadFails(t, s)
  PROVE  \E outcome \in Outcomes : ReadEnds(t, s, outcome)
<1> DEFINE fetch == fetches[<<t, s>>]
<1>1. /\ fetch # Idle
      /\ Deliver(t, s, Degraded)
      /\ own' = [k \in Gens \X Arrs |->
             IF k = <<fetch.gen, s>> THEN Guarded(own[k], t, NoEntry) ELSE own[k]]
      /\ fetches' = [fetches EXCEPT ![<<t, s>>] = Idle]
      /\ UNCHANGED <<version, gen, joint, writes, acked, epoch>>
  BY DEF ReadFails
<1>2. fetch \in Fetch /\ fetch.gen \in Gens
  BY <1>1, Entries, FetchFields
<1>3. Degraded \in Outcomes
  BY DEF Outcomes
<1>4. /\ fetches'[<<t, s>>] = Idle
      /\ \A u \in Tasks, r \in Sources : u # t \/ r # s => fetches'[<<u, r>>] = fetches[<<u, r>>]
  BY <1>1 DEF TypeOK
<1>5. \A h \in Gens, r \in Arrs :
        h # fetch.gen \/ r # s \/ ~Promised(own[<<h, r>>], t) => own'[<<h, r>>] = own[<<h, r>>]
  BY <1>1 DEF Guarded, Promised
<1>6. s \in Arrs /\ Promised(own[<<fetch.gen, s>>], t) => own'[<<fetch.gen, s>>] = NoEntry
  BY <1>1, <1>2 DEF Guarded, Promised
<1>7. /\ \A b \in Tasks : Awaits(b, t, s) =>
           /\ builds'[b] \in Build
           /\ builds'[b].gen = builds[b].gen /\ builds'[b].key = builds[b].key
           /\ builds'[b].epoch = builds[b].epoch /\ builds'[b].age = builds[b].age
           /\ builds'[b].got[s] = Degraded
           /\ \A r \in Sources : r # s => builds'[b].got[r] = builds[b].got[r]
      /\ \A b \in Tasks : ~Awaits(b, t, s) => builds'[b] = builds[b]
  BY <1>1, <1>3, Delivered
<1>8. ReadEnds(t, s, Degraded)
  BY <1>1, <1>2, <1>4, <1>5, <1>6, <1>7, Zenon DEF ReadEnds
<1>9. QED
  BY <1>3, <1>8

\* The build of task t ends, and leaves a snapshot if the entry is still its own.
BuildEnds(t) ==
  LET g == builds[t].gen
      key == builds[t].key
  IN /\ builds[t] \in Build
     /\ builds[t].got \in Snapshot
     /\ builds'[t] = Idle
     /\ \A b \in Tasks : b # t => builds'[b] = builds[b]
     /\ \A h \in Gens, k \in Keys :
          h # g \/ k # key \/ ~Promised(joint[<<h, k>>], t) => joint'[<<h, k>>] = joint[<<h, k>>]
     /\ Promised(joint[<<g, key>>], t) =>
          \/ joint'[<<g, key>>] = NoEntry
          \/ /\ joint'[<<g, key>>] \in JointEntry
             /\ joint'[<<g, key>>].value = builds[t].got /\ joint'[<<g, key>>].left <= TTL
     /\ UNCHANGED <<version, gen, own, fetches, writes, acked, epoch>>

LEMMA GatheredWhole ==
  ASSUME TypeOK, NEW t \in Tasks, Gathered(t)
  PROVE  builds[t] \in Build /\ builds[t].got \in Snapshot
<1>1. builds[t] \in Build
  BY Entries DEF Gathered
<1>2. builds[t].got \in [Sources -> Promise]
  BY <1>1, BuildFields
<1>3. \A s \in Sources : builds[t].got[s] \in Reading \cup {Degraded}
  BY <1>2, PromiseKinds DEF Gathered, Outcomes
<1>4. QED
  BY <1>1, <1>2, <1>3 DEF Snapshot

LEMMA EndedBuild ==
  ASSUME TypeOK, NEW t \in Tasks, Gathered(t), NEW entry,
         \/ entry = NoEntry
         \/ entry \in JointEntry /\ entry.value = builds[t].got /\ entry.left <= TTL,
         joint' = [joint EXCEPT ![<<builds[t].gen, builds[t].key>>] = Guarded(@, t, entry)],
         builds' = [builds EXCEPT ![t] = Idle],
         UNCHANGED <<version, gen, own, fetches, writes, acked, epoch>>
  PROVE  BuildEnds(t)
<1> DEFINE g == builds[t].gen
           key == builds[t].key
<1>1. builds[t] \in Build /\ builds[t].got \in Snapshot /\ g \in Gens /\ key \in Keys
  BY GatheredWhole, BuildFields
<1>2. builds'[t] = Idle /\ \A b \in Tasks : b # t => builds'[b] = builds[b]
  BY DEF TypeOK
<1>3. \A h \in Gens, k \in Keys :
        joint'[<<h, k>>] = IF h = g /\ k = key THEN Guarded(joint[<<h, k>>], t, entry) ELSE joint[<<h, k>>]
  BY <1>1 DEF TypeOK
<1> HIDE DEF g, key
<1>4. \A h \in Gens, k \in Keys :
        h # g \/ k # key \/ ~Promised(joint[<<h, k>>], t) => joint'[<<h, k>>] = joint[<<h, k>>]
  BY <1>3 DEF Guarded, Promised
<1>5. Promised(joint[<<g, key>>], t) => joint'[<<g, key>>] = entry
  BY <1>1, <1>3 DEF Guarded, Promised
<1>6. QED
  BY <1>1, <1>2, <1>4, <1>5 DEF BuildEnds, g, key

LEMMA SettledBuildEnds ==
  ASSUME TypeOK, NEW t \in Tasks, BuildSettles(t) \/ BuildThrows(t)
  PROVE  BuildEnds(t)
<1>1. CASE BuildSettles(t)
  <2> DEFINE entry == [value |-> builds[t].got, left |-> Worth(builds[t].got)]
  <2>1. builds[t].got \in Snapshot
    BY <1>1, GatheredWhole DEF BuildSettles
  <2>2. Worth(builds[t].got) \in Nat /\ Worth(builds[t].got) <= TTL
    BY TimesAssumption DEF Worth
  <2>3. entry \in JointEntry /\ entry.value = builds[t].got /\ entry.left <= TTL
    BY <2>1, <2>2, JointMade
  <2>4. QED
    BY <1>1, <2>3, EndedBuild DEF BuildSettles
<1>2. CASE BuildThrows(t)
  BY <1>2, EndedBuild DEF BuildThrows
<1>3. QED
  BY <1>1, <1>2

\* Write w is reported, and the caches of its loader are cleared.
Reports(w) ==
  LET g == writes[w].gen
      s == writes[w].source
  IN /\ writes[w] \in Write
     /\ \A k \in Keys : joint'[<<g, k>>] = NoEntry
     /\ \A h \in Gens, k \in Keys : h # g => joint'[<<h, k>>] = joint[<<h, k>>]
     /\ \A r \in Arrs : own'[<<g, r>>] = NoEntry
     /\ \A h \in Gens, r \in Arrs : h # g => own'[<<h, r>>] = own[<<h, r>>]
     /\ acked'[<<g, s>>] \in {acked[<<g, s>>], writes[w].landed}
     /\ \A h \in Gens, r \in Sources : h # g \/ r # s => acked'[<<h, r>>] = acked[<<h, r>>]
     /\ epoch'[g] = epoch[g] + 1
     /\ \A h \in Gens : h # g => epoch'[h] = epoch[h]
     /\ writes'[w] = Idle
     /\ \A v \in Writers : v # w => writes'[v] = writes[v]
     /\ UNCHANGED <<version, gen, builds, fetches>>

LEMMA WriteFields ==
  ASSUME NEW x \in Write
  PROVE  x.gen \in Gens /\ x.source \in Sources /\ x.landed \in Nat /\ x # Idle
BY NamesAssumption DEF Write

LEMMA ReturnReports ==
  ASSUME TypeOK, NEW w \in Writers, WriteReturns(w)
  PROVE  Reports(w)
<1> DEFINE g == writes[w].gen
           s == writes[w].source
<1>1. writes[w] \in Write /\ g \in Gens /\ s \in Sources
  BY WriteFields DEF WriteReturns, TypeOK
<1>2. /\ joint' = [k \in Gens \X Keys |-> IF k[1] = g THEN NoEntry ELSE joint[k]]
      /\ own' = [k \in Gens \X Arrs |-> IF k[1] = g THEN NoEntry ELSE own[k]]
      /\ acked' = [acked EXCEPT ![<<g, s>>] = IF writes[w].landed > @ THEN writes[w].landed ELSE @]
      /\ epoch' = [epoch EXCEPT ![g] = @ + 1]
      /\ writes' = [writes EXCEPT ![w] = Idle]
      /\ UNCHANGED <<version, gen, builds, fetches>>
  BY DEF WriteReturns, invalidate, taskVars
<1> HIDE DEF g, s
<1>3. /\ \A k \in Keys : joint'[<<g, k>>] = NoEntry
      /\ \A h \in Gens, k \in Keys : h # g => joint'[<<h, k>>] = joint[<<h, k>>]
  BY <1>1, <1>2
<1>4. /\ \A r \in Arrs : own'[<<g, r>>] = NoEntry
      /\ \A h \in Gens, r \in Arrs : h # g => own'[<<h, r>>] = own[<<h, r>>]
  BY <1>1, <1>2
<1>5. /\ acked'[<<g, s>>] \in {acked[<<g, s>>], writes[w].landed}
      /\ \A h \in Gens, r \in Sources : h # g \/ r # s => acked'[<<h, r>>] = acked[<<h, r>>]
  BY <1>1, <1>2 DEF TypeOK
<1>6. epoch'[g] = epoch[g] + 1 /\ \A h \in Gens : h # g => epoch'[h] = epoch[h]
  BY <1>1, <1>2 DEF TypeOK
<1>7. writes'[w] = Idle /\ \A v \in Writers : v # w => writes'[v] = writes[v]
  BY <1>2 DEF TypeOK
<1>8. QED
  BY <1>1, <1>2, <1>3, <1>4, <1>5, <1>6, <1>7 DEF Reports, g, s

\* Everything is a tick older.
Ages ==
  /\ \A t \in Tasks, s \in Sources : fetches[<<t, s>>] # Idle => fetches[<<t, s>>].age < Timeout
  /\ \A t \in Tasks : ~Gathered(t)
  /\ \A t \in Tasks, s \in Sources :
       IF fetches[<<t, s>>] = Idle THEN fetches'[<<t, s>>] = Idle
       ELSE /\ fetches'[<<t, s>>] \in Fetch
            /\ fetches'[<<t, s>>].gen = fetches[<<t, s>>].gen
            /\ fetches'[<<t, s>>].since = fetches[<<t, s>>].since
            /\ fetches'[<<t, s>>].epoch = fetches[<<t, s>>].epoch
            /\ fetches'[<<t, s>>].age = fetches[<<t, s>>].age + 1
  /\ \A t \in Tasks :
       IF builds[t] = Idle THEN builds'[t] = Idle
       ELSE /\ builds'[t] \in Build
            /\ builds'[t].gen = builds[t].gen /\ builds'[t].key = builds[t].key
            /\ builds'[t].epoch = builds[t].epoch /\ builds'[t].age = builds[t].age + 1
            /\ \A s \in Sources : builds'[t].got[s] = Older(builds[t].got[s])
  /\ \A g \in Gens, s \in Arrs :
       IF own[<<g, s>>] = NoEntry THEN own'[<<g, s>>] = NoEntry
       ELSE IF own[<<g, s>>].left = 0 /\ own[<<g, s>>].value \notin Tasks THEN own'[<<g, s>>] = NoEntry
       ELSE /\ own'[<<g, s>>] \in OwnEntry
            /\ own'[<<g, s>>].value = Older(own[<<g, s>>].value)
            /\ own'[<<g, s>>].left = IF own[<<g, s>>].left = 0 THEN 0 ELSE own[<<g, s>>].left - 1
  /\ \A g \in Gens, k \in Keys :
       IF joint[<<g, k>>] = NoEntry THEN joint'[<<g, k>>] = NoEntry
       ELSE IF joint[<<g, k>>].left = 0 /\ joint[<<g, k>>].value \notin Tasks THEN joint'[<<g, k>>] = NoEntry
       ELSE /\ joint'[<<g, k>>] \in JointEntry
            /\ joint'[<<g, k>>].value = OlderSnapshot(joint[<<g, k>>].value)
            /\ joint'[<<g, k>>].left = IF joint[<<g, k>>].left = 0 THEN 0 ELSE joint[<<g, k>>].left - 1
  /\ UNCHANGED <<version, gen, writes, acked, epoch>>

LEMMA OldValue ==
  /\ \A p \in Tasks \cup Reading : Older(p) \in Tasks \cup Reading
  /\ \A p \in Tasks \cup Snapshot : OlderSnapshot(p) \in Tasks \cup Snapshot
<1>1. ASSUME NEW p \in Tasks \cup Reading PROVE Older(p) \in Tasks \cup Reading
  BY OlderType DEF Promise
<1>2. ASSUME NEW p \in Tasks PROVE OlderSnapshot(p) = p
  BY DEF OlderSnapshot
<1>3. ASSUME NEW p \in Snapshot PROVE OlderSnapshot(p) \in Snapshot
  <2>1. p \in [Sources -> Promise]
    BY DEF Snapshot, Promise
  <2>2. QED
    BY <2>1, OlderSnapshotType
<1>4. QED
  BY <1>1, <1>2, <1>3

LEMMA ShorterOwn ==
  ASSUME NEW x \in OwnEntry
  PROVE  IF x.left = 0 /\ x.value \notin Tasks THEN Shorter(x, Older(x.value)) = NoEntry
         ELSE /\ Shorter(x, Older(x.value)) \in OwnEntry
              /\ Shorter(x, Older(x.value)).value = Older(x.value)
              /\ Shorter(x, Older(x.value)).left = IF x.left = 0 THEN 0 ELSE x.left - 1
<1>1. x.left \in Nat /\ Older(x.value) \in Tasks \cup Reading
  BY OwnFields, OldValue
<1>2. CASE x.left # 0
  <2>1. /\ Shorter(x, Older(x.value)) = [value |-> Older(x.value), left |-> x.left - 1]
        /\ x.left - 1 \in Nat
    BY <1>1, <1>2 DEF Shorter
  <2>2. QED
    BY <1>1, <1>2, <2>1, OwnMade
<1>3. CASE x.left = 0 /\ x.value \in Tasks
  <2>1. Shorter(x, Older(x.value)) = x /\ Older(x.value) = x.value
    BY <1>3 DEF Shorter, Older
  <2>2. QED
    BY <1>3, <2>1
<1>4. CASE x.left = 0 /\ x.value \notin Tasks
  BY <1>4 DEF Shorter
<1>5. QED
  BY <1>2, <1>3, <1>4

LEMMA ShorterJoint ==
  ASSUME NEW x \in JointEntry
  PROVE  IF x.left = 0 /\ x.value \notin Tasks THEN Shorter(x, OlderSnapshot(x.value)) = NoEntry
         ELSE /\ Shorter(x, OlderSnapshot(x.value)) \in JointEntry
              /\ Shorter(x, OlderSnapshot(x.value)).value = OlderSnapshot(x.value)
              /\ Shorter(x, OlderSnapshot(x.value)).left = IF x.left = 0 THEN 0 ELSE x.left - 1
<1>1. x.left \in Nat /\ OlderSnapshot(x.value) \in Tasks \cup Snapshot
  BY JointFields, OldValue
<1>2. CASE x.left # 0
  <2>1. /\ Shorter(x, OlderSnapshot(x.value)) = [value |-> OlderSnapshot(x.value), left |-> x.left - 1]
        /\ x.left - 1 \in Nat
    BY <1>1, <1>2 DEF Shorter
  <2>2. QED
    BY <1>1, <1>2, <2>1, JointMade
<1>3. CASE x.left = 0 /\ x.value \in Tasks
  <2>1. Shorter(x, OlderSnapshot(x.value)) = x /\ OlderSnapshot(x.value) = x.value
    BY <1>3 DEF Shorter, OlderSnapshot
  <2>2. QED
    BY <1>3, <2>1
<1>4. CASE x.left = 0 /\ x.value \notin Tasks
  BY <1>4 DEF Shorter
<1>5. QED
  BY <1>2, <1>3, <1>4

LEMMA TickAges ==
  ASSUME TypeOK, Tick
  PROVE  Ages
<1>1. /\ \A t \in Tasks, s \in Sources : fetches[<<t, s>>] # Idle => fetches[<<t, s>>].age < Timeout
      /\ \A t \in Tasks : ~Gathered(t)
      /\ UNCHANGED <<version, gen, writes, acked, epoch>>
  BY DEF Tick
<1>2. ASSUME NEW t \in Tasks, NEW s \in Sources
      PROVE  fetches'[<<t, s>>] = IF fetches[<<t, s>>] = Idle THEN Idle ELSE Longer(fetches[<<t, s>>])
  BY DEF Tick, Longer
<1>3. ASSUME NEW t \in Tasks
      PROVE  builds'[t] = IF builds[t] = Idle THEN Idle ELSE Riper(builds[t])
  BY DEF Tick, Riper
<1>4. ASSUME NEW g \in Gens, NEW s \in Arrs
      PROVE  own'[<<g, s>>] = IF own[<<g, s>>] = NoEntry THEN NoEntry
                              ELSE Shorter(own[<<g, s>>], Older(own[<<g, s>>].value))
  BY DEF Tick
<1>5. ASSUME NEW g \in Gens, NEW k \in Keys
      PROVE  joint'[<<g, k>>] = IF joint[<<g, k>>] = NoEntry THEN NoEntry
                                ELSE Shorter(joint[<<g, k>>], OlderSnapshot(joint[<<g, k>>].value))
  BY DEF Tick
<1>6. ASSUME NEW t \in Tasks, NEW s \in Sources
      PROVE  IF fetches[<<t, s>>] = Idle THEN fetches'[<<t, s>>] = Idle
             ELSE /\ fetches'[<<t, s>>] \in Fetch
                  /\ fetches'[<<t, s>>].gen = fetches[<<t, s>>].gen
                  /\ fetches'[<<t, s>>].since = fetches[<<t, s>>].since
                  /\ fetches'[<<t, s>>].epoch = fetches[<<t, s>>].epoch
                  /\ fetches'[<<t, s>>].age = fetches[<<t, s>>].age + 1
  BY <1>2, Entries, LongerFields
<1>7. ASSUME NEW t \in Tasks
      PROVE  IF builds[t] = Idle THEN builds'[t] = Idle
             ELSE /\ builds'[t] \in Build
                  /\ builds'[t].gen = builds[t].gen /\ builds'[t].key = builds[t].key
                  /\ builds'[t].epoch = builds[t].epoch /\ builds'[t].age = builds[t].age + 1
                  /\ \A s \in Sources : builds'[t].got[s] = Older(builds[t].got[s])
  BY <1>3, Entries, RiperFields
<1>8. ASSUME NEW g \in Gens, NEW s \in Arrs
      PROVE  IF own[<<g, s>>] = NoEntry THEN own'[<<g, s>>] = NoEntry
             ELSE IF own[<<g, s>>].left = 0 /\ own[<<g, s>>].value \notin Tasks THEN own'[<<g, s>>] = NoEntry
             ELSE /\ own'[<<g, s>>] \in OwnEntry
                  /\ own'[<<g, s>>].value = Older(own[<<g, s>>].value)
                  /\ own'[<<g, s>>].left = IF own[<<g, s>>].left = 0 THEN 0 ELSE own[<<g, s>>].left - 1
  BY <1>4, Entries, ShorterOwn
<1>9. ASSUME NEW g \in Gens, NEW k \in Keys
      PROVE  IF joint[<<g, k>>] = NoEntry THEN joint'[<<g, k>>] = NoEntry
             ELSE IF joint[<<g, k>>].left = 0 /\ joint[<<g, k>>].value \notin Tasks THEN joint'[<<g, k>>] = NoEntry
             ELSE /\ joint'[<<g, k>>] \in JointEntry
                  /\ joint'[<<g, k>>].value = OlderSnapshot(joint[<<g, k>>].value)
                  /\ joint'[<<g, k>>].left = IF joint[<<g, k>>].left = 0 THEN 0 ELSE joint[<<g, k>>].left - 1
  BY <1>5, Entries, ShorterJoint
<1>10. QED
  BY <1>1, <1>6, <1>7, <1>8, <1>9, Zenon DEF Ages

\* The library changes, or a write or a reload begins: nothing cached is touched.
Elsewhere ==
  /\ gen <= gen'
  /\ \A s \in Sources : version[s] <= version'[s]
  /\ \A w \in Writers :
       writes'[w] # Idle =>
         \/ /\ writes[w] # Idle
            /\ writes'[w].source = writes[w].source /\ writes'[w].landed = writes[w].landed
         \/ writes'[w].landed = 0
         \/ writes'[w].landed = version'[writes'[w].source]
  /\ UNCHANGED <<joint, own, builds, fetches, acked, epoch>>

LEMMA ElsewhereSteps ==
  ASSUME TypeOK,
         \/ \E w \in Writers : \/ \E s \in Sources : CallWrite(w, s)
                               \/ StartWrite(w) \/ WriteLands(w) \/ WriteFails(w)
         \/ \E s \in Sources : Drift(s)
         \/ Reload
         \/ UNCHANGED vars
  PROVE  Elsewhere /\ version' \in [Sources -> Nat] /\ gen' \in Gens
         /\ writes' \in [Writers -> Write \cup {Idle}]
<1> USE DEF cacheVars, taskVars
<1>0. gen \in Nat
  BY BoundsAssumption DEF TypeOK, Gens
<1>1. ASSUME NEW w \in Writers, NEW s \in Sources, CallWrite(w, s)
      PROVE  Elsewhere /\ version' \in [Sources -> Nat] /\ gen' \in Gens
             /\ writes' \in [Writers -> Write \cup {Idle}]
  <2>1. /\ [gen |-> gen, source |-> s, awaits |-> "plan", landed |-> 0] \in Write
        /\ [gen |-> gen, source |-> s, awaits |-> "plan", landed |-> 0].landed = 0
    BY DEF TypeOK, Write
  <2>2. writes' = [writes EXCEPT ![w] = [gen |-> gen, source |-> s, awaits |-> "plan", landed |-> 0]]
    BY <1>1 DEF CallWrite
  <2>3. QED
    BY <1>0, <1>1, <2>1, <2>2 DEF CallWrite, Elsewhere, TypeOK
<1>8. ASSUME NEW w \in Writers, StartWrite(w)
      PROVE  Elsewhere /\ version' \in [Sources -> Nat] /\ gen' \in Gens
             /\ writes' \in [Writers -> Write \cup {Idle}]
  <2>1. PICK sent : sent = [writes[w] EXCEPT !.awaits = "apply"]
    OBVIOUS
  <2>2. /\ writes' = [writes EXCEPT ![w] = sent] /\ writes[w] \in Write
        /\ UNCHANGED <<version, gen, joint, own, builds, fetches, acked, epoch>>
    BY <1>8, <2>1 DEF StartWrite, TypeOK
  <2>3. sent \in Write
    BY <2>1, <2>2 DEF Write
  <2>4. sent.landed = writes[w].landed /\ sent.source = writes[w].source
    BY <2>1, <2>2 DEF Write
  <2>5. /\ writes' \in [Writers -> Write \cup {Idle}]
        /\ writes'[w] = sent /\ \A v \in Writers : v # w => writes'[v] = writes[v]
    BY <2>2, <2>3 DEF TypeOK
  <2>6. writes[w] # Idle
    BY <1>8 DEF StartWrite
  <2>7. QED
    BY <1>0, <2>2, <2>4, <2>5, <2>6 DEF Elsewhere, TypeOK
<1>2. ASSUME NEW w \in Writers, WriteLands(w)
      PROVE  Elsewhere /\ version' \in [Sources -> Nat] /\ gen' \in Gens
             /\ writes' \in [Writers -> Write \cup {Idle}]
  <2> DEFINE s == writes[w].source
             landed == [writes[w] EXCEPT !.landed = version[s] + 1]
  <2>1. writes[w] \in Write /\ s \in Sources /\ version[s] \in Nat
    BY <1>2, WriteFields DEF WriteLands, TypeOK
  <2>2. landed \in Write /\ landed.source = s /\ landed.landed = version[s] + 1
    BY <2>1 DEF Write
  <2>3. /\ version' = [version EXCEPT ![s] = version[s] + 1]
        /\ writes' = [writes EXCEPT ![w] = landed]
        /\ UNCHANGED <<gen, joint, own, builds, fetches, acked, epoch>>
    BY <1>2 DEF WriteLands
  <2> HIDE DEF s, landed
  <2>4. /\ version' \in [Sources -> Nat] /\ version'[s] = version[s] + 1
        /\ \A r \in Sources : version[r] \in Nat /\ version[r] <= version'[r]
    BY <2>1, <2>3 DEF TypeOK
  <2>5. /\ writes' \in [Writers -> Write \cup {Idle}]
        /\ writes'[w] = landed /\ \A v \in Writers : v # w => writes'[v] = writes[v]
    BY <2>2, <2>3 DEF TypeOK
  <2>6. QED
    BY <1>0, <2>2, <2>3, <2>4, <2>5 DEF Elsewhere, TypeOK
<1>3. ASSUME NEW w \in Writers, WriteFails(w)
      PROVE  Elsewhere /\ version' \in [Sources -> Nat] /\ gen' \in Gens
             /\ writes' \in [Writers -> Write \cup {Idle}]
  BY <1>0, <1>3 DEF WriteFails, Elsewhere, TypeOK
<1>4. ASSUME NEW s \in Sources, Drift(s)
      PROVE  Elsewhere /\ version' \in [Sources -> Nat] /\ gen' \in Gens
             /\ writes' \in [Writers -> Write \cup {Idle}]
  BY <1>0, <1>4 DEF Drift, Elsewhere, TypeOK
<1>5. ASSUME Reload
      PROVE  Elsewhere /\ version' \in [Sources -> Nat] /\ gen' \in Gens
             /\ writes' \in [Writers -> Write \cup {Idle}]
  BY <1>0, <1>5, BoundsAssumption DEF Reload, Elsewhere, TypeOK, Gens
<1>6. ASSUME UNCHANGED vars
      PROVE  Elsewhere /\ version' \in [Sources -> Nat] /\ gen' \in Gens
             /\ writes' \in [Writers -> Write \cup {Idle}]
  BY <1>0, <1>6 DEF vars, Elsewhere, TypeOK
<1>7. QED
  BY <1>1, <1>2, <1>3, <1>4, <1>5, <1>6, <1>8, Zenon

\* Every step is one of these.
LEMMA Steps ==
  ASSUME TypeOK, [Next]_vars
  PROVE  \/ \E t \in Tasks, g \in Gens, key \in Keys, asked \in SUBSET Sources :
              Builds(t, g, key, asked)
         \/ \E t \in Tasks, g \in Gens, asked \in SUBSET Sources :
              Asks(t, g, asked) /\ UNCHANGED <<joint, builds>>
         \/ \E t \in Tasks, s \in Sources, outcome \in Outcomes : ReadEnds(t, s, outcome)
         \/ \E t \in Tasks : BuildEnds(t)
         \/ \E w \in Writers : Reports(w)
         \/ Ages
         \/ Elsewhere
<1>1. ASSUME NEW t \in Tasks, NEW g \in Gens, NEW key \in Keys, StartBuild(t, g, key)
      PROVE  \E asked \in SUBSET Sources : Builds(t, g, key, asked)
  <2>1. Asked(g, key) \in SUBSET Sources
    BY DEF Asked, Sources
  <2>2. QED
    BY <1>1, <2>1, StartBuildBuilds
<1>2. ASSUME NEW t \in Tasks, NEW g \in Gens, NEW s \in Arrs, StartSearch(t, g, s)
      PROVE  \E asked \in SUBSET Sources : Asks(t, g, asked) /\ UNCHANGED <<joint, builds>>
  <2>1. {s} \in SUBSET Sources
    BY DEF Sources
  <2>2. QED
    BY <1>2, <2>1, StartSearchAsks
<1>3. QED
  BY <1>1, <1>2, SettledEnds, FailedEnds, SettledBuildEnds, ReturnReports, TickAges,
     ElsewhereSteps, Zenon DEF Next

LEMMA TypeStep == TypeOK /\ [Next]_vars => TypeOK'
<1> SUFFICES ASSUME TypeOK, [Next]_vars PROVE TypeOK'
  OBVIOUS
<1>1. ASSUME NEW t \in Tasks, NEW g \in Gens, NEW asked \in SUBSET Sources, Fill(t, g, asked)
      PROVE  /\ fetches' \in [Tasks \X Sources -> Fetch \cup {Idle}]
             /\ own' \in [Gens \X Arrs -> OwnEntry \cup {NoEntry}]
  <2>1. \A f \in Tasks \X Sources :
          (IF f[1] = t /\ f[2] \in asked THEN Request(g, f[2]) ELSE fetches[f]) \in Fetch \cup {Idle}
    BY RequestFields DEF TypeOK
  <2>2. [value |-> t, left |-> TTL] \in OwnEntry
    BY OwnMade, TimesAssumption
  <2>3. \A k \in Gens \X Arrs :
          (IF k[1] = g /\ k[2] \in asked THEN [value |-> t, left |-> TTL] ELSE own[k])
            \in OwnEntry \cup {NoEntry}
    BY <2>2 DEF TypeOK
  <2>4. QED
    BY <1>1, <2>1, <2>3 DEF Fill
<1>2. ASSUME NEW t \in Tasks, NEW g \in Gens, NEW key \in Keys, StartBuild(t, g, key)
      PROVE  TypeOK'
  <2>1. Asked(g, key) \in SUBSET Sources
    BY DEF Asked, Sources
  <2>2. /\ fetches' \in [Tasks \X Sources -> Fetch \cup {Idle}]
        /\ own' \in [Gens \X Arrs -> OwnEntry \cup {NoEntry}]
    BY <1>1, <1>2, <2>1 DEF StartBuild
  <2>3. /\ builds' \in [Tasks -> Build \cup {Idle}]
        /\ joint' \in [Gens \X Keys -> JointEntry \cup {NoEntry}]
        /\ UNCHANGED <<version, gen, writes, acked, epoch>>
    BY <1>2, StartBuildBuilds DEF Builds, Asks
  <2>4. QED
    BY <2>2, <2>3 DEF TypeOK
<1>3. ASSUME NEW t \in Tasks, NEW g \in Gens, NEW s \in Arrs, StartSearch(t, g, s)
      PROVE  TypeOK'
  <2>1. {s} \in SUBSET Sources
    BY DEF Sources
  <2>2. /\ fetches' \in [Tasks \X Sources -> Fetch \cup {Idle}]
        /\ own' \in [Gens \X Arrs -> OwnEntry \cup {NoEntry}]
    BY <1>1, <1>3, <2>1 DEF StartSearch
  <2>3. QED
    BY <1>3, <2>2 DEF StartSearch, TypeOK
<1>4. ASSUME NEW t \in Tasks, NEW s \in Sources, NEW outcome \in Outcomes, Deliver(t, s, outcome)
      PROVE  builds' \in [Tasks -> Build \cup {Idle}]
  <2>1. \A b \in Tasks : builds'[b] \in Build \cup {Idle}
    BY <1>4, Delivered DEF TypeOK
  <2>2. QED
    BY <1>4, <2>1 DEF Deliver
<1>5. ASSUME NEW t \in Tasks, NEW s \in Sources, ReadSettles(t, s)
      PROVE  TypeOK'
  <2> DEFINE fetch == fetches[<<t, s>>]
  <2>1. PICK v \in fetch.since .. version[s] :
          /\ Deliver(t, s, [v |-> v, age |-> fetch.age])
          /\ own' = [k \in Gens \X Arrs |->
               IF k = <<fetch.gen, s>>
                 THEN Guarded(own[k], t, [value |-> [v |-> v, age |-> fetch.age], left |-> own[k].left])
                 ELSE own[k]]
    BY <1>5 DEF ReadSettles
  <2>2. fetch \in Fetch /\ version[s] \in Nat
    BY <1>5, Entries DEF ReadSettles
  <2>3. [v |-> v, age |-> fetch.age] \in Reading
    BY <2>2, FetchFields DEF Reading
  <2>4. builds' \in [Tasks -> Build \cup {Idle}]
    BY <1>4, <2>1, <2>3 DEF Outcomes
  <2>5. \A k \in Gens \X Arrs :
          Guarded(own[k], t, [value |-> [v |-> v, age |-> fetch.age], left |-> own[k].left])
            \in OwnEntry \cup {NoEntry}
    <3> TAKE k \in Gens \X Arrs
    <3>1. own[k] \in OwnEntry \cup {NoEntry}
      BY DEF TypeOK
    <3>2. QED
      BY <2>3, <3>1, OwnFields, OwnMade DEF Guarded
  <2>6. own' \in [Gens \X Arrs -> OwnEntry \cup {NoEntry}]
    BY <2>1, <2>5 DEF TypeOK
  <2>7. QED
    BY <1>5, <2>4, <2>6 DEF ReadSettles, TypeOK
<1>6. ASSUME NEW t \in Tasks, NEW s \in Sources, ReadFails(t, s)
      PROVE  TypeOK'
  <2>1. builds' \in [Tasks -> Build \cup {Idle}]
    BY <1>4, <1>6 DEF ReadFails, Outcomes
  <2>2. own' \in [Gens \X Arrs -> OwnEntry \cup {NoEntry}]
    BY <1>6 DEF ReadFails, Guarded, TypeOK
  <2>3. QED
    BY <1>6, <2>1, <2>2 DEF ReadFails, TypeOK
<1>7. ASSUME NEW t \in Tasks, BuildSettles(t)
      PROVE  TypeOK'
  <2> DEFINE entry == [value |-> builds[t].got, left |-> Worth(builds[t].got)]
  <2>1. builds[t].got \in Snapshot
    BY <1>7, GatheredWhole DEF BuildSettles
  <2>2. Worth(builds[t].got) \in Nat
    BY TimesAssumption DEF Worth
  <2>3. entry \in JointEntry
    BY <2>1, <2>2, JointMade
  <2>4. joint' = [joint EXCEPT ![<<builds[t].gen, builds[t].key>>] = Guarded(@, t, entry)]
    BY <1>7 DEF BuildSettles
  <2> HIDE DEF entry
  <2>5. joint' \in [Gens \X Keys -> JointEntry \cup {NoEntry}]
    BY <2>3, <2>4 DEF TypeOK, Guarded
  <2>6. QED
    BY <1>7, <2>5 DEF BuildSettles, TypeOK
<1>8. ASSUME NEW t \in Tasks, BuildThrows(t)
      PROVE  TypeOK'
  BY <1>8 DEF BuildThrows, Guarded, TypeOK
<1>9. ASSUME NEW w \in Writers, WriteReturns(w)
      PROVE  TypeOK'
  <2>1. writes[w] \in Write
    BY <1>9 DEF WriteReturns, TypeOK
  <2>2. writes[w].landed \in Nat
    BY <2>1, WriteFields
  <2>3. acked' \in [Gens \X Sources -> Nat]
    BY <1>9, <2>2 DEF WriteReturns, TypeOK
  <2>4. epoch' \in [Gens -> Nat]
    <3>1. writes[w].gen \in Gens
      BY <2>1, WriteFields
    <3>2. epoch[writes[w].gen] + 1 \in Nat
      BY <3>1, Entries
    <3>3. epoch' = [epoch EXCEPT ![writes[w].gen] = epoch[writes[w].gen] + 1]
      BY <1>9 DEF WriteReturns
    <3>4. QED
      BY <3>2, <3>3 DEF TypeOK
  <2>5. /\ joint' \in [Gens \X Keys -> JointEntry \cup {NoEntry}]
        /\ own' \in [Gens \X Arrs -> OwnEntry \cup {NoEntry}]
    BY <1>9 DEF WriteReturns, invalidate, TypeOK
  <2>6. QED
    BY <1>9, <2>3, <2>4, <2>5 DEF WriteReturns, taskVars, TypeOK
<1>10. ASSUME Tick
       PROVE  TypeOK'
  <2>1. Ages
    BY <1>10, TickAges
  <2>2. fetches' \in [Tasks \X Sources -> Fetch \cup {Idle}]
    <3>1. \A f \in Tasks \X Sources :
            (IF fetches[f] = Idle THEN Idle ELSE [fetches[f] EXCEPT !.age = @ + 1]) \in Fetch \cup {Idle}
      <4> TAKE f \in Tasks \X Sources
      <4>1. fetches[f] \in Fetch \cup {Idle}
        BY DEF TypeOK
      <4>2. QED
        BY <4>1, LongerFields DEF Longer
    <3>2. QED
      BY <1>10, <3>1 DEF Tick
  <2>3. builds' \in [Tasks -> Build \cup {Idle}]
    <3>1. \A t \in Tasks :
            (IF builds[t] = Idle THEN Idle
             ELSE [builds[t] EXCEPT !.got = OlderSnapshot(@), !.age = @ + 1]) \in Build \cup {Idle}
      <4> TAKE t \in Tasks
      <4>1. builds[t] \in Build \cup {Idle}
        BY DEF TypeOK
      <4>2. QED
        BY <4>1, RiperFields DEF Riper
    <3>2. QED
      BY <1>10, <3>1 DEF Tick
  <2>4. own' \in [Gens \X Arrs -> OwnEntry \cup {NoEntry}]
    <3>1. \A k \in Gens \X Arrs :
            (IF own[k] = NoEntry THEN NoEntry ELSE Shorter(own[k], Older(own[k].value)))
              \in OwnEntry \cup {NoEntry}
      <4> TAKE k \in Gens \X Arrs
      <4>1. own[k] \in OwnEntry \cup {NoEntry}
        BY DEF TypeOK
      <4>2. QED
        BY <4>1, ShorterOwn
    <3>2. QED
      BY <1>10, <3>1 DEF Tick
  <2>5. joint' \in [Gens \X Keys -> JointEntry \cup {NoEntry}]
    <3>1. \A k \in Gens \X Keys :
            (IF joint[k] = NoEntry THEN NoEntry ELSE Shorter(joint[k], OlderSnapshot(joint[k].value)))
              \in JointEntry \cup {NoEntry}
      <4> TAKE k \in Gens \X Keys
      <4>1. joint[k] \in JointEntry \cup {NoEntry}
        BY DEF TypeOK
      <4>2. QED
        BY <4>1, ShorterJoint
    <3>2. QED
      BY <1>10, <3>1 DEF Tick
  <2>6. QED
    BY <2>1, <2>2, <2>3, <2>4, <2>5 DEF Ages, TypeOK
<1>11. ASSUME \/ \E w \in Writers : \/ \E s \in Sources : CallWrite(w, s)
                                    \/ StartWrite(w) \/ WriteLands(w) \/ WriteFails(w)
              \/ \E s \in Sources : Drift(s)
              \/ Reload
              \/ UNCHANGED vars
       PROVE  TypeOK'
  <2>1. /\ Elsewhere /\ version' \in [Sources -> Nat] /\ gen' \in Gens
        /\ writes' \in [Writers -> Write \cup {Idle}]
    BY <1>11, ElsewhereSteps, Zenon
  <2>2. QED
    BY <2>1 DEF Elsewhere, TypeOK
<1>12. QED
  BY <1>2, <1>3, <1>5, <1>6, <1>7, <1>8, <1>9, <1>10, <1>11, Zenon DEF Next

-----------------------------------------------------------------------------
(* What is cached or awaited is not older than the writes reported.        *)

VersionInv ==
  /\ \A g \in Gens, s \in Sources : acked[<<g, s>>] <= version[s]
  /\ \A w \in Writers : writes[w] # Idle => writes[w].landed <= version[writes[w].source]

(* A promise in the cache of an adapter of loader g is that of a read in   *)
(* progress, and nothing there is older than the writes reported to loader *)
(* `past`.                                                                 *)
OwnSound(g, s, past) ==
  own[<<g, s>>] # NoEntry =>
    /\ own[<<g, s>>].value \in Tasks => fetches[<<own[<<g, s>>].value, s>>].gen = g
    /\ NoOlder(own[<<g, s>>].value, s, acked[<<past, s>>])

OwnInv == \A g \in Gens, s \in Arrs : OwnSound(g, s, g)

\* So is what a build waits for.
BuildInv ==
  \A b \in Tasks, s \in Sources :
    builds[b] # Idle /\ builds[b].got[s] \in Tasks => fetches[<<builds[b].got[s], s>>] # Idle

\* A promise in the cache of the loader is that of a build for that entry.
JointSound(g, k, past) ==
  joint[<<g, k>>] # NoEntry =>
    IF joint[<<g, k>>].value \in Tasks
      THEN /\ builds[joint[<<g, k>>].value] # Idle
           /\ builds[joint[<<g, k>>].value].gen = g /\ builds[joint[<<g, k>>].value].key = k
           /\ \A s \in Sources : NoOlder(builds[joint[<<g, k>>].value].got[s], s, acked[<<past, s>>])
      ELSE \A s \in Sources : NoOlder(joint[<<g, k>>].value[s], s, acked[<<past, s>>])

JointInv == \A g \in Gens, k \in Keys : JointSound(g, k, g)

\* A write reported to loader `past` leaves nothing in the caches of loader g.
Empties(g, past) ==
  \A w \in Writers : Reports(w) /\ writes[w].gen = past =>
    /\ \A s \in Arrs : own'[<<g, s>>] = NoEntry
    /\ \A k \in Keys : joint'[<<g, k>>] = NoEntry

LEMMA VersionStep == TypeOK /\ VersionInv /\ [Next]_vars => VersionInv'
<1> SUFFICES ASSUME TypeOK, VersionInv, [Next]_vars PROVE VersionInv'
  OBVIOUS
<1>1. ASSUME UNCHANGED <<version, writes, acked>>
      PROVE  VersionInv'
  BY <1>1 DEF VersionInv
<1>2. ASSUME NEW w \in Writers, Reports(w)
      PROVE  VersionInv'
  <2>1. writes[w].landed <= version[writes[w].source]
    BY <1>2, WriteFields DEF VersionInv, Reports
  <2>2. \A g \in Gens, s \in Sources : acked'[<<g, s>>] <= version[s]
    BY <1>2, <2>1 DEF Reports, VersionInv
  <2>3. \A v \in Writers : writes'[v] # Idle => writes'[v].landed <= version[writes'[v].source]
    BY <1>2 DEF Reports, VersionInv
  <2>4. QED
    BY <1>2, <2>2, <2>3 DEF Reports, VersionInv
<1>3. ASSUME Elsewhere
      PROVE  VersionInv'
  <2>1. TypeOK'
    BY TypeStep
  <2>2. \A g \in Gens, s \in Sources : acked'[<<g, s>>] <= version'[s]
    <3> TAKE g \in Gens, s \in Sources
    <3>1. acked[<<g, s>>] \in Nat /\ version[s] \in Nat /\ version'[s] \in Nat
      BY <2>1, Entries DEF TypeOK
    <3>2. QED
      BY <1>3, <3>1 DEF Elsewhere, VersionInv
  <2>3. \A w \in Writers : writes'[w] # Idle => writes'[w].landed <= version'[writes'[w].source]
    <3> SUFFICES ASSUME NEW w \in Writers, writes'[w] # Idle
                 PROVE  writes'[w].landed <= version'[writes'[w].source]
      OBVIOUS
    <3>1. writes'[w] \in Write
      BY <2>1 DEF TypeOK
    <3>2. writes'[w].source \in Sources /\ writes'[w].landed \in Nat
      BY <3>1, WriteFields
    <3>3. version[writes'[w].source] \in Nat /\ version'[writes'[w].source] \in Nat
      BY <2>1, <3>2 DEF TypeOK
    <3>4. version[writes'[w].source] <= version'[writes'[w].source]
      BY <1>3, <3>2 DEF Elsewhere
    <3>5. writes[w] # Idle /\ writes'[w].source = writes[w].source /\ writes'[w].landed = writes[w].landed
            => writes'[w].landed <= version[writes'[w].source]
      BY DEF VersionInv
    <3>6. QED
      BY <1>3, <3>2, <3>3, <3>4, <3>5 DEF Elsewhere
  <2>4. QED
    BY <2>2, <2>3 DEF VersionInv
<1>4. ASSUME NEW t \in Tasks, NEW s \in Sources, NEW outcome, ReadEnds(t, s, outcome)
      PROVE  UNCHANGED <<version, writes, acked>>
  BY <1>4 DEF ReadEnds
<1>5. ASSUME NEW t \in Tasks, BuildEnds(t)
      PROVE  UNCHANGED <<version, writes, acked>>
  BY <1>5 DEF BuildEnds
<1>6. ASSUME NEW t \in Tasks, NEW g \in Gens, NEW asked, Asks(t, g, asked)
      PROVE  UNCHANGED <<version, writes, acked>>
  BY <1>6 DEF Asks
<1>7. ASSUME Ages
      PROVE  UNCHANGED <<version, writes, acked>>
  BY <1>7 DEF Ages
<1>8. QED
  BY <1>1, <1>2, <1>3, <1>4, <1>5, <1>6, <1>7, Steps, BuildsAsks, Zenon

LEMMA NoOlderKept ==
  ASSUME NEW p \in Promise, NEW s \in Sources, NEW floor, NoOlder(p, s, floor),
         p \in Tasks => fetches'[<<p, s>>] # Idle /\ fetches'[<<p, s>>].since = fetches[<<p, s>>].since
  PROVE  NoOlder(p, s, floor)'
BY DEF NoOlder

LEMMA OwnSoundStep ==
  ASSUME TypeOK, VersionInv, [Next]_vars, NEW g \in Gens, NEW s \in Arrs, NEW past \in Gens,
         OwnSound(g, s, past), Empties(g, past)
  PROVE  OwnSound(g, s, past)'
<1> SUFFICES ASSUME own'[<<g, s>>] # NoEntry
             PROVE  /\ own'[<<g, s>>].value \in Tasks => fetches'[<<own'[<<g, s>>].value, s>>].gen = g
                    /\ NoOlder(own[<<g, s>>].value, s, acked[<<past, s>>])'
  BY DEF OwnSound
<1> DEFINE Good == /\ own'[<<g, s>>].value \in Tasks => fetches'[<<own'[<<g, s>>].value, s>>].gen = g
                   /\ NoOlder(own[<<g, s>>].value, s, acked[<<past, s>>])'
<1>s. s \in Sources
  BY DEF Sources
<1>1. ASSUME own'[<<g, s>>] = own[<<g, s>>], acked'[<<past, s>>] = acked[<<past, s>>],
             own[<<g, s>>].value \in Tasks =>
               fetches'[<<own[<<g, s>>].value, s>>] = fetches[<<own[<<g, s>>].value, s>>]
      PROVE  Good
  BY <1>1 DEF OwnSound, NoOlder
<1>2. ASSUME NEW t \in Tasks, NEW h \in Gens, NEW asked \in SUBSET Sources, Asks(t, h, asked)
      PROVE  Good
  <2>1. CASE g = h /\ s \in asked
    <3>1. own'[<<g, s>>].value = t /\ fetches'[<<t, s>>] \in Fetch
          /\ fetches'[<<t, s>>].gen = g /\ fetches'[<<t, s>>].since = version[s]
          /\ acked'[<<past, s>>] = acked[<<past, s>>]
      BY <1>2, <2>1 DEF Asks
    <3>2. acked[<<past, s>>] <= version[s] /\ fetches'[<<t, s>>] # Idle
      BY <1>s, <3>1, FetchFields DEF VersionInv
    <3>3. QED
      BY <3>1, <3>2, Entries, <1>s DEF NoOlder
  <2>2. CASE g # h \/ s \notin asked
    <3>1. own'[<<g, s>>] = own[<<g, s>>] /\ acked' = acked
      BY <1>2, <2>2 DEF Asks
    <3>2. own[<<g, s>>].value \in Tasks => fetches[<<own[<<g, s>>].value, s>>] # Idle
      BY <3>1 DEF OwnSound, NoOlder
    <3>3. own[<<g, s>>].value \in Tasks =>
            fetches'[<<own[<<g, s>>].value, s>>] = fetches[<<own[<<g, s>>].value, s>>]
      BY <1>s, <1>2, <3>2 DEF Asks
    <3>4. QED
      BY <1>1, <3>1, <3>3
  <2>3. QED
    BY <2>1, <2>2
<1>3. ASSUME NEW t \in Tasks, NEW r \in Sources, NEW outcome \in Outcomes, ReadEnds(t, r, outcome)
      PROVE  Good
  <2>1. CASE s = r /\ g = fetches[<<t, r>>].gen /\ Promised(own[<<g, s>>], t)
    <3>1. /\ outcome \in Reading /\ own'[<<g, s>>].value = outcome
          /\ fetches[<<t, s>>].since <= outcome.v
          /\ acked'[<<past, s>>] = acked[<<past, s>>] /\ fetches[<<t, s>>] \in Fetch
      BY <1>3, <2>1, NamesAssumption DEF ReadEnds
    <3>2. fetches[<<t, s>>].since >= acked[<<past, s>>]
      BY <2>1 DEF OwnSound, NoOlder, Promised
    <3>3. outcome.v >= acked[<<past, s>>]
      BY <1>s, <3>1, <3>2, Entries, FetchFields, ReadingFields
    <3>4. QED
      BY <3>1, <3>3, ReadingFields DEF NoOlder
  <2>2. CASE ~(s = r /\ g = fetches[<<t, r>>].gen /\ Promised(own[<<g, s>>], t))
    <3>1. own'[<<g, s>>] = own[<<g, s>>] /\ acked' = acked
      BY <1>3, <2>2 DEF ReadEnds
    <3>2. own[<<g, s>>].value \in Tasks => own[<<g, s>>].value # t \/ s # r
      BY <2>2, <3>1 DEF OwnSound, Promised
    <3>3. own[<<g, s>>].value \in Tasks =>
            fetches'[<<own[<<g, s>>].value, s>>] = fetches[<<own[<<g, s>>].value, s>>]
      BY <1>s, <1>3, <3>2 DEF ReadEnds
    <3>4. QED
      BY <1>1, <3>1, <3>3
  <2>3. QED
    BY <2>1, <2>2
<1>4. ASSUME NEW w \in Writers, Reports(w)
      PROVE  Good
  <2>1. writes[w].gen # past
    BY <1>4 DEF Empties
  <2>2. own'[<<g, s>>] = own[<<g, s>>] /\ fetches' = fetches
    BY <1>4 DEF Reports
  <2>3. acked'[<<past, s>>] = acked[<<past, s>>]
    BY <1>s, <1>4, <2>1 DEF Reports
  <2>4. QED
    BY <1>1, <2>2, <2>3
<1>5. ASSUME Ages
      PROVE  Good
  <2>1. /\ own[<<g, s>>] \in OwnEntry /\ own'[<<g, s>>].value = Older(own[<<g, s>>].value)
        /\ acked' = acked
    BY <1>5, Entries DEF Ages
  <2> DEFINE p == own[<<g, s>>].value
  <2>2. p \in Tasks \cup Reading
    BY <2>1, OwnFields
  <2>3. CASE p \in Tasks
    <3>1. own'[<<g, s>>].value = p
      BY <2>1, <2>3, OlderType DEF Promise
    <3>2. fetches[<<p, s>>] # Idle /\ fetches[<<p, s>>].gen = g /\ fetches[<<p, s>>].since >= acked[<<past, s>>]
      BY <2>1, <2>3, OwnFields DEF OwnSound, NoOlder
    <3>3. /\ fetches'[<<p, s>>] \in Fetch /\ fetches'[<<p, s>>].gen = g
          /\ fetches'[<<p, s>>].since = fetches[<<p, s>>].since
      BY <1>s, <1>5, <2>3, <3>2 DEF Ages
    <3>4. QED
      BY <2>1, <2>3, <3>1, <3>2, <3>3, FetchFields DEF NoOlder
  <2>4. CASE p \in Reading
    <3>1. /\ own'[<<g, s>>].value \in Reading /\ own'[<<g, s>>].value.v = p.v
      BY <2>1, <2>4, OlderType DEF Promise
    <3>2. p.v >= acked[<<past, s>>]
      BY <2>1, <2>4, OwnFields, ReadingFields DEF OwnSound, NoOlder
    <3>3. QED
      BY <2>1, <3>1, <3>2, ReadingFields DEF NoOlder
  <2>5. QED
    BY <2>2, <2>3, <2>4
<1>6. ASSUME UNCHANGED <<own, fetches, acked>>
      PROVE  Good
  BY <1>1, <1>6
<1>7. ASSUME NEW t \in Tasks, BuildEnds(t)
      PROVE  UNCHANGED <<own, fetches, acked>>
  BY <1>7 DEF BuildEnds
<1>8. ASSUME Elsewhere
      PROVE  UNCHANGED <<own, fetches, acked>>
  BY <1>8 DEF Elsewhere
<1>9. Good
  <2> HIDE DEF Good
  <2>1. QED
    BY <1>2, <1>3, <1>4, <1>5, <1>6, <1>7, <1>8, Steps, BuildsAsks, Zenon
<1>10. QED
  BY <1>9

\* A write empties the caches of the loader it ran on.
LEMMA EmptiesItsOwn ==
  ASSUME NEW g \in Gens
  PROVE  Empties(g, g)
BY DEF Empties, Reports

LEMMA OwnStep == TypeOK /\ VersionInv /\ OwnInv /\ [Next]_vars => OwnInv'
<1> SUFFICES ASSUME TypeOK, VersionInv, OwnInv, [Next]_vars, NEW g \in Gens, NEW s \in Arrs
             PROVE  OwnSound(g, s, g)'
  BY DEF OwnInv
<1>1. OwnSound(g, s, g)
  BY DEF OwnInv
<1>2. QED
  BY <1>1, EmptiesItsOwn, OwnSoundStep

LEMMA OwnPending ==
  ASSUME OwnInv, NEW g \in Gens, NEW s \in Arrs, Live(own[<<g, s>>]), own[<<g, s>>].value \in Tasks
  PROVE  fetches[<<own[<<g, s>>].value, s>>] # Idle
BY DEF OwnInv, OwnSound, NoOlder, Live

\* What is awaited already is not touched when task t begins to ask.
LEMMA AsksKeeps ==
  ASSUME NEW t \in Tasks, NEW g \in Gens, NEW asked \in SUBSET Sources, Asks(t, g, asked),
         NEW u \in Tasks, NEW s \in Sources, fetches[<<u, s>>] # Idle
  PROVE  u # t /\ fetches'[<<u, s>>] = fetches[<<u, s>>]
BY DEF Asks

LEMMA BuildStep == TypeOK /\ OwnInv /\ BuildInv /\ [Next]_vars => BuildInv'
<1> SUFFICES ASSUME TypeOK, OwnInv, BuildInv, [Next]_vars,
                    NEW b \in Tasks, NEW s \in Sources,
                    builds'[b] # Idle, builds'[b].got[s] \in Tasks
             PROVE  fetches'[<<builds'[b].got[s], s>>] # Idle
  BY DEF BuildInv
<1> DEFINE Good == fetches'[<<builds'[b].got[s], s>>] # Idle
<1>1. ASSUME builds'[b] = builds[b], fetches' = fetches
      PROVE  Good
  BY <1>1 DEF BuildInv
<1>2. ASSUME NEW t \in Tasks, NEW g \in Gens, NEW asked \in SUBSET Sources, Asks(t, g, asked),
             builds'[b] = builds[b]
      PROVE  Good
  BY <1>2, AsksKeeps DEF BuildInv
<1>3. ASSUME NEW t \in Tasks, NEW g \in Gens, NEW key \in Keys, NEW asked \in SUBSET Sources,
             Builds(t, g, key, asked)
      PROVE  Good
  <2>1. Asks(t, g, asked)
    BY <1>3, BuildsAsks
  <2>2. CASE b # t
    BY <1>2, <1>3, <2>1, <2>2 DEF Builds
  <2>3. CASE b = t /\ s \in asked
    <3>1. builds'[b].got[s] = t \/ builds'[b].got[s] = Degraded \/ s \notin asked
      BY <1>3, <2>3 DEF Builds
    <3>2. builds'[b].got[s] = t /\ fetches'[<<t, s>>] \in Fetch
      BY <2>1, <2>3, <3>1, NamesAssumption DEF Asks
    <3>3. QED
      BY <3>2, FetchFields
  <2>4. CASE b = t /\ s \notin asked
    <3>1. s \in Arrs /\ Live(own[<<g, s>>]) /\ builds'[b].got[s] = own[<<g, s>>].value
      BY <1>3, <2>4, NamesAssumption DEF Builds
    <3>2. fetches[<<own[<<g, s>>].value, s>>] # Idle
      BY <3>1, OwnPending
    <3>3. QED
      BY <2>1, <3>1, <3>2, AsksKeeps
  <2>5. QED
    BY <2>2, <2>3, <2>4
<1>4. ASSUME NEW t \in Tasks, NEW r \in Sources, NEW outcome \in Outcomes, ReadEnds(t, r, outcome)
      PROVE  Good
  <2>1. CASE Awaits(b, t, r)
    <3>1. outcome \notin Tasks
      BY NamesAssumption DEF Outcomes
    <3>2. s # r /\ builds'[b].got[s] = builds[b].got[s]
      BY <1>4, <2>1, <3>1 DEF ReadEnds
    <3>3. fetches[<<builds[b].got[s], s>>] # Idle
      BY <2>1, <3>2 DEF BuildInv, Awaits
    <3>4. QED
      BY <1>4, <3>2, <3>3 DEF ReadEnds
  <2>2. CASE ~Awaits(b, t, r)
    <3>1. builds'[b] = builds[b]
      BY <1>4, <2>2 DEF ReadEnds
    <3>2. builds[b].got[s] # t \/ s # r
      BY <2>2, <3>1 DEF Awaits
    <3>3. QED
      BY <1>4, <3>1, <3>2 DEF ReadEnds, BuildInv
  <2>3. QED
    BY <2>1, <2>2
<1>5. ASSUME NEW t \in Tasks, BuildEnds(t)
      PROVE  Good
  <2>1. b # t
    BY <1>5 DEF BuildEnds
  <2>2. builds'[b] = builds[b] /\ fetches' = fetches
    BY <1>5, <2>1 DEF BuildEnds
  <2>3. QED
    BY <1>1, <2>2
<1>6. ASSUME NEW w \in Writers, Reports(w)
      PROVE  Good
  BY <1>1, <1>6 DEF Reports
<1>7. ASSUME Ages
      PROVE  Good
  <2>1. builds[b] # Idle /\ builds'[b].got[s] = Older(builds[b].got[s])
    BY <1>7 DEF Ages
  <2>2. builds[b].got[s] \in Promise
    BY <2>1, Entries, BuildFields
  <2>3. builds[b].got[s] \in Tasks /\ builds'[b].got[s] = builds[b].got[s]
    BY <2>1, <2>2, OlderType, NamesAssumption DEF Promise
  <2>4. fetches[<<builds[b].got[s], s>>] # Idle
    BY <2>1, <2>3 DEF BuildInv
  <2>5. fetches'[<<builds[b].got[s], s>>] \in Fetch
    BY <1>7, <2>3, <2>4 DEF Ages
  <2>6. QED
    BY <2>3, <2>5, FetchFields
<1>8. ASSUME Elsewhere
      PROVE  Good
  BY <1>1, <1>8 DEF Elsewhere
<1>9. Good
  <2> HIDE DEF Good
  <2>1. ASSUME NEW t \in Tasks, NEW g \in Gens, NEW asked \in SUBSET Sources,
               Asks(t, g, asked), UNCHANGED <<joint, builds>>
        PROVE  Good
    BY <1>2, <2>1
  <2>2. QED
    BY <1>3, <1>4, <1>5, <1>6, <1>7, <1>8, <2>1, Steps, Zenon
<1>10. QED
  BY <1>9

\* A build of which nothing was heard since, waiting for reads that go on.
LEMMA JointKept ==
  ASSUME NEW g \in Gens, NEW k \in Keys, NEW past \in Gens, JointSound(g, k, past),
         joint'[<<g, k>>] = joint[<<g, k>>],
         joint[<<g, k>>] # NoEntry /\ joint[<<g, k>>].value \in Tasks =>
           builds'[joint[<<g, k>>].value] = builds[joint[<<g, k>>].value],
         \A u \in Tasks, s \in Sources :
           fetches[<<u, s>>] # Idle =>
             fetches'[<<u, s>>] # Idle /\ fetches'[<<u, s>>].since = fetches[<<u, s>>].since,
         \A s \in Sources : acked'[<<past, s>>] = acked[<<past, s>>]
  PROVE  JointSound(g, k, past)'
<1> SUFFICES ASSUME joint[<<g, k>>] # NoEntry PROVE JointSound(g, k, past)'
  BY DEF JointSound
<1> DEFINE p == joint[<<g, k>>].value
<1>1. CASE p \in Tasks
  <2>1. /\ builds[p] # Idle /\ builds[p].gen = g /\ builds[p].key = k
        /\ \A s \in Sources : NoOlder(builds[p].got[s], s, acked[<<past, s>>])
    BY <1>1 DEF JointSound
  <2>2. joint'[<<g, k>>].value = p /\ builds'[p] = builds[p]
    BY <1>1
  <2>3. ASSUME NEW s \in Sources
        PROVE  NoOlder(builds[joint[<<g, k>>].value].got[s], s, acked[<<past, s>>])'
    <3>1. NoOlder(builds[p].got[s], s, acked[<<past, s>>]) /\ acked'[<<past, s>>] = acked[<<past, s>>]
      BY <2>1
    <3>2. CASE builds[p].got[s] \in Tasks
      BY <2>2, <3>1, <3>2 DEF NoOlder
    <3>3. CASE builds[p].got[s] \notin Tasks
      BY <2>2, <3>1, <3>3 DEF NoOlder
    <3>4. QED
      BY <3>2, <3>3
  <2>4. QED
    BY <1>1, <2>1, <2>2, <2>3 DEF JointSound
<1>2. CASE p \notin Tasks
  <2>1. \A s \in Sources : NoOlder(p[s], s, acked[<<past, s>>])
    BY <1>2 DEF JointSound
  <2>2. \A s \in Sources : NoOlder(p[s], s, acked[<<past, s>>])'
    BY <2>1 DEF NoOlder
  <2>3. QED
    BY <1>2, <2>2 DEF JointSound
<1>3. QED
  BY <1>1, <1>2

LEMMA NoOlderAged ==
  ASSUME TypeOK, Ages, NEW p \in Promise, NEW s \in Sources, NEW floor, NoOlder(p, s, floor)
  PROVE  NoOlder(Older(p), s, floor)'
<1>1. CASE p \in Tasks
  <2>1. fetches[<<p, s>>] # Idle /\ fetches[<<p, s>>].since >= floor
    BY <1>1 DEF NoOlder
  <2>2. fetches'[<<p, s>>] \in Fetch /\ fetches'[<<p, s>>].since = fetches[<<p, s>>].since
    BY <1>1, <2>1 DEF Ages
  <2>3. Older(p) = p
    BY <1>1, OlderType
  <2>4. QED
    BY <1>1, <2>1, <2>2, <2>3, FetchFields DEF NoOlder
<1>2. CASE p \notin Tasks
  <2>1. p \in Reading \cup {Degraded}
    BY <1>2 DEF Promise
  <2>2. Older(p) \notin Tasks /\ (Older(p) # Degraded => p # Degraded /\ Older(p).v = p.v)
    BY <2>1, OlderType, ReadingFields, NamesAssumption
  <2>3. QED
    BY <1>2, <2>2 DEF NoOlder
<1>3. QED
  BY <1>1, <1>2

LEMMA JointSoundStep ==
  ASSUME TypeOK, VersionInv, OwnInv, [Next]_vars, NEW g \in Gens, NEW k \in Keys, NEW past \in Gens,
         \A s \in Arrs : OwnSound(g, s, past), JointSound(g, k, past), Empties(g, past)
  PROVE  JointSound(g, k, past)'
<1>0. JointSound(g, k, past)
  OBVIOUS
<1>1. ASSUME UNCHANGED <<joint, builds, fetches, acked>>
      PROVE  JointSound(g, k, past)'
  BY <1>0, <1>1, JointKept
<1>2. ASSUME NEW t \in Tasks, NEW h \in Gens, NEW asked \in SUBSET Sources, Asks(t, h, asked),
             joint'[<<g, k>>] = joint[<<g, k>>], \A b \in Tasks : b # t => builds'[b] = builds[b],
             builds[t] = Idle \/ builds' = builds
      PROVE  JointSound(g, k, past)'
  <2>1. \A u \in Tasks, s \in Sources :
          fetches[<<u, s>>] # Idle =>
            fetches'[<<u, s>>] # Idle /\ fetches'[<<u, s>>].since = fetches[<<u, s>>].since
    BY <1>2, AsksKeeps
  <2>2. joint[<<g, k>>] # NoEntry /\ joint[<<g, k>>].value \in Tasks =>
          builds'[joint[<<g, k>>].value] = builds[joint[<<g, k>>].value]
    BY <1>0, <1>2 DEF JointSound
  <2>3. acked' = acked
    BY <1>2 DEF Asks
  <2>4. QED
    BY <1>0, <1>2, <2>1, <2>2, <2>3, JointKept
<1>3. ASSUME NEW t \in Tasks, NEW h \in Gens, NEW key \in Keys, NEW asked \in SUBSET Sources,
             Builds(t, h, key, asked)
      PROVE  JointSound(g, k, past)'
  <2>1. Asks(t, h, asked) /\ acked' = acked
    BY <1>3, BuildsAsks DEF Asks
  <2>2. CASE g # h \/ k # key
    BY <1>2, <1>3, <2>1, <2>2 DEF Builds
  <2>3. CASE g = h /\ k = key
    <3>1. /\ joint'[<<g, k>>].value = t /\ builds'[t] \in Build
          /\ builds'[t].gen = g /\ builds'[t].key = k
      BY <1>3, <2>3 DEF Builds
    <3>2. ASSUME NEW s \in Sources
          PROVE  NoOlder(builds[t].got[s], s, acked[<<past, s>>])'
      <4>1. CASE s \in asked /\ builds'[t].got[s] = t
        <5>1. fetches'[<<t, s>>] \in Fetch /\ fetches'[<<t, s>>].since = version[s]
          BY <2>1, <4>1 DEF Asks
        <5>2. acked[<<past, s>>] <= version[s] /\ acked[<<past, s>>] \in Nat /\ version[s] \in Nat
          BY Entries DEF VersionInv
        <5>3. QED
          BY <2>1, <4>1, <5>1, <5>2, FetchFields DEF NoOlder
      <4>2. CASE s \in Arrs \ asked /\ Live(own[<<g, s>>]) /\ builds'[t].got[s] = own[<<g, s>>].value
        <5>1. NoOlder(own[<<g, s>>].value, s, acked[<<past, s>>])
          BY <4>2 DEF OwnSound, Live
        <5>2. own[<<g, s>>].value \in Tasks =>
                fetches'[<<own[<<g, s>>].value, s>>] = fetches[<<own[<<g, s>>].value, s>>]
          BY <2>1, <4>2, OwnPending, AsksKeeps
        <5>3. QED
          BY <2>1, <4>2, <5>1, <5>2 DEF NoOlder
      <4>3. CASE builds'[t].got[s] = Degraded
        BY <4>3, NamesAssumption DEF NoOlder
      <4>4. QED
        BY <1>3, <2>3, <4>1, <4>2, <4>3 DEF Builds
    <3>3. QED
      BY <3>1, <3>2, BuildFields DEF JointSound
  <2>4. QED
    BY <2>2, <2>3
<1>4. ASSUME NEW t \in Tasks, NEW r \in Sources, NEW outcome \in Outcomes, ReadEnds(t, r, outcome)
      PROVE  JointSound(g, k, past)'
  <2>1. joint' = joint /\ acked' = acked
    BY <1>4 DEF ReadEnds
  <2>2. CASE joint[<<g, k>>] = NoEntry
    BY <2>1, <2>2 DEF JointSound
  <2>3. CASE joint[<<g, k>>] # NoEntry /\ joint[<<g, k>>].value \notin Tasks
    <3>1. joint[<<g, k>>].value \in Snapshot
      BY <2>3, Entries, JointFields
    <3>2. \A s \in Sources : joint[<<g, k>>].value[s] \notin Tasks
      BY <3>1, SnapshotFields
    <3>3. \A s \in Sources : NoOlder(joint[<<g, k>>].value[s], s, acked[<<past, s>>])
      BY <1>0, <2>3 DEF JointSound
    <3>4. \A s \in Sources : NoOlder(joint[<<g, k>>].value[s], s, acked[<<past, s>>])'
      BY <2>1, <3>2, <3>3 DEF NoOlder
    <3>5. QED
      BY <2>1, <2>3, <3>4 DEF JointSound
  <2>4. CASE joint[<<g, k>>] # NoEntry /\ joint[<<g, k>>].value \in Tasks
    <3>0. PICK b : b = joint[<<g, k>>].value
      OBVIOUS
    <3>1. /\ b \in Tasks /\ builds[b] # Idle /\ builds[b].gen = g /\ builds[b].key = k
          /\ \A s \in Sources : NoOlder(builds[b].got[s], s, acked[<<past, s>>])
      BY <1>0, <2>4, <3>0 DEF JointSound
    <3>2. builds[b] \in Build
      BY <3>1, Entries
    <3>3. CASE Awaits(b, t, r)
      <4>1. /\ builds'[b] \in Build /\ builds'[b].gen = g /\ builds'[b].key = k
            /\ builds'[b].got[r] = outcome
            /\ \A s \in Sources : s # r => builds'[b].got[s] = builds[b].got[s]
        BY <1>4, <3>1, <3>3 DEF ReadEnds
      <4>2. NoOlder(builds[b].got[r], r, acked[<<past, r>>])'
        <5>1. CASE outcome = Degraded
          BY <4>1, <5>1, NamesAssumption DEF NoOlder
        <5>2. CASE outcome # Degraded
          <6>1. /\ outcome \in Reading /\ fetches[<<t, r>>] \in Fetch
                /\ fetches[<<t, r>>].since <= outcome.v
            BY <1>4, <5>2 DEF ReadEnds
          <6>2. acked[<<past, r>>] <= fetches[<<t, r>>].since
            BY <3>1, <3>3 DEF Awaits, NoOlder
          <6>3. acked[<<past, r>>] <= outcome.v
            BY <6>1, <6>2, FetchFields, ReadingFields, Entries
          <6>4. QED
            BY <2>1, <4>1, <6>1, <6>3, ReadingFields DEF NoOlder
        <5>3. QED
          BY <5>1, <5>2
      <4>3. ASSUME NEW s \in Sources, s # r
            PROVE  NoOlder(builds[b].got[s], s, acked[<<past, s>>])'
        <5>1. \A u \in Tasks : fetches'[<<u, s>>] = fetches[<<u, s>>]
          BY <1>4, <4>3 DEF ReadEnds
        <5>2. QED
          BY <2>1, <3>1, <4>1, <4>3, <5>1 DEF NoOlder
      <4>4. \A s \in Sources : NoOlder(builds[b].got[s], s, acked[<<past, s>>])'
        BY <4>2, <4>3
      <4>5. QED
        BY <2>1, <2>4, <3>0, <3>1, <4>1, <4>4, BuildFields DEF JointSound
    <3>4. CASE ~Awaits(b, t, r)
      <4>1. builds'[b] = builds[b]
        BY <1>4, <3>1, <3>4 DEF ReadEnds
      <4>2. \A u \in Tasks, s \in Sources : u # t \/ s # r => fetches'[<<u, s>>] = fetches[<<u, s>>]
        BY <1>4 DEF ReadEnds
      <4>3. \A s \in Sources : builds[b].got[s] # t \/ s # r
        BY <3>1, <3>4 DEF Awaits
      <4>4. \A s \in Sources : NoOlder(builds[b].got[s], s, acked[<<past, s>>])'
        BY <2>1, <3>1, <4>1, <4>2, <4>3 DEF NoOlder
      <4>5. QED
        BY <2>1, <2>4, <3>0, <3>1, <4>1, <4>4 DEF JointSound
    <3>5. QED
      BY <3>3, <3>4
  <2>5. QED
    BY <2>2, <2>3, <2>4
<1>5. ASSUME NEW t \in Tasks, BuildEnds(t)
      PROVE  JointSound(g, k, past)'
  <2>1. UNCHANGED <<fetches, acked>> /\ builds[t] \in Build /\ builds[t].got \in Snapshot
        /\ \A b \in Tasks : b # t => builds'[b] = builds[b]
    BY <1>5 DEF BuildEnds
  <2>2. CASE Promised(joint[<<g, k>>], t)
    <3>1. /\ g = builds[t].gen /\ k = builds[t].key
          /\ \A s \in Sources : NoOlder(builds[t].got[s], s, acked[<<past, s>>])
      BY <1>0, <2>2 DEF JointSound, Promised
    <3>2. \/ joint'[<<g, k>>] = NoEntry
          \/ joint'[<<g, k>>] \in JointEntry /\ joint'[<<g, k>>].value = builds[t].got
      BY <1>5, <2>2, <3>1 DEF BuildEnds
    <3>3. builds[t].got \notin Tasks /\ \A s \in Sources : builds[t].got[s] \notin Tasks
      BY <2>1, SnapshotFields
    <3>4. CASE joint'[<<g, k>>].value = builds[t].got
      <4>1. \A s \in Sources : NoOlder(joint[<<g, k>>].value[s], s, acked[<<past, s>>])'
        BY <2>1, <3>1, <3>3, <3>4 DEF NoOlder
      <4>2. QED
        BY <3>3, <3>4, <4>1 DEF JointSound
    <3>5. CASE joint'[<<g, k>>] = NoEntry
      BY <3>5 DEF JointSound
    <3>6. QED
      BY <3>2, <3>4, <3>5
  <2>3. CASE ~Promised(joint[<<g, k>>], t)
    <3>1. joint'[<<g, k>>] = joint[<<g, k>>]
      BY <1>5, <2>3 DEF BuildEnds
    <3>2. joint[<<g, k>>] # NoEntry /\ joint[<<g, k>>].value \in Tasks =>
            builds'[joint[<<g, k>>].value] = builds[joint[<<g, k>>].value]
      BY <2>1, <2>3 DEF Promised
    <3>3. QED
      BY <1>0, <2>1, <3>1, <3>2, JointKept
  <2>4. QED
    BY <2>2, <2>3
<1>6. ASSUME NEW w \in Writers, Reports(w)
      PROVE  JointSound(g, k, past)'
  <2>1. CASE joint'[<<g, k>>] = NoEntry
    BY <2>1 DEF JointSound
  <2>2. CASE joint'[<<g, k>>] # NoEntry
    <3>1. writes[w].gen # past
      BY <1>6, <2>2 DEF Empties
    <3>2. /\ joint'[<<g, k>>] = joint[<<g, k>>] /\ UNCHANGED <<builds, fetches>>
          /\ \A s \in Sources : acked'[<<past, s>>] = acked[<<past, s>>]
      BY <1>6, <2>2, <3>1 DEF Reports
    <3>3. QED
      BY <1>0, <3>2, JointKept
  <2>3. QED
    BY <2>1, <2>2
<1>7. ASSUME Ages
      PROVE  JointSound(g, k, past)'
  <2>1. acked' = acked
    BY <1>7 DEF Ages
  <2>2. CASE joint'[<<g, k>>] = NoEntry
    BY <2>2 DEF JointSound
  <2>3. CASE joint'[<<g, k>>] # NoEntry
    <3>0. PICK p : p = joint[<<g, k>>].value
      OBVIOUS
    <3>1. /\ joint[<<g, k>>] # NoEntry /\ p \in Tasks \cup Snapshot
          /\ joint'[<<g, k>>].value = OlderSnapshot(p)
      BY <1>7, <2>3, <3>0, Entries, JointFields DEF Ages
    <3>2. CASE p \in Tasks
      <4>1. /\ builds[p] # Idle /\ builds[p].gen = g /\ builds[p].key = k
            /\ \A s \in Sources : NoOlder(builds[p].got[s], s, acked[<<past, s>>])
        BY <1>0, <3>0, <3>1, <3>2 DEF JointSound
      <4>2. builds[p] \in Build /\ builds[p].got \in [Sources -> Promise]
        BY <3>2, <4>1, Entries, BuildFields
      <4>3. /\ builds'[p] \in Build /\ builds'[p].gen = g /\ builds'[p].key = k
            /\ \A s \in Sources : builds'[p].got[s] = Older(builds[p].got[s])
        BY <1>7, <3>2, <4>1 DEF Ages
      <4>4. joint'[<<g, k>>].value = p
        BY <3>1, <3>2 DEF OlderSnapshot
      <4>5. ASSUME NEW s \in Sources
            PROVE  NoOlder(builds[p].got[s], s, acked[<<past, s>>])'
        BY <1>7, <2>1, <4>1, <4>2, <4>3, NoOlderAged
      <4>6. QED
        BY <2>1, <3>2, <4>3, <4>4, <4>5, BuildFields DEF JointSound
    <3>3. CASE p \in Snapshot
      <4>1. p \notin Tasks /\ \A s \in Sources : p[s] \in Outcomes /\ p[s] \notin Tasks
        BY <3>3, SnapshotFields
      <4>2. \A s \in Sources : NoOlder(p[s], s, acked[<<past, s>>])
        BY <1>0, <3>0, <3>1, <4>1 DEF JointSound
      <4>3. p \in [Sources -> Promise]
        BY <3>3 DEF Snapshot, Promise
      <4>4. /\ OlderSnapshot(p) \in Snapshot
            /\ \A s \in Sources : OlderSnapshot(p)[s] = Older(p[s])
        BY <3>3, <4>3, OlderSnapshotType
      <4>5. ASSUME NEW s \in Sources
            PROVE  NoOlder(joint[<<g, k>>].value[s], s, acked[<<past, s>>])'
        BY <1>7, <2>1, <3>1, <4>2, <4>3, <4>4, NoOlderAged
      <4>6. OlderSnapshot(p) \notin Tasks
        BY <4>4, SnapshotFields
      <4>7. QED
        BY <3>1, <4>5, <4>6 DEF JointSound
    <3>4. QED
      BY <3>1, <3>2, <3>3
  <2>4. QED
    BY <2>2, <2>3
<1>8. ASSUME Elsewhere
      PROVE  JointSound(g, k, past)'
  BY <1>1, <1>8 DEF Elsewhere
<1>9. ASSUME NEW t \in Tasks, NEW h \in Gens, NEW asked \in SUBSET Sources,
             Asks(t, h, asked), UNCHANGED <<joint, builds>>
      PROVE  JointSound(g, k, past)'
  BY <1>2, <1>9
<1>10. QED
  BY <1>3, <1>4, <1>5, <1>6, <1>7, <1>8, <1>9, Steps, Zenon

LEMMA JointStep == TypeOK /\ VersionInv /\ OwnInv /\ JointInv /\ [Next]_vars => JointInv'
<1> SUFFICES ASSUME TypeOK, VersionInv, OwnInv, JointInv, [Next]_vars,
                    NEW g \in Gens, NEW k \in Keys
             PROVE  JointSound(g, k, g)'
  BY DEF JointInv
<1>1. JointSound(g, k, g) /\ \A s \in Arrs : OwnSound(g, s, g)
  BY DEF JointInv, OwnInv
<1>2. QED
  BY <1>1, EmptiesItsOwn, JointSoundStep

-----------------------------------------------------------------------------
(* A load in progress that no invalidation has overtaken is found by the   *)
(* next caller, for as long as its promise has a window in the cache.      *)

\* No read outlasts its timeout, or knows of an invalidation that is still to come.
FetchSound(u, s) ==
  fetches[<<u, s>>] # Idle =>
    /\ fetches[<<u, s>>].age <= Timeout
    /\ fetches[<<u, s>>].epoch <= epoch[fetches[<<u, s>>].gen]

FetchInv == \A u \in Tasks, s \in Sources : FetchSound(u, s)

CurrentFetch(u, s) ==
  /\ fetches[<<u, s>>] # Idle /\ fetches[<<u, s>>].age < TTL
  /\ fetches[<<u, s>>].epoch = epoch[fetches[<<u, s>>].gen]

OwnHolds(u, s) ==
  CurrentFetch(u, s) =>
    /\ Promised(own[<<fetches[<<u, s>>].gen, s>>], u)
    /\ own[<<fetches[<<u, s>>].gen, s>>].left + fetches[<<u, s>>].age >= TTL

OwnFlight == \A u \in Tasks, s \in Arrs : OwnHolds(u, s)

LEMMA FetchStep == TypeOK /\ FetchInv /\ [Next]_vars => FetchInv'
<1> SUFFICES ASSUME TypeOK, FetchInv, [Next]_vars, NEW u \in Tasks, NEW s \in Sources
             PROVE  FetchSound(u, s)'
  BY DEF FetchInv
<1>0. FetchSound(u, s)
  BY DEF FetchInv
<1>1. ASSUME fetches'[<<u, s>>] \in {fetches[<<u, s>>], Idle}, epoch' = epoch
      PROVE  FetchSound(u, s)'
  BY <1>0, <1>1 DEF FetchSound
<1>2. ASSUME NEW t \in Tasks, NEW g \in Gens, NEW asked \in SUBSET Sources, Asks(t, g, asked)
      PROVE  FetchSound(u, s)'
  <2>1. epoch' = epoch /\ epoch[g] \in Nat
    BY <1>2, Entries DEF Asks
  <2>2. CASE u = t /\ s \in asked
    <3>1. /\ fetches'[<<u, s>>].gen = g /\ fetches'[<<u, s>>].age = 0
          /\ fetches'[<<u, s>>].epoch = epoch[g]
      BY <1>2, <2>2 DEF Asks
    <3>2. QED
      BY <2>1, <3>1, TimesAssumption DEF FetchSound
  <2>3. CASE u # t \/ s \notin asked
    BY <1>1, <1>2, <2>1, <2>3 DEF Asks
  <2>4. QED
    BY <2>2, <2>3
<1>3. ASSUME NEW t \in Tasks, NEW r \in Sources, NEW outcome \in Outcomes, ReadEnds(t, r, outcome)
      PROVE  FetchSound(u, s)'
  BY <1>1, <1>3 DEF ReadEnds
<1>4. ASSUME NEW t \in Tasks, BuildEnds(t)
      PROVE  FetchSound(u, s)'
  BY <1>1, <1>4 DEF BuildEnds
<1>5. ASSUME NEW w \in Writers, Reports(w)
      PROVE  FetchSound(u, s)'
  <2> SUFFICES ASSUME fetches[<<u, s>>] # Idle PROVE FetchSound(u, s)'
    BY <1>5 DEF Reports, FetchSound
  <2>1. fetches[<<u, s>>] \in Fetch /\ fetches[<<u, s>>].gen \in Gens /\ fetches[<<u, s>>].epoch \in Nat
    BY Entries, FetchFields
  <2>2. /\ epoch[fetches[<<u, s>>].gen] \in Nat
        /\ epoch'[fetches[<<u, s>>].gen] \in {epoch[fetches[<<u, s>>].gen], epoch[fetches[<<u, s>>].gen] + 1}
    BY <1>5, <2>1, Entries DEF Reports
  <2>3. fetches' = fetches
    BY <1>5 DEF Reports
  <2>4. QED
    BY <1>0, <2>1, <2>2, <2>3 DEF FetchSound
<1>6. ASSUME Ages
      PROVE  FetchSound(u, s)'
  <2>1. CASE fetches[<<u, s>>] = Idle
    BY <1>1, <1>6, <2>1 DEF Ages
  <2>2. CASE fetches[<<u, s>>] # Idle
    <3>1. /\ fetches[<<u, s>>] \in Fetch /\ fetches[<<u, s>>].age < Timeout
          /\ fetches'[<<u, s>>].gen = fetches[<<u, s>>].gen
          /\ fetches'[<<u, s>>].epoch = fetches[<<u, s>>].epoch
          /\ fetches'[<<u, s>>].age = fetches[<<u, s>>].age + 1
          /\ epoch' = epoch
      BY <1>6, <2>2, Entries DEF Ages
    <3>2. fetches'[<<u, s>>].age <= Timeout
      BY <3>1, FetchFields, TimesAssumption
    <3>3. QED
      BY <1>0, <2>2, <3>1, <3>2 DEF FetchSound
  <2>3. QED
    BY <2>1, <2>2
<1>7. ASSUME Elsewhere
      PROVE  FetchSound(u, s)'
  BY <1>1, <1>7 DEF Elsewhere
<1>8. QED
  BY <1>2, <1>3, <1>4, <1>5, <1>6, <1>7, Steps, BuildsAsks, Zenon

LEMMA OwnFlightLive ==
  ASSUME TypeOK, OwnFlight, NEW u \in Tasks, NEW s \in Arrs, CurrentFetch(u, s)
  PROVE  Live(own[<<fetches[<<u, s>>].gen, s>>])
<1>1. s \in Sources
  BY DEF Sources
<1>2. /\ fetches[<<u, s>>] \in Fetch /\ fetches[<<u, s>>].gen \in Gens
      /\ fetches[<<u, s>>].age \in Nat /\ fetches[<<u, s>>].age < TTL
  BY <1>1, Entries, FetchFields DEF CurrentFetch
<1>3. /\ own[<<fetches[<<u, s>>].gen, s>>] # NoEntry
      /\ own[<<fetches[<<u, s>>].gen, s>>].left + fetches[<<u, s>>].age >= TTL
  BY DEF OwnFlight, OwnHolds, Promised
<1>4. own[<<fetches[<<u, s>>].gen, s>>].left \in Nat
  BY <1>2, <1>3, Entries, OwnFields
<1>5. QED
  BY <1>2, <1>3, <1>4, TimesAssumption DEF Live

LEMMA OwnFlightStep == TypeOK /\ FetchInv /\ OwnFlight /\ [Next]_vars => OwnFlight'
<1> SUFFICES ASSUME TypeOK, FetchInv, OwnFlight, [Next]_vars, NEW u \in Tasks, NEW s \in Arrs,
                    CurrentFetch(u, s)'
             PROVE  OwnHolds(u, s)'
  BY DEF OwnFlight, OwnHolds
<1>s. s \in Sources
  BY DEF Sources
<1>0. OwnHolds(u, s)
  BY DEF OwnFlight
<1>1. ASSUME fetches'[<<u, s>>] = fetches[<<u, s>>], CurrentFetch(u, s),
             own'[<<fetches[<<u, s>>].gen, s>>] = own[<<fetches[<<u, s>>].gen, s>>]
      PROVE  OwnHolds(u, s)'
  BY <1>0, <1>1 DEF OwnHolds, Promised
<1>2. ASSUME NEW t \in Tasks, NEW g \in Gens, NEW asked \in SUBSET Sources, Asks(t, g, asked)
      PROVE  OwnHolds(u, s)'
  <2>1. CASE u = t /\ s \in asked
    <3>1. /\ fetches'[<<u, s>>].gen = g /\ fetches'[<<u, s>>].age = 0
          /\ own'[<<g, s>>] \in OwnEntry
          /\ own'[<<g, s>>].value = t /\ own'[<<g, s>>].left = TTL
      BY <1>2, <2>1 DEF Asks
    <3>2. QED
      BY <2>1, <3>1, OwnFields, TimesAssumption DEF OwnHolds, Promised
  <2>2. CASE u # t \/ s \notin asked
    <3>1. fetches'[<<u, s>>] = fetches[<<u, s>>] /\ epoch' = epoch
      BY <1>s, <1>2, <2>2 DEF Asks
    <3>2. CurrentFetch(u, s)
      BY <3>1 DEF CurrentFetch
    <3>3. fetches[<<u, s>>].gen \in Gens
      BY <1>s, <3>2, Entries, FetchFields DEF CurrentFetch
    <3>4. fetches[<<u, s>>].gen # g \/ s \notin asked
      BY <1>2, <3>2, OwnFlightLive DEF Asks
    <3>5. QED
      BY <1>1, <1>2, <3>1, <3>2, <3>3, <3>4 DEF Asks
  <2>3. QED
    BY <2>1, <2>2
<1>3. ASSUME NEW t \in Tasks, NEW r \in Sources, NEW outcome \in Outcomes, ReadEnds(t, r, outcome)
      PROVE  OwnHolds(u, s)'
  <2>1. u # t \/ s # r
    BY <1>3 DEF ReadEnds, CurrentFetch
  <2>2. fetches'[<<u, s>>] = fetches[<<u, s>>] /\ epoch' = epoch
    BY <1>s, <1>3, <2>1 DEF ReadEnds
  <2>3. CurrentFetch(u, s)
    BY <2>2 DEF CurrentFetch
  <2>4. fetches[<<u, s>>].gen \in Gens
    BY <1>s, <2>3, Entries, FetchFields DEF CurrentFetch
  <2>5. own[<<fetches[<<u, s>>].gen, s>>].value = u
    BY <1>0, <2>3 DEF OwnHolds, Promised
  <2>6. own'[<<fetches[<<u, s>>].gen, s>>] = own[<<fetches[<<u, s>>].gen, s>>]
    BY <1>3, <2>1, <2>4, <2>5 DEF ReadEnds, Promised
  <2>7. QED
    BY <1>1, <2>2, <2>3, <2>6
<1>4. ASSUME UNCHANGED <<own, fetches, epoch>>
      PROVE  OwnHolds(u, s)'
  BY <1>1, <1>4 DEF CurrentFetch
<1>5. ASSUME NEW w \in Writers, Reports(w)
      PROVE  OwnHolds(u, s)'
  <2>1. fetches[<<u, s>>] # Idle /\ fetches' = fetches
    BY <1>5 DEF Reports, CurrentFetch
  <2>2. /\ fetches[<<u, s>>].gen \in Gens /\ fetches[<<u, s>>].epoch \in Nat
        /\ fetches[<<u, s>>].epoch <= epoch[fetches[<<u, s>>].gen]
        /\ epoch[fetches[<<u, s>>].gen] \in Nat
    BY <1>s, <2>1, Entries, FetchFields DEF FetchInv, FetchSound
  <2>3. fetches[<<u, s>>].epoch = epoch'[fetches[<<u, s>>].gen]
    BY <2>1 DEF CurrentFetch
  <2>4. fetches[<<u, s>>].gen # writes[w].gen
    BY <1>5, <2>2, <2>3 DEF Reports
  <2>5. CurrentFetch(u, s)
    BY <1>5, <2>1, <2>2, <2>3, <2>4 DEF Reports, CurrentFetch
  <2>6. QED
    BY <1>1, <1>5, <2>1, <2>2, <2>4, <2>5 DEF Reports
<1>6. ASSUME Ages
      PROVE  OwnHolds(u, s)'
  <2>1. fetches[<<u, s>>] # Idle /\ epoch' = epoch
    BY <1>s, <1>6 DEF Ages, CurrentFetch
  <2>2. /\ fetches[<<u, s>>] \in Fetch /\ fetches[<<u, s>>].age \in Nat
        /\ fetches'[<<u, s>>].gen = fetches[<<u, s>>].gen
        /\ fetches'[<<u, s>>].epoch = fetches[<<u, s>>].epoch
        /\ fetches'[<<u, s>>].age = fetches[<<u, s>>].age + 1
        /\ fetches[<<u, s>>].age + 1 < TTL
    BY <1>s, <1>6, <2>1, Entries, FetchFields DEF Ages, CurrentFetch
  <2>3. CurrentFetch(u, s)
    BY <2>1, <2>2, TimesAssumption DEF CurrentFetch
  <2> DEFINE g == fetches[<<u, s>>].gen
  <2>4. /\ g \in Gens /\ fetches[<<u, s>>].age \in Nat
        /\ own[<<g, s>>] # NoEntry /\ own[<<g, s>>].value = u
        /\ own[<<g, s>>].left + fetches[<<u, s>>].age >= TTL
    BY <1>0, <2>2, <2>3, FetchFields DEF OwnHolds, Promised
  <2>5. own[<<g, s>>].left \in Nat
    BY <2>4, Entries, OwnFields
  <2>6. own[<<g, s>>].left # 0
    BY <2>2, <2>4, <2>5, TimesAssumption
  <2>7. /\ own'[<<g, s>>] \in OwnEntry
        /\ own'[<<g, s>>].value = Older(u)
        /\ own'[<<g, s>>].left = own[<<g, s>>].left - 1
    BY <1>6, <2>4, <2>6 DEF Ages
  <2>8. Older(u) = u
    BY DEF Older
  <2>9. own'[<<g, s>>].left + fetches'[<<u, s>>].age >= TTL
    BY <2>2, <2>4, <2>5, <2>7, TimesAssumption
  <2>10. fetches'[<<u, s>>].gen = g
    BY <2>2
  <2>11. own'[<<fetches'[<<u, s>>].gen, s>>] = own'[<<g, s>>]
    BY <2>10
  <2>12. own'[<<g, s>>] # NoEntry
    BY <2>7, OwnFields
  <2>13. QED
    BY <2>7, <2>8, <2>9, <2>11, <2>12 DEF OwnHolds, Promised
<1>7. ASSUME NEW t \in Tasks, BuildEnds(t)
      PROVE  UNCHANGED <<own, fetches, epoch>>
  BY <1>7 DEF BuildEnds
<1>8. ASSUME Elsewhere
      PROVE  UNCHANGED <<own, fetches, epoch>>
  BY <1>8 DEF Elsewhere
<1>9. QED
  BY <1>2, <1>3, <1>4, <1>5, <1>6, <1>7, <1>8, Steps, BuildsAsks, Zenon

CurrentBuild(b) ==
  builds[b] # Idle /\ builds[b].age < TTL /\ builds[b].epoch = epoch[builds[b].gen]

JointHolds(b) ==
  LET entry == joint[<<builds[b].gen, builds[b].key>>] IN
  /\ Promised(entry, b)
  /\ entry.left + builds[b].age >= TTL

BuildSound(b) ==
  /\ builds[b] # Idle => builds[b].epoch <= epoch[builds[b].gen]
  /\ CurrentBuild(b) => JointHolds(b)

JointFlight == \A b \in Tasks : BuildSound(b)

LEMMA JointFlightLive ==
  ASSUME TypeOK, NEW b \in Tasks, CurrentBuild(b), JointHolds(b)
  PROVE  Live(joint[<<builds[b].gen, builds[b].key>>])
<1>1. /\ builds[b].gen \in Gens /\ builds[b].key \in Keys
      /\ builds[b].age \in Nat /\ builds[b].age < TTL
  BY Entries, BuildFields DEF CurrentBuild
<1>2. joint[<<builds[b].gen, builds[b].key>>] # NoEntry
  BY DEF JointHolds, Promised
<1>3. joint[<<builds[b].gen, builds[b].key>>].left \in Nat
  BY <1>1, <1>2, Entries, JointFields
<1>4. QED
  BY <1>1, <1>2, <1>3, TimesAssumption DEF JointHolds, Live

\* A build that goes on, and whose entry is left alone.
LEMMA BuildKept ==
  ASSUME NEW b \in Tasks, BuildSound(b), builds'[b] = builds[b],
         builds[b] # Idle =>
           /\ epoch'[builds[b].gen] = epoch[builds[b].gen]
           /\ joint'[<<builds[b].gen, builds[b].key>>] = joint[<<builds[b].gen, builds[b].key>>]
  PROVE  BuildSound(b)'
<1>1. CASE builds[b] = Idle
  BY <1>1 DEF BuildSound, CurrentBuild
<1>2. CASE builds[b] # Idle
  <2>1. CurrentBuild(b)' => CurrentBuild(b)
    BY <1>2 DEF CurrentBuild
  <2>2. JointHolds(b) => JointHolds(b)'
    BY <1>2 DEF JointHolds, Promised
  <2>3. QED
    BY <1>2, <2>1, <2>2 DEF BuildSound
<1>3. QED
  BY <1>1, <1>2

LEMMA JointFlightStep == TypeOK /\ JointFlight /\ [Next]_vars => JointFlight'
<1> SUFFICES ASSUME TypeOK, JointFlight, [Next]_vars, NEW b \in Tasks
             PROVE  BuildSound(b)'
  BY DEF JointFlight
<1>0. BuildSound(b)
  BY DEF JointFlight
<1>b. builds[b] # Idle =>
        /\ builds[b] \in Build /\ builds[b].gen \in Gens /\ builds[b].key \in Keys
        /\ builds[b].epoch \in Nat /\ builds[b].age \in Nat
  BY Entries, BuildFields
<1>1. ASSUME UNCHANGED <<joint, builds, epoch>>
      PROVE  BuildSound(b)'
  BY <1>0, <1>1, BuildKept
<1>2. ASSUME builds'[b] = builds[b], epoch' = epoch,
             builds[b] # Idle => joint'[<<builds[b].gen, builds[b].key>>] = joint[<<builds[b].gen, builds[b].key>>]
      PROVE  BuildSound(b)'
  BY <1>0, <1>2, BuildKept
<1>3. ASSUME NEW t \in Tasks, NEW g \in Gens, NEW key \in Keys, NEW asked \in SUBSET Sources,
             Builds(t, g, key, asked)
      PROVE  BuildSound(b)'
  <2>1. Asks(t, g, asked) /\ epoch' = epoch
    BY <1>3, BuildsAsks DEF Asks
  <2>2. CASE b # t
    <3>1. builds'[b] = builds[b]
      BY <1>3, <2>2 DEF Builds
    <3>2. ASSUME builds[b] # Idle, builds[b].gen # g \/ builds[b].key # key
          PROVE  joint'[<<builds[b].gen, builds[b].key>>] = joint[<<builds[b].gen, builds[b].key>>]
      BY <1>3, <1>b, <3>2 DEF Builds
    <3>3. ASSUME builds[b] # Idle, builds[b].gen = g, builds[b].key = key
          PROVE  ~CurrentBuild(b)
      BY <1>0, <1>3, <3>3, JointFlightLive DEF Builds, BuildSound
    <3>4. CASE CurrentBuild(b) \/ builds[b] = Idle
      BY <1>2, <2>1, <3>1, <3>2, <3>3, <3>4 DEF CurrentBuild
    <3>5. CASE ~CurrentBuild(b) /\ builds[b] # Idle
      BY <1>0, <2>1, <3>1, <3>5 DEF BuildSound, CurrentBuild
    <3>6. QED
      BY <3>4, <3>5
  <2>3. CASE b = t
    <3>1. /\ builds'[b] \in Build /\ builds'[b].gen = g /\ builds'[b].key = key
          /\ builds'[b].epoch = epoch[g] /\ epoch[g] \in Nat
          /\ joint'[<<g, key>>] \in JointEntry
          /\ joint'[<<g, key>>].value = b /\ joint'[<<g, key>>].left = TTL
          /\ builds'[b].age = 0
      BY <1>3, <2>3, Entries DEF Builds
    <3>2. joint'[<<g, key>>] # NoEntry
      BY <3>1, JointFields
    <3>3. JointHolds(b)'
      BY <3>1, <3>2, TimesAssumption DEF JointHolds, Promised
    <3>4. QED
      BY <2>1, <3>1, <3>3 DEF BuildSound
  <2>4. QED
    BY <2>2, <2>3
<1>4. ASSUME NEW t \in Tasks, NEW r \in Sources, NEW outcome \in Outcomes, ReadEnds(t, r, outcome)
      PROVE  BuildSound(b)'
  <2>1. joint' = joint /\ epoch' = epoch
    BY <1>4 DEF ReadEnds
  <2>2. CASE Awaits(b, t, r)
    <3>1. /\ builds[b] # Idle /\ builds'[b].gen = builds[b].gen /\ builds'[b].key = builds[b].key
          /\ builds'[b].epoch = builds[b].epoch /\ builds'[b].age = builds[b].age
      BY <1>4, <2>2 DEF ReadEnds, Awaits
    <3>2. JointHolds(b) => JointHolds(b)'
      BY <2>1, <3>1 DEF JointHolds, Promised
    <3>3. CurrentBuild(b)' => CurrentBuild(b)
      BY <2>1, <3>1 DEF CurrentBuild
    <3>4. QED
      BY <1>0, <2>1, <3>1, <3>2, <3>3 DEF BuildSound
  <2>3. CASE ~Awaits(b, t, r)
    BY <1>2, <1>4, <2>1, <2>3 DEF ReadEnds
  <2>4. QED
    BY <2>2, <2>3
<1>5. ASSUME NEW t \in Tasks, BuildEnds(t)
      PROVE  BuildSound(b)'
  <2>1. UNCHANGED <<fetches, epoch>>
    BY <1>5 DEF BuildEnds
  <2>2. CASE b = t
    BY <1>5, <2>2 DEF BuildEnds, BuildSound, CurrentBuild
  <2>3. CASE b # t
    <3>1. builds'[b] = builds[b]
      BY <1>5, <2>3 DEF BuildEnds
    <3>2. CASE CurrentBuild(b)
      <4>1. ~Promised(joint[<<builds[b].gen, builds[b].key>>], t)
        BY <1>0, <2>3, <3>2 DEF BuildSound, JointHolds, Promised
      <4>2. joint'[<<builds[b].gen, builds[b].key>>] = joint[<<builds[b].gen, builds[b].key>>]
        BY <1>5, <1>b, <3>2, <4>1 DEF BuildEnds, CurrentBuild
      <4>3. QED
        BY <1>0, <2>1, <3>1, <4>2, BuildKept
    <3>3. CASE ~CurrentBuild(b)
      BY <1>0, <2>1, <3>1, <3>3 DEF BuildSound, CurrentBuild
    <3>4. QED
      BY <3>2, <3>3
  <2>4. QED
    BY <2>2, <2>3
<1>6. ASSUME NEW w \in Writers, Reports(w)
      PROVE  BuildSound(b)'
  <2>1. UNCHANGED <<builds, fetches>>
    BY <1>6 DEF Reports
  <2>2. CASE builds[b] # Idle /\ builds[b].gen = writes[w].gen
    <3>1. builds[b].epoch < epoch'[builds[b].gen]
      BY <1>0, <1>6, <1>b, <2>2, Entries DEF Reports, BuildSound
    <3>2. epoch'[builds[b].gen] \in Nat
      BY <1>6, <1>b, <2>2, Entries DEF Reports
    <3>3. QED
      BY <1>b, <2>1, <2>2, <3>1, <3>2 DEF BuildSound, CurrentBuild
  <2>3. CASE builds[b] # Idle => builds[b].gen # writes[w].gen
    BY <1>0, <1>6, <1>b, <2>1, <2>3, BuildKept DEF Reports
  <2>4. QED
    BY <2>2, <2>3
<1>7. ASSUME Ages
      PROVE  BuildSound(b)'
  <2>1. epoch' = epoch
    BY <1>7 DEF Ages
  <2>2. CASE builds[b] = Idle
    BY <1>7, <2>2 DEF Ages, BuildSound, CurrentBuild
  <2>3. CASE builds[b] # Idle
    <3>0. PICK g, key : g = builds[b].gen /\ key = builds[b].key
      OBVIOUS
    <3>1. /\ builds'[b] \in Build /\ builds'[b].gen = g /\ builds'[b].key = key
          /\ builds'[b].epoch = builds[b].epoch /\ builds'[b].age = builds[b].age + 1
          /\ g \in Gens /\ key \in Keys /\ builds[b].age \in Nat
      BY <1>7, <1>b, <2>3, <3>0 DEF Ages
    <3>2. CurrentBuild(b)' => CurrentBuild(b) /\ builds[b].age + 1 < TTL
      BY <2>1, <2>3, <3>0, <3>1, TimesAssumption DEF CurrentBuild
    <3>3. ASSUME CurrentBuild(b)'
          PROVE  JointHolds(b)'
      <4>1. /\ joint[<<g, key>>] # NoEntry /\ joint[<<g, key>>].value = b
            /\ joint[<<g, key>>].left + builds[b].age >= TTL
            /\ builds[b].age + 1 < TTL
        BY <1>0, <3>0, <3>2, <3>3 DEF BuildSound, JointHolds, Promised
      <4>2. joint[<<g, key>>].left \in Nat
        BY <3>1, <4>1, Entries, JointFields
      <4>3. joint[<<g, key>>].left # 0
        BY <3>1, <4>1, <4>2, TimesAssumption
      <4>4. /\ joint'[<<g, key>>] \in JointEntry
            /\ joint'[<<g, key>>].value = OlderSnapshot(b)
            /\ joint'[<<g, key>>].left = joint[<<g, key>>].left - 1
        BY <1>7, <3>1, <4>1, <4>3 DEF Ages
      <4>5. OlderSnapshot(b) = b /\ joint'[<<g, key>>] # NoEntry
        BY <4>4, JointFields DEF OlderSnapshot
      <4>6. joint'[<<g, key>>].left + builds'[b].age >= TTL
        BY <3>1, <4>1, <4>2, <4>4, TimesAssumption
      <4>7. QED
        BY <3>1, <4>4, <4>5, <4>6 DEF JointHolds, Promised
    <3>4. QED
      BY <1>0, <2>1, <2>3, <3>0, <3>1, <3>2, <3>3 DEF BuildSound
  <2>4. QED
    BY <2>2, <2>3
<1>8. ASSUME Elsewhere
      PROVE  BuildSound(b)'
  BY <1>1, <1>8 DEF Elsewhere
<1>9. ASSUME NEW t \in Tasks, NEW g \in Gens, NEW asked \in SUBSET Sources,
             Asks(t, g, asked), UNCHANGED <<joint, builds>>
      PROVE  BuildSound(b)'
  BY <1>1, <1>9 DEF Asks
<1>10. QED
  BY <1>3, <1>4, <1>5, <1>6, <1>7, <1>8, <1>9, Steps, Zenon

\* Two builds for one entry, and two reads of one adapter, both within their
\* window, began between different invalidations.
BuildsApart(b1, b2) ==
  builds[b1] # Idle /\ builds[b2] # Idle /\ builds[b1].age < TTL /\ builds[b2].age < TTL
  /\ builds[b1].gen = builds[b2].gen /\ builds[b1].key = builds[b2].key
  => builds[b1].epoch # builds[b2].epoch

FetchesApart(t1, t2, s) ==
  fetches[<<t1, s>>] # Idle /\ fetches[<<t2, s>>] # Idle
  /\ fetches[<<t1, s>>].age < TTL /\ fetches[<<t2, s>>].age < TTL
  /\ fetches[<<t1, s>>].gen = fetches[<<t2, s>>].gen
  => fetches[<<t1, s>>].epoch # fetches[<<t2, s>>].epoch

LEMMA SingleFlightApart ==
  SingleFlight <=> /\ \A b1, b2 \in Tasks : b1 # b2 => BuildsApart(b1, b2)
                   /\ \A s \in Arrs : \A t1, t2 \in Tasks : t1 # t2 => FetchesApart(t1, t2, s)
BY DEF SingleFlight, BuildsApart, FetchesApart

LEMMA BuildsApartStep ==
  ASSUME TypeOK, JointFlight, [Next]_vars, NEW b1 \in Tasks, NEW b2 \in Tasks, b1 # b2,
         BuildsApart(b1, b2), BuildsApart(b2, b1)
  PROVE  BuildsApart(b1, b2)'
\* Only the start of a build could bring two together.
<1> DEFINE Same(b) == /\ builds[b] # Idle
                      /\ builds'[b].gen = builds[b].gen /\ builds'[b].key = builds[b].key
                      /\ builds'[b].epoch = builds[b].epoch
                      /\ builds'[b].age < TTL => builds[b].age < TTL
<1>1. ASSUME \A b \in Tasks : builds'[b] = Idle \/ Same(b)
      PROVE  BuildsApart(b1, b2)'
  BY <1>1 DEF BuildsApart
<1>2. ASSUME NEW t \in Tasks, NEW g \in Gens, NEW key \in Keys, NEW asked \in SUBSET Sources,
             Builds(t, g, key, asked)
      PROVE  BuildsApart(b1, b2)'
  <2>1. /\ builds'[t].gen = g /\ builds'[t].key = key /\ builds'[t].epoch = epoch[g]
        /\ ~Live(joint[<<g, key>>])
        /\ \A b \in Tasks : b # t => builds'[b] = builds[b]
    BY <1>2 DEF Builds
  <2>2. ASSUME NEW b \in Tasks, b # t, builds[b] # Idle, builds[b].age < TTL,
               builds[b].gen = g, builds[b].key = key
        PROVE  builds[b].epoch # epoch[g]
    BY <2>1, <2>2, JointFlightLive DEF JointFlight, BuildSound, CurrentBuild
  <2>3. CASE b1 = t
    BY <2>1, <2>2, <2>3 DEF BuildsApart
  <2>4. CASE b2 = t
    BY <2>1, <2>2, <2>4 DEF BuildsApart
  <2>5. CASE b1 # t /\ b2 # t
    BY <2>1, <2>5 DEF BuildsApart
  <2>6. QED
    BY <2>3, <2>4, <2>5
<1>3. ASSUME builds' = builds
      PROVE  BuildsApart(b1, b2)'
  BY <1>3 DEF BuildsApart
<1>4. ASSUME NEW t \in Tasks, NEW r \in Sources, NEW outcome \in Outcomes, ReadEnds(t, r, outcome)
      PROVE  BuildsApart(b1, b2)'
  <2>1. ASSUME NEW b \in Tasks
        PROVE  builds'[b] = Idle \/ Same(b)
    <3>1. CASE Awaits(b, t, r)
      BY <1>4, <3>1 DEF ReadEnds, Awaits
    <3>2. CASE ~Awaits(b, t, r)
      BY <1>4, <3>2 DEF ReadEnds
    <3>3. QED
      BY <3>1, <3>2
  <2>2. QED
    BY <1>1, <2>1
<1>5. ASSUME NEW t \in Tasks, BuildEnds(t)
      PROVE  BuildsApart(b1, b2)'
  BY <1>1, <1>5 DEF BuildEnds
<1>6. ASSUME NEW w \in Writers, Reports(w)
      PROVE  builds' = builds
  BY <1>6 DEF Reports
<1>7. ASSUME Ages
      PROVE  BuildsApart(b1, b2)'
  <2>1. ASSUME NEW b \in Tasks
        PROVE  builds'[b] = Idle \/ Same(b)
    BY <1>7, Entries, BuildFields, TimesAssumption DEF Ages
  <2>2. QED
    BY <1>1, <2>1
<1>8. ASSUME Elsewhere
      PROVE  builds' = builds
  BY <1>8 DEF Elsewhere
<1>9. ASSUME UNCHANGED <<joint, builds>>
      PROVE  builds' = builds
  BY <1>9
<1> HIDE DEF Same
<1>10. QED
  BY <1>2, <1>3, <1>4, <1>5, <1>6, <1>7, <1>8, <1>9, Steps, Zenon

LEMMA FetchesApartStep ==
  ASSUME TypeOK, FetchInv, OwnFlight, [Next]_vars, NEW s \in Arrs,
         NEW t1 \in Tasks, NEW t2 \in Tasks, t1 # t2, FetchesApart(t1, t2, s)
  PROVE  FetchesApart(t1, t2, s)'
<1> DEFINE Same(u) == /\ fetches[<<u, s>>] # Idle
                      /\ fetches'[<<u, s>>].gen = fetches[<<u, s>>].gen
                      /\ fetches'[<<u, s>>].epoch = fetches[<<u, s>>].epoch
                      /\ fetches'[<<u, s>>].age < TTL => fetches[<<u, s>>].age < TTL
<1>s. s \in Sources
  BY DEF Sources
<1>1. ASSUME \A u \in Tasks : fetches'[<<u, s>>] = Idle \/ Same(u)
      PROVE  FetchesApart(t1, t2, s)'
  BY <1>1 DEF FetchesApart
<1>2. ASSUME NEW t \in Tasks, NEW g \in Gens, NEW asked \in SUBSET Sources, Asks(t, g, asked)
      PROVE  FetchesApart(t1, t2, s)'
  <2>1. \A u \in Tasks : u # t \/ s \notin asked => fetches'[<<u, s>>] = fetches[<<u, s>>]
    BY <1>s, <1>2 DEF Asks
  <2>2. s \in asked => /\ fetches'[<<t, s>>].gen = g /\ fetches'[<<t, s>>].epoch = epoch[g]
                       /\ ~Live(own[<<g, s>>])
    BY <1>2 DEF Asks
  <2>3. ASSUME s \in asked, NEW u \in Tasks, fetches[<<u, s>>] # Idle, fetches[<<u, s>>].age < TTL,
               fetches[<<u, s>>].gen = g
        PROVE  fetches[<<u, s>>].epoch # epoch[g]
    BY <2>2, <2>3, OwnFlightLive DEF CurrentFetch
  <2>4. CASE t1 = t /\ s \in asked
    BY <2>1, <2>2, <2>3, <2>4 DEF FetchesApart
  <2>5. CASE t2 = t /\ s \in asked
    BY <2>1, <2>2, <2>3, <2>5 DEF FetchesApart
  <2>6. CASE (t1 # t /\ t2 # t) \/ s \notin asked
    BY <2>1, <2>6 DEF FetchesApart
  <2>7. QED
    BY <2>4, <2>5, <2>6
<1>3. ASSUME fetches' = fetches
      PROVE  FetchesApart(t1, t2, s)'
  BY <1>3 DEF FetchesApart
<1>4. ASSUME NEW t \in Tasks, NEW r \in Sources, NEW outcome \in Outcomes, ReadEnds(t, r, outcome)
      PROVE  FetchesApart(t1, t2, s)'
  <2>1. \A u \in Tasks : fetches'[<<u, s>>] = Idle \/ fetches'[<<u, s>>] = fetches[<<u, s>>]
    BY <1>s, <1>4 DEF ReadEnds
  <2>2. QED
    BY <1>1, <2>1
<1>5. ASSUME NEW t \in Tasks, BuildEnds(t)
      PROVE  fetches' = fetches
  BY <1>5 DEF BuildEnds
<1>6. ASSUME NEW w \in Writers, Reports(w)
      PROVE  fetches' = fetches
  BY <1>6 DEF Reports
<1>7. ASSUME Ages
      PROVE  FetchesApart(t1, t2, s)'
  <2>1. ASSUME NEW u \in Tasks
        PROVE  fetches'[<<u, s>>] = Idle \/ Same(u)
    BY <1>s, <1>7, Entries, FetchFields, TimesAssumption DEF Ages
  <2>2. QED
    BY <1>1, <2>1
<1>8. ASSUME Elsewhere
      PROVE  fetches' = fetches
  BY <1>8 DEF Elsewhere
<1> HIDE DEF Same
<1>9. QED
  BY <1>2, <1>3, <1>4, <1>5, <1>6, <1>7, <1>8, Steps, BuildsAsks, Zenon

LEMMA SingleFlightStep ==
  TypeOK /\ FetchInv /\ OwnFlight /\ JointFlight /\ SingleFlight /\ [Next]_vars => SingleFlight'
<1> SUFFICES ASSUME TypeOK, FetchInv, OwnFlight, JointFlight, SingleFlight, [Next]_vars
             PROVE  SingleFlight'
  OBVIOUS
<1>1. ASSUME NEW b1 \in Tasks, NEW b2 \in Tasks, b1 # b2
      PROVE  BuildsApart(b1, b2)'
  BY <1>1, SingleFlightApart, BuildsApartStep
<1>2. ASSUME NEW s \in Arrs, NEW t1 \in Tasks, NEW t2 \in Tasks, t1 # t2
      PROVE  FetchesApart(t1, t2, s)'
  BY <1>2, SingleFlightApart, FetchesApartStep
<1>3. QED
  BY <1>1, <1>2 DEF SingleFlight, BuildsApart, FetchesApart

-----------------------------------------------------------------------------
(* How old what is cached can be: the window of an adapter, then the time a *)
(* build takes, then the window of the loader.                             *)

\* The age of a reading, or of the read that is to yield it.
AgeOf(promise, s) == IF promise \in Tasks THEN fetches[<<promise, s>>].age ELSE promise.age

OwnYoung(g, s) ==
  Live(own[<<g, s>>]) => own[<<g, s>>].left + AgeOf(own[<<g, s>>].value, s) <= TTL

OwnAges == \A g \in Gens, s \in Arrs : OwnYoung(g, s)

(* A build takes no longer than one read, as all begin no later than it;   *)
(* one it shares was live in the cache of an adapter when it began.        *)
GotYoung(b, s) ==
  builds[b] # Idle =>
    /\ builds[b].age <= Timeout
    /\ builds[b].got[s] \in Tasks =>
         /\ builds[b].age <= fetches[<<builds[b].got[s], s>>].age
         /\ fetches[<<builds[b].got[s], s>>].age + 1 <= TTL + builds[b].age
    /\ builds[b].got[s] \in Reading => builds[b].got[s].age + 1 <= TTL + builds[b].age

BuildAges == \A b \in Tasks, s \in Sources : GotYoung(b, s)

JointYoung(g, k, s) ==
  joint[<<g, k>>] # NoEntry /\ joint[<<g, k>>].value \in Snapshot /\ joint[<<g, k>>].value[s] \in Reading =>
    joint[<<g, k>>].value[s].age + joint[<<g, k>>].left + 1 <= 2 * TTL + Timeout

JointAges == \A g \in Gens, k \in Keys, s \in Sources : JointYoung(g, k, s)

LEMMA OwnAgesStep == TypeOK /\ OwnInv /\ OwnAges /\ [Next]_vars => OwnAges'
<1> SUFFICES ASSUME TypeOK, OwnInv, OwnAges, [Next]_vars, NEW g \in Gens, NEW s \in Arrs,
                    own'[<<g, s>>] # NoEntry, own'[<<g, s>>].left > 0
             PROVE  OwnYoung(g, s)'
  BY DEF OwnAges, OwnYoung, Live
<1>s. s \in Sources
  BY DEF Sources
<1>0. OwnYoung(g, s)
  BY DEF OwnAges
<1>1. ASSUME own'[<<g, s>>] = own[<<g, s>>],
             own[<<g, s>>].value \in Tasks =>
               fetches'[<<own[<<g, s>>].value, s>>] = fetches[<<own[<<g, s>>].value, s>>]
      PROVE  OwnYoung(g, s)'
  BY <1>0, <1>1 DEF OwnYoung, AgeOf, Live
<1>2. ASSUME NEW t \in Tasks, NEW h \in Gens, NEW asked \in SUBSET Sources, Asks(t, h, asked)
      PROVE  OwnYoung(g, s)'
  <2>1. CASE g = h /\ s \in asked
    <3>1. /\ own'[<<g, s>>].value = t /\ own'[<<g, s>>].left = TTL
          /\ fetches'[<<t, s>>].age = 0
      BY <1>2, <2>1 DEF Asks
    <3>2. QED
      BY <3>1, TimesAssumption DEF OwnYoung, AgeOf
  <2>2. CASE g # h \/ s \notin asked
    <3>1. own'[<<g, s>>] = own[<<g, s>>]
      BY <1>2, <2>2 DEF Asks
    <3>2. own[<<g, s>>].value \in Tasks =>
            fetches'[<<own[<<g, s>>].value, s>>] = fetches[<<own[<<g, s>>].value, s>>]
      BY <1>s, <1>2, <3>1, AsksKeeps DEF OwnInv, OwnSound, NoOlder
    <3>3. QED
      BY <1>1, <3>1, <3>2
  <2>3. QED
    BY <2>1, <2>2
<1>3. ASSUME NEW t \in Tasks, NEW r \in Sources, NEW outcome \in Outcomes, ReadEnds(t, r, outcome)
      PROVE  OwnYoung(g, s)'
  <2>1. CASE s = r /\ g = fetches[<<t, r>>].gen /\ Promised(own[<<g, s>>], t)
    <3>1. /\ outcome \in Reading /\ outcome.age = fetches[<<t, s>>].age
          /\ own'[<<g, s>>].value = outcome /\ own'[<<g, s>>].left = own[<<g, s>>].left
      BY <1>3, <2>1, NamesAssumption DEF ReadEnds
    <3>2. own[<<g, s>>].left + fetches[<<t, s>>].age <= TTL
      BY <1>0, <2>1, <3>1 DEF OwnYoung, AgeOf, Promised, Live
    <3>3. outcome \notin Tasks
      BY <3>1, ReadingFields
    <3>4. QED
      BY <3>1, <3>2, <3>3 DEF OwnYoung, AgeOf
  <2>2. CASE ~(s = r /\ g = fetches[<<t, r>>].gen /\ Promised(own[<<g, s>>], t))
    <3>1. own'[<<g, s>>] = own[<<g, s>>]
      BY <1>3, <2>2 DEF ReadEnds
    <3>2. own[<<g, s>>].value \in Tasks => own[<<g, s>>].value # t \/ s # r
      BY <2>2, <3>1 DEF OwnInv, OwnSound, Promised
    <3>3. own[<<g, s>>].value \in Tasks =>
            fetches'[<<own[<<g, s>>].value, s>>] = fetches[<<own[<<g, s>>].value, s>>]
      BY <1>s, <1>3, <3>2 DEF ReadEnds
    <3>4. QED
      BY <1>1, <3>1, <3>3
  <2>3. QED
    BY <2>1, <2>2
<1>4. ASSUME NEW w \in Writers, Reports(w)
      PROVE  OwnYoung(g, s)'
  BY <1>1, <1>4 DEF Reports
<1>5. ASSUME Ages
      PROVE  OwnYoung(g, s)'
  <2>0. PICK p : p = own[<<g, s>>].value
    OBVIOUS
  <2>1. /\ own[<<g, s>>] \in OwnEntry /\ p \in Tasks \cup Reading /\ own[<<g, s>>].left \in Nat
        /\ own[<<g, s>>].left > 0 /\ Live(own[<<g, s>>])
        /\ own'[<<g, s>>].value = Older(p) /\ own'[<<g, s>>].left = own[<<g, s>>].left - 1
    <3>1. own[<<g, s>>] # NoEntry
      BY <1>5 DEF Ages
    <3>2. own[<<g, s>>] \in OwnEntry /\ p \in Tasks \cup Reading /\ own[<<g, s>>].left \in Nat
      BY <2>0, <3>1, Entries, OwnFields
    <3>3. /\ own'[<<g, s>>].value = Older(p)
          /\ own'[<<g, s>>].left = IF own[<<g, s>>].left = 0 THEN 0 ELSE own[<<g, s>>].left - 1
      BY <1>5, <2>0, <3>1 DEF Ages
    <3>4. QED
      BY <3>1, <3>2, <3>3 DEF Live
  <2>2. CASE p \in Tasks
    <3>1. Older(p) = p /\ own[<<g, s>>].left + fetches[<<p, s>>].age <= TTL
      BY <1>0, <2>0, <2>1, <2>2 DEF Older, OwnYoung, AgeOf
    <3>2. fetches[<<p, s>>] # Idle
      BY <2>0, <2>1, <2>2, OwnFields DEF OwnInv, OwnSound, NoOlder
    <3>3. fetches[<<p, s>>].age \in Nat /\ fetches'[<<p, s>>].age = fetches[<<p, s>>].age + 1
      BY <1>s, <1>5, <2>2, <3>2, Entries, FetchFields DEF Ages
    <3>4. own'[<<g, s>>].left + fetches'[<<p, s>>].age <= TTL
      BY <2>1, <3>1, <3>3, TimesAssumption
    <3>5. QED
      BY <2>1, <2>2, <3>1, <3>4 DEF OwnYoung, AgeOf
  <2>3. CASE p \in Reading
    <3>1. /\ p \notin Tasks /\ p.age \in Nat /\ Older(p) \notin Tasks /\ Older(p).age = p.age + 1
      BY <2>3, OlderType, ReadingFields DEF Promise
    <3>2. own[<<g, s>>].left + p.age <= TTL
      BY <1>0, <2>0, <2>1, <3>1, OwnFields DEF OwnYoung, AgeOf
    <3>3. own'[<<g, s>>].left + Older(p).age <= TTL
      BY <2>1, <3>1, <3>2, TimesAssumption
    <3>4. QED
      BY <2>1, <3>1, <3>3 DEF OwnYoung, AgeOf
  <2>4. QED
    BY <2>1, <2>2, <2>3
<1>6. ASSUME UNCHANGED <<own, fetches>>
      PROVE  OwnYoung(g, s)'
  BY <1>1, <1>6
<1>7. ASSUME NEW t \in Tasks, BuildEnds(t)
      PROVE  UNCHANGED <<own, fetches>>
  BY <1>7 DEF BuildEnds
<1>8. ASSUME Elsewhere
      PROVE  UNCHANGED <<own, fetches>>
  BY <1>8 DEF Elsewhere
<1>9. QED
  BY <1>2, <1>3, <1>4, <1>5, <1>6, <1>7, <1>8, Steps, BuildsAsks, Zenon

LEMMA BuildAgesStep ==
  TypeOK /\ OwnInv /\ BuildInv /\ OwnAges /\ BuildAges /\ [Next]_vars => BuildAges'
<1> SUFFICES ASSUME TypeOK, OwnInv, BuildInv, OwnAges, BuildAges, [Next]_vars,
                    NEW b \in Tasks, NEW s \in Sources, builds'[b] # Idle
             PROVE  GotYoung(b, s)'
  BY DEF BuildAges, GotYoung
<1>0. GotYoung(b, s)
  BY DEF BuildAges
<1>1. ASSUME builds'[b] = builds[b],
             builds[b].got[s] \in Tasks =>
               fetches'[<<builds[b].got[s], s>>] = fetches[<<builds[b].got[s], s>>]
      PROVE  GotYoung(b, s)'
  BY <1>0, <1>1 DEF GotYoung
<1>2. ASSUME NEW t \in Tasks, NEW g \in Gens, NEW asked \in SUBSET Sources, Asks(t, g, asked),
             builds'[b] = builds[b]
      PROVE  GotYoung(b, s)'
  BY <1>1, <1>2, AsksKeeps DEF BuildInv
<1>3. ASSUME NEW t \in Tasks, NEW g \in Gens, NEW key \in Keys, NEW asked \in SUBSET Sources,
             Builds(t, g, key, asked)
      PROVE  GotYoung(b, s)'
  <2>1. Asks(t, g, asked)
    BY <1>3, BuildsAsks
  <2>2. CASE b # t
    BY <1>2, <1>3, <2>1, <2>2 DEF Builds
  <2>3. CASE b = t
    <3>0. builds'[b].age = 0
      BY <1>3, <2>3 DEF Builds
    <3>1. CASE s \in asked /\ builds'[b].got[s] = b
      <4>1. fetches'[<<b, s>>].age = 0 /\ b \notin Reading
        BY <2>1, <2>3, <3>1, ReadingFields DEF Asks
      <4>2. QED
        BY <3>0, <3>1, <4>1, TimesAssumption DEF GotYoung
    <3>2. CASE s \in Arrs \ asked /\ Live(own[<<g, s>>]) /\ builds'[b].got[s] = own[<<g, s>>].value
      <4>1. /\ own[<<g, s>>].left \in Nat /\ own[<<g, s>>].left > 0
            /\ own[<<g, s>>].left + AgeOf(own[<<g, s>>].value, s) <= TTL
        BY <3>2, Entries, OwnFields DEF Live, OwnAges, OwnYoung
      <4>2. ASSUME builds'[b].got[s] \in Tasks
            PROVE  /\ fetches'[<<builds'[b].got[s], s>>].age \in Nat
                   /\ fetches'[<<builds'[b].got[s], s>>].age + 1 <= TTL
        <5>1. fetches[<<own[<<g, s>>].value, s>>] # Idle
          BY <3>2, <4>2, OwnPending
        <5>2. fetches'[<<builds'[b].got[s], s>>] = fetches[<<own[<<g, s>>].value, s>>]
          BY <2>1, <3>2, <4>2, <5>1, AsksKeeps
        <5>3. /\ fetches[<<own[<<g, s>>].value, s>>].age \in Nat
              /\ own[<<g, s>>].left + fetches[<<own[<<g, s>>].value, s>>].age <= TTL
          BY <3>2, <4>1, <4>2, <5>1, Entries, FetchFields DEF AgeOf
        <5>4. QED
          BY <4>1, <5>2, <5>3, TimesAssumption
      <4>3. ASSUME builds'[b].got[s] \in Reading
            PROVE  builds'[b].got[s].age + 1 <= TTL
        BY <3>2, <4>1, <4>3, ReadingFields, TimesAssumption DEF AgeOf
      <4>4. QED
        BY <3>0, <4>2, <4>3, TimesAssumption DEF GotYoung
    <3>3. CASE builds'[b].got[s] = Degraded
      BY <3>0, <3>3, NamesAssumption, TimesAssumption DEF GotYoung
    <3>4. QED
      BY <1>3, <2>3, <3>1, <3>2, <3>3 DEF Builds
  <2>4. QED
    BY <2>2, <2>3
<1>4. ASSUME NEW t \in Tasks, NEW q \in Sources, NEW outcome \in Outcomes, ReadEnds(t, q, outcome)
      PROVE  GotYoung(b, s)'
  <2>1. \A u \in Tasks, r \in Sources : u # t \/ r # q => fetches'[<<u, r>>] = fetches[<<u, r>>]
    BY <1>4 DEF ReadEnds
  <2>2. CASE ~Awaits(b, t, q)
    <3>1. builds'[b] = builds[b]
      BY <1>4, <2>2 DEF ReadEnds
    <3>2. builds[b].got[s] # t \/ s # q
      BY <2>2, <3>1 DEF Awaits
    <3>3. QED
      BY <1>1, <2>1, <3>1, <3>2
  <2>3. CASE Awaits(b, t, q)
    <3>1. /\ builds[b] # Idle /\ builds'[b].got[q] = outcome /\ builds[b].got[q] = t
          /\ builds'[b].age = builds[b].age
          /\ \A r \in Sources : r # q => builds'[b].got[r] = builds[b].got[r]
      BY <1>4, <2>3 DEF ReadEnds, Awaits
    <3>2. CASE s # q
      BY <1>0, <2>1, <3>1, <3>2 DEF GotYoung
    <3>3. CASE s = q
      <4>1. outcome \notin Tasks
        BY NamesAssumption DEF Outcomes
      <4>2. outcome \in Reading => outcome.age = fetches[<<t, q>>].age
        BY <1>4, ReadingFields DEF ReadEnds
      <4>3. QED
        BY <1>0, <3>1, <3>3, <4>1, <4>2 DEF GotYoung
    <3>4. QED
      BY <3>2, <3>3
  <2>4. QED
    BY <2>2, <2>3
<1>5. ASSUME NEW t \in Tasks, BuildEnds(t)
      PROVE  GotYoung(b, s)'
  <2>1. builds'[b] = builds[b] /\ fetches' = fetches
    BY <1>5 DEF BuildEnds
  <2>2. QED
    BY <1>1, <2>1
<1>6. ASSUME NEW w \in Writers, Reports(w)
      PROVE  GotYoung(b, s)'
  BY <1>1, <1>6 DEF Reports
<1>7. ASSUME Ages
      PROVE  GotYoung(b, s)'
  <2>1. /\ builds[b] # Idle /\ builds[b] \in Build /\ builds[b].got \in [Sources -> Promise]
        /\ builds'[b].age = builds[b].age + 1 /\ builds[b].age \in Nat
        /\ \A r \in Sources : builds'[b].got[r] = Older(builds[b].got[r])
    BY <1>7, Entries, BuildFields DEF Ages
  <2>2. /\ builds'[b].got[s] \in Tasks =>
             builds[b].got[s] \in Tasks /\ builds'[b].got[s] = builds[b].got[s]
        /\ builds'[b].got[s] \in Reading =>
             builds[b].got[s] \in Reading /\ builds'[b].got[s].age = builds[b].got[s].age + 1
    <3>1. builds[b].got[s] \in Promise
      BY <2>1
    <3>2. QED
      BY <2>1, <3>1, OlderType, NamesAssumption DEF Promise
  <2>3. ASSUME NEW r \in Sources, builds[b].got[r] \in Tasks
        PROVE  /\ fetches[<<builds[b].got[r], r>>].age \in Nat
               /\ fetches[<<builds[b].got[r], r>>].age < Timeout
               /\ fetches'[<<builds[b].got[r], r>>].age = fetches[<<builds[b].got[r], r>>].age + 1
    <3>1. fetches[<<builds[b].got[r], r>>] # Idle
      BY <2>1, <2>3 DEF BuildInv
    <3>2. QED
      BY <1>7, <2>3, <3>1, Entries, FetchFields DEF Ages
  <2>4. builds'[b].age <= Timeout
    <3>1. PICK q \in Sources : builds[b].got[q] \in Tasks
      BY <1>7, <2>1 DEF Ages, Gathered
    <3>2. builds[b].age <= fetches[<<builds[b].got[q], q>>].age
      BY <2>1, <3>1 DEF BuildAges, GotYoung
    <3>3. QED
      BY <2>1, <2>3, <3>1, <3>2, TimesAssumption
  <2>5. ASSUME builds'[b].got[s] \in Tasks
        PROVE  /\ builds'[b].age <= fetches'[<<builds'[b].got[s], s>>].age
               /\ fetches'[<<builds'[b].got[s], s>>].age + 1 <= TTL + builds'[b].age
    <3>1. /\ builds[b].age <= fetches[<<builds[b].got[s], s>>].age
          /\ fetches[<<builds[b].got[s], s>>].age + 1 <= TTL + builds[b].age
      BY <1>0, <2>1, <2>2, <2>5 DEF GotYoung
    <3>2. /\ fetches[<<builds[b].got[s], s>>].age \in Nat
          /\ fetches'[<<builds'[b].got[s], s>>].age = fetches[<<builds[b].got[s], s>>].age + 1
      BY <2>2, <2>3, <2>5
    <3>3. QED
      BY <2>1, <3>1, <3>2, TimesAssumption
  <2>6. ASSUME builds'[b].got[s] \in Reading
        PROVE  builds'[b].got[s].age + 1 <= TTL + builds'[b].age
    <3>1. builds[b].got[s].age + 1 <= TTL + builds[b].age
      BY <1>0, <2>1, <2>2, <2>6 DEF GotYoung
    <3>2. QED
      BY <2>1, <2>2, <2>6, <3>1, ReadingFields, TimesAssumption
  <2>7. QED
    BY <2>4, <2>5, <2>6 DEF GotYoung
<1>8. ASSUME Elsewhere
      PROVE  GotYoung(b, s)'
  BY <1>1, <1>8 DEF Elsewhere
<1>9. ASSUME NEW t \in Tasks, NEW g \in Gens, NEW asked \in SUBSET Sources,
             Asks(t, g, asked), UNCHANGED <<joint, builds>>
      PROVE  GotYoung(b, s)'
  BY <1>2, <1>9
<1>10. QED
  BY <1>3, <1>4, <1>5, <1>6, <1>7, <1>8, <1>9, Steps, Zenon

LEMMA JointAgesStep == TypeOK /\ BuildAges /\ JointAges /\ [Next]_vars => JointAges'
<1> SUFFICES ASSUME TypeOK, BuildAges, JointAges, [Next]_vars,
                    NEW g \in Gens, NEW k \in Keys, NEW s \in Sources,
                    joint'[<<g, k>>] # NoEntry, joint'[<<g, k>>].value \in Snapshot,
                    joint'[<<g, k>>].value[s] \in Reading
             PROVE  JointYoung(g, k, s)'
  BY DEF JointAges, JointYoung
<1>0. JointYoung(g, k, s)
  BY DEF JointAges
<1>1. ASSUME joint'[<<g, k>>] = joint[<<g, k>>]
      PROVE  JointYoung(g, k, s)'
  BY <1>0, <1>1 DEF JointYoung
<1>2. ASSUME NEW t \in Tasks, NEW h \in Gens, NEW key \in Keys, NEW asked \in SUBSET Sources,
             Builds(t, h, key, asked)
      PROVE  JointYoung(g, k, s)'
  <2>1. g # h \/ k # key
    BY <1>2, SnapshotFields DEF Builds
  <2>2. QED
    BY <1>1, <1>2, <2>1 DEF Builds
<1>3. ASSUME UNCHANGED joint
      PROVE  JointYoung(g, k, s)'
  BY <1>1, <1>3
<1>4. ASSUME NEW t \in Tasks, NEW r \in Sources, NEW outcome \in Outcomes, ReadEnds(t, r, outcome)
      PROVE  UNCHANGED joint
  BY <1>4 DEF ReadEnds
<1>5. ASSUME NEW t \in Tasks, BuildEnds(t)
      PROVE  JointYoung(g, k, s)'
  <2>1. CASE g = builds[t].gen /\ k = builds[t].key /\ Promised(joint[<<g, k>>], t)
    <3>1. /\ joint'[<<g, k>>] \in JointEntry /\ joint'[<<g, k>>].value = builds[t].got
          /\ joint'[<<g, k>>].left <= TTL /\ builds[t] # Idle
      BY <1>5, <2>1, BuildFields DEF BuildEnds
    <3>2. joint'[<<g, k>>].left \in Nat /\ joint'[<<g, k>>].value[s].age \in Nat
      BY <3>1, JointFields, ReadingFields
    <3>3. joint'[<<g, k>>].value[s].age + 1 <= TTL + Timeout
      <4>1. builds[t].age \in Nat /\ builds[t].age <= Timeout
        BY <3>1, Entries, BuildFields DEF BuildAges, GotYoung
      <4>2. joint'[<<g, k>>].value[s].age + 1 <= TTL + builds[t].age
        BY <3>1 DEF BuildAges, GotYoung
      <4>3. QED
        BY <3>2, <4>1, <4>2, TimesAssumption
    <3>4. joint'[<<g, k>>].value[s].age + joint'[<<g, k>>].left + 1 <= 2 * TTL + Timeout
      BY <3>1, <3>2, <3>3, TimesAssumption
    <3>5. QED
      BY <3>4 DEF JointYoung
  <2>2. CASE ~(g = builds[t].gen /\ k = builds[t].key /\ Promised(joint[<<g, k>>], t))
    BY <1>1, <1>5, <2>2 DEF BuildEnds
  <2>3. QED
    BY <2>1, <2>2
<1>6. ASSUME NEW w \in Writers, Reports(w)
      PROVE  JointYoung(g, k, s)'
  BY <1>1, <1>6 DEF Reports
<1>7. ASSUME Ages
      PROVE  JointYoung(g, k, s)'
  <2>0. PICK p : p = joint[<<g, k>>].value
    OBVIOUS
  <2>1. /\ joint[<<g, k>>] # NoEntry /\ p \in Tasks \cup Snapshot
        /\ joint[<<g, k>>].left \in Nat /\ joint'[<<g, k>>].value = OlderSnapshot(p)
        /\ joint[<<g, k>>].left = 0 => p \in Tasks
        /\ joint[<<g, k>>].left # 0 => joint'[<<g, k>>].left = joint[<<g, k>>].left - 1
    BY <1>7, <2>0, Entries, JointFields DEF Ages
  <2>2. p \notin Tasks /\ joint[<<g, k>>].left # 0
    BY <2>1, SnapshotFields DEF OlderSnapshot
  <2>3. p \in Snapshot /\ p \in [Sources -> Promise] /\ p[s] \in Promise
    BY <2>1, <2>2 DEF Snapshot, Promise
  <2>4. joint'[<<g, k>>].value[s] = Older(p[s])
    BY <2>1, <2>3, OlderSnapshotType
  <2>5. p[s] \in Reading /\ p[s].age \in Nat /\ Older(p[s]).age = p[s].age + 1
    BY <2>3, <2>4, OlderType, ReadingFields, NamesAssumption DEF Promise
  <2>6. p[s].age + joint[<<g, k>>].left + 1 <= 2 * TTL + Timeout
    BY <1>0, <2>0, <2>1, <2>3, <2>5 DEF JointYoung
  <2>7. Older(p[s]).age + joint'[<<g, k>>].left + 1 <= 2 * TTL + Timeout
    BY <2>1, <2>2, <2>5, <2>6, TimesAssumption
  <2>8. QED
    BY <2>4, <2>7 DEF JointYoung
<1>8. ASSUME Elsewhere
      PROVE  UNCHANGED joint
  BY <1>8 DEF Elsewhere
<1>9. ASSUME UNCHANGED <<joint, builds>>
      PROVE  UNCHANGED joint
  BY <1>9
<1>10. QED
  BY <1>2, <1>3, <1>4, <1>5, <1>6, <1>7, <1>8, <1>9, Steps, Zenon

-----------------------------------------------------------------------------
IInv ==
  /\ TypeOK /\ VersionInv /\ OwnInv /\ BuildInv /\ JointInv
  /\ FetchInv /\ OwnFlight /\ JointFlight /\ SingleFlight
  /\ OwnAges /\ BuildAges /\ JointAges

LEMMA InitIInv == Init => IInv
<1> SUFFICES ASSUME Init PROVE IInv
  OBVIOUS
<1>1. TypeOK
  BY BoundsAssumption DEF Init, TypeOK, Gens
<1>2. /\ \A g \in Gens, s \in Arrs : own[<<g, s>>] = NoEntry
      /\ \A g \in Gens, k \in Keys : joint[<<g, k>>] = NoEntry
      /\ \A t \in Tasks : builds[t] = Idle
      /\ \A t \in Tasks, s \in Sources : fetches[<<t, s>>] = Idle
  BY DEF Init
<1>3. VersionInv
  BY DEF Init, VersionInv
<1>4. OwnInv /\ BuildInv /\ JointInv
  BY <1>2 DEF OwnInv, OwnSound, BuildInv, JointInv, JointSound
<1>5. FetchInv /\ OwnFlight /\ JointFlight
  BY <1>2 DEF FetchInv, FetchSound, OwnFlight, OwnHolds, CurrentFetch, JointFlight,
              BuildSound, CurrentBuild, Sources
<1>6. SingleFlight
  BY <1>2 DEF SingleFlight, Sources
<1>7. OwnAges /\ BuildAges /\ JointAges
  BY <1>2 DEF OwnAges, OwnYoung, Live, BuildAges, GotYoung, JointAges, JointYoung
<1>8. QED
  BY <1>1, <1>3, <1>4, <1>5, <1>6, <1>7 DEF IInv

LEMMA IInvStep == IInv /\ [Next]_vars => IInv'
BY TypeStep, VersionStep, OwnStep, BuildStep, JointStep, FetchStep, OwnFlightStep,
   JointFlightStep, SingleFlightStep, OwnAgesStep, BuildAgesStep, JointAgesStep, Zenon DEF IInv

LEMMA IInvHolds == Spec => []IInv
BY InitIInv, IInvStep, PTL DEF Spec

LEMMA IInvServes == IInv => ReadYourWrites
<1> SUFFICES ASSUME IInv, NEW g \in Gens, NEW s \in Sources
             PROVE  Serves(g, s, acked[<<g, s>>])
  BY DEF ReadYourWrites
<1>1. ASSUME s \in Arrs, own[<<g, s>>] # NoEntry
      PROVE  NoOlder(own[<<g, s>>].value, s, acked[<<g, s>>])
  BY <1>1 DEF IInv, OwnInv, OwnSound
<1>2. ASSUME NEW k \in Keys, joint[<<g, k>>] # NoEntry
      PROVE  IF joint[<<g, k>>].value \in Tasks
               THEN NoOlder(builds[joint[<<g, k>>].value].got[s], s, acked[<<g, s>>])
               ELSE NoOlder(joint[<<g, k>>].value[s], s, acked[<<g, s>>])
  BY <1>2 DEF IInv, JointInv, JointSound
<1>3. QED
  BY <1>1, <1>2 DEF Serves

LEMMA IInvStale == IInv => BoundedStaleness
<1> SUFFICES ASSUME IInv, NEW g \in Gens, NEW k \in Keys, NEW s \in Sources,
                    Live(joint[<<g, k>>]), joint[<<g, k>>].value \notin Tasks,
                    joint[<<g, k>>].value[s] # Degraded
             PROVE  joint[<<g, k>>].value[s].age <= 2 * (TTL - 1) + Timeout
  BY DEF BoundedStaleness
<1>1. /\ joint[<<g, k>>] \in JointEntry /\ joint[<<g, k>>].value \in Snapshot
      /\ joint[<<g, k>>].left \in Nat /\ joint[<<g, k>>].left > 0
  BY Entries, JointFields DEF IInv, Live
<1>2. joint[<<g, k>>].value[s] \in Reading
  BY <1>1, SnapshotFields DEF Outcomes
<1>3. joint[<<g, k>>].value[s].age + joint[<<g, k>>].left + 1 <= 2 * TTL + Timeout
  BY <1>1, <1>2, JointFields DEF IInv, JointAges, JointYoung
<1>4. QED
  BY <1>1, <1>2, <1>3, ReadingFields, TimesAssumption

-----------------------------------------------------------------------------
(* Across a reload.  While no call of a write tool is in progress when the *)
(* loader is swapped, every write runs on the current one, and the ones to *)
(* come hold nothing yet: what a write cleared was all there was.          *)

Untouched(g) ==
  /\ \A s \in Arrs : own[<<g, s>>] = NoEntry
  /\ \A k \in Keys : joint[<<g, k>>] = NoEntry

UnbornInv == \A g \in Gens : gen < g => Untouched(g)

CurrentInv == \A w \in Writers : writes[w] # Idle => writes[w].gen = gen

\* Loader g reflects the writes reported to loader `past`.
Follows(g, past) ==
  /\ \A s \in Arrs : OwnSound(g, s, past)
  /\ \A k \in Keys : JointSound(g, k, past)

FollowsInv == \A g, past \in Gens : past <= g \/ gen < past => Follows(g, past)

AcrossInv == UnbornInv /\ CurrentInv /\ FollowsInv

NothingStraddles == gen' # gen => \A w \in Writers : writes[w] = Idle

LEMMA Generations ==
  ASSUME TypeOK
  PROVE  gen \in Nat /\ \A g \in Gens : g \in Nat
BY BoundsAssumption DEF TypeOK, Gens

\* No step goes back to a loader of before.
LEMMA GenerationsPass == TypeOK /\ [Next]_vars => gen <= gen'
<1> SUFFICES ASSUME TypeOK, [Next]_vars PROVE gen <= gen'
  OBVIOUS
<1>1. gen' = gen => gen <= gen'
  BY Generations
<1>2. ASSUME NEW t \in Tasks, NEW g \in Gens, NEW asked \in SUBSET Sources, Asks(t, g, asked)
      PROVE  gen' = gen
  BY <1>2 DEF Asks
<1>3. ASSUME \/ \E t \in Tasks, s \in Sources, outcome \in Outcomes : ReadEnds(t, s, outcome)
             \/ \E t \in Tasks : BuildEnds(t)
             \/ \E w \in Writers : Reports(w)
             \/ Ages
      PROVE  gen' = gen
  <2>1. ASSUME NEW t \in Tasks, NEW s \in Sources, NEW outcome \in Outcomes, ReadEnds(t, s, outcome)
        PROVE  gen' = gen
    BY <2>1, Zenon DEF ReadEnds
  <2>2. ASSUME NEW t \in Tasks, BuildEnds(t)
        PROVE  gen' = gen
    BY <2>2, Zenon DEF BuildEnds
  <2>3. ASSUME NEW w \in Writers, Reports(w)
        PROVE  gen' = gen
    BY <2>3, Zenon DEF Reports
  <2>4. ASSUME Ages
        PROVE  gen' = gen
    BY <2>4, Zenon DEF Ages
  <2>5. QED
    BY <1>3, <2>1, <2>2, <2>3, <2>4, Zenon
<1>4. ASSUME Elsewhere
      PROVE  gen <= gen'
  BY <1>4 DEF Elsewhere
<1>5. QED
  BY <1>1, <1>2, <1>3, <1>4, Steps, BuildsAsks, Zenon

LEMMA UnbornStep == TypeOK /\ UnbornInv /\ [Next]_vars => UnbornInv'
<1> SUFFICES ASSUME TypeOK, UnbornInv, [Next]_vars, NEW g \in Gens, gen' < g
             PROVE  Untouched(g)'
  BY DEF UnbornInv
<1>0. gen < g /\ Untouched(g)
  BY TypeStep, Generations, GenerationsPass DEF UnbornInv, TypeOK, Gens
<1>1. ASSUME \A s \in Arrs : own'[<<g, s>>] = own[<<g, s>>],
             \A k \in Keys : joint'[<<g, k>>] = joint[<<g, k>>]
      PROVE  Untouched(g)'
  BY <1>0, <1>1 DEF Untouched
<1>2. ASSUME NEW t \in Tasks, NEW h \in Gens, NEW asked \in SUBSET Sources, Asks(t, h, asked),
             \A k \in Keys : g # h => joint'[<<g, k>>] = joint[<<g, k>>]
      PROVE  Untouched(g)'
  <2>1. g # h
    BY <1>0, <1>2, Generations DEF Asks
  <2>2. \A s \in Arrs : own'[<<g, s>>] = own[<<g, s>>]
    BY <1>2, <2>1 DEF Asks
  <2>3. QED
    BY <1>1, <1>2, <2>1, <2>2
<1>3. ASSUME NEW t \in Tasks, NEW h \in Gens, NEW key \in Keys, NEW asked \in SUBSET Sources,
             Builds(t, h, key, asked)
      PROVE  Untouched(g)'
  <2>1. Asks(t, h, asked)
    BY <1>3, BuildsAsks
  <2>2. QED
    BY <1>2, <1>3, <2>1 DEF Builds
<1>4. ASSUME NEW t \in Tasks, NEW h \in Gens, NEW asked \in SUBSET Sources,
             Asks(t, h, asked), UNCHANGED <<joint, builds>>
      PROVE  Untouched(g)'
  BY <1>2, <1>4
<1>5. ASSUME NEW t \in Tasks, NEW r \in Sources, NEW outcome \in Outcomes, ReadEnds(t, r, outcome)
      PROVE  Untouched(g)'
  <2>1. \A s \in Arrs : ~Promised(own[<<g, s>>], t)
    BY <1>0 DEF Untouched, Promised
  <2>2. QED
    BY <1>1, <1>5, <2>1 DEF ReadEnds
<1>6. ASSUME NEW t \in Tasks, BuildEnds(t)
      PROVE  Untouched(g)'
  <2>1. \A k \in Keys : ~Promised(joint[<<g, k>>], t)
    BY <1>0 DEF Untouched, Promised
  <2>2. QED
    BY <1>1, <1>6, <2>1 DEF BuildEnds
<1>7. ASSUME NEW w \in Writers, Reports(w)
      PROVE  Untouched(g)'
  BY <1>0, <1>7 DEF Reports, Untouched
<1>8. ASSUME Ages
      PROVE  Untouched(g)'
  BY <1>0, <1>8 DEF Ages, Untouched
<1>9. ASSUME Elsewhere
      PROVE  Untouched(g)'
  BY <1>1, <1>9 DEF Elsewhere
<1>10. QED
  BY <1>3, <1>4, <1>5, <1>6, <1>7, <1>8, <1>9, Steps, Zenon

LEMMA CurrentStep == TypeOK /\ CurrentInv /\ NothingStraddles /\ [Next]_vars => CurrentInv'
<1> SUFFICES ASSUME TypeOK, CurrentInv, NothingStraddles, [Next]_vars
             PROVE  CurrentInv'
  OBVIOUS
<1>1. ASSUME UNCHANGED <<gen, writes>>
      PROVE  CurrentInv'
  BY <1>1 DEF CurrentInv
<1>2. ASSUME NEW w \in Writers, NEW write \in Write \cup {Idle}, write.gen = gen \/ write = Idle,
             writes' = [writes EXCEPT ![w] = write], gen' = gen
      PROVE  CurrentInv'
  BY <1>2 DEF CurrentInv, TypeOK
<1>3. ASSUME NEW w \in Writers, NEW s \in Sources, CallWrite(w, s)
      PROVE  CurrentInv'
  <2>1. [gen |-> gen, source |-> s, awaits |-> "plan", landed |-> 0] \in Write
    BY DEF TypeOK, Write
  <2>2. QED
    BY <1>2, <1>3, <2>1 DEF CallWrite
<1>9. ASSUME NEW w \in Writers, StartWrite(w)
      PROVE  CurrentInv'
  <2>1. PICK sent : sent = [writes[w] EXCEPT !.awaits = "apply"]
    OBVIOUS
  <2>2. writes' = [writes EXCEPT ![w] = sent] /\ gen' = gen /\ writes[w] \in Write /\ writes[w].gen = gen
    BY <1>9, <2>1 DEF StartWrite, TypeOK, CurrentInv
  <2>3. sent \in Write /\ sent.gen = writes[w].gen
    BY <2>1, <2>2 DEF Write
  <2>4. QED
    BY <1>2, <2>2, <2>3
<1>4. ASSUME NEW w \in Writers, WriteLands(w)
      PROVE  CurrentInv'
  <2> DEFINE landed == version[writes[w].source] + 1
             write == [writes[w] EXCEPT !.landed = landed]
  <2>1. writes[w] \in Write /\ landed \in Nat
    BY <1>4, WriteFields DEF WriteLands, TypeOK
  <2>2. write \in Write /\ write.gen = writes[w].gen
    BY <2>1 DEF Write
  <2>3. writes[w].gen = gen
    BY <1>4 DEF WriteLands, CurrentInv
  <2>4. writes' = [writes EXCEPT ![w] = write] /\ gen' = gen
    BY <1>4 DEF WriteLands
  <2> HIDE DEF landed, write
  <2>5. QED
    BY <1>2, <2>2, <2>3, <2>4
<1>5. ASSUME NEW w \in Writers, WriteReturns(w) \/ WriteFails(w)
      PROVE  CurrentInv'
  BY <1>2, <1>5 DEF WriteReturns, WriteFails
<1>6. CASE Reload
  <2>1. gen' # gen /\ writes' = writes
    BY <1>6, Generations DEF Reload
  <2>2. QED
    BY <2>1 DEF NothingStraddles, CurrentInv
<1>7. ASSUME \/ \E t \in Tasks :
                  \/ \E g \in Gens, key \in Keys : StartBuild(t, g, key)
                  \/ \E g \in Gens, s \in Arrs : StartSearch(t, g, s)
                  \/ \E s \in Sources : ReadSettles(t, s) \/ ReadFails(t, s)
                  \/ BuildSettles(t) \/ BuildThrows(t)
             \/ \E s \in Sources : Drift(s)
             \/ Tick
             \/ UNCHANGED vars
      PROVE  UNCHANGED <<gen, writes>>
  BY <1>7, Zenon DEF StartBuild, StartSearch, ReadSettles, ReadFails, BuildSettles, BuildThrows,
     Drift, Tick, vars
<1>8. QED
  BY <1>1, <1>3, <1>4, <1>5, <1>6, <1>7, <1>9, Zenon DEF Next

LEMMA FollowsStep ==
  TypeOK /\ VersionInv /\ OwnInv /\ AcrossInv /\ [Next]_vars => FollowsInv'
<1> SUFFICES ASSUME TypeOK, VersionInv, OwnInv, AcrossInv, [Next]_vars,
                    NEW g \in Gens, NEW past \in Gens, past <= g \/ gen' < past
             PROVE  Follows(g, past)'
  BY DEF FollowsInv
<1>1. past <= g \/ gen < past
  BY TypeStep, Generations, GenerationsPass DEF TypeOK, Gens
<1>2. Follows(g, past)
  BY <1>1 DEF AcrossInv, FollowsInv
<1>3. Empties(g, past)
  <2> SUFFICES ASSUME NEW w \in Writers, Reports(w), writes[w].gen = past
               PROVE  /\ \A s \in Arrs : own'[<<g, s>>] = NoEntry
                      /\ \A k \in Keys : joint'[<<g, k>>] = NoEntry
    BY DEF Empties
  <2>1. past = gen
    BY WriteFields DEF AcrossInv, CurrentInv, Reports
  <2>2. CASE g = past
    BY <2>2 DEF Reports
  <2>3. CASE g # past
    <3>1. gen < g
      BY <1>1, <2>1, <2>3, Generations
    <3>2. Untouched(g)
      BY <3>1 DEF AcrossInv, UnbornInv
    <3>3. QED
      BY <2>3, <3>2 DEF Reports, Untouched
  <2>4. QED
    BY <2>2, <2>3
<1>4. QED
  BY <1>2, <1>3, OwnSoundStep, JointSoundStep DEF Follows

LEMMA InitAcross == Init => AcrossInv
BY DEF Init, AcrossInv, UnbornInv, Untouched, CurrentInv, FollowsInv, Follows, OwnSound, JointSound

LEMMA AcrossServes == TypeOK /\ AcrossInv => ReadYourWritesAcrossReload
<1> SUFFICES ASSUME TypeOK, AcrossInv, NEW past \in Gens, NEW s \in Sources
             PROVE  Serves(gen, s, acked[<<past, s>>])
  BY DEF ReadYourWritesAcrossReload
<1>1. gen \in Gens /\ Follows(gen, past)
  BY Generations DEF AcrossInv, FollowsInv, TypeOK
<1>2. QED
  BY <1>1 DEF Follows, OwnSound, JointSound, Serves

(* The two layers of the cache, the builds, the reads and the writes in    *)
(* progress keep their shape under every interleaving of them.             *)
THEOREM TypeCorrect == Spec => []TypeOK
BY IInvHolds, PTL DEF IInv

(* tools/library.ts: "the next get_library reflects it".  Once a write tool *)
(* has reported success, neither layer of its loader holds, or waits for,  *)
(* anything read before that write landed: for any number of users,        *)
(* sources, writes and loads in flight.                                    *)
THEOREM WritesAreSeen == Spec => []ReadYourWrites
BY IInvHolds, IInvServes, PTL

(* core/cache.ts: two callers find the same promise in flight.  Two builds *)
(* of one entry, or two reads of one adapter's library, are in progress    *)
(* together only when an invalidation came between their starts or the     *)
(* first has outlasted the window its promise had in the cache: no relation*)
(* of the configured timeouts to the windows is assumed.                   *)
THEOREM LoadsAreShared == Spec => []SingleFlight
BY IInvHolds, PTL DEF IInv

(* core/cache.ts shares promises, so whoever finds one has to rely on      *)
(* another task.  Every promise in a cache or awaited by a build has a task *)
(* at work that will settle it: no invalidation, failed read, thrown build *)
(* or reload leaves a waiter behind.                                       *)
THEOREM PromisesAreKept == Spec => []NobodyWaitsInVain
<1>1. IInv => NobodyWaitsInVain
  <2> SUFFICES ASSUME IInv PROVE NobodyWaitsInVain
    OBVIOUS
  <2>1. ASSUME NEW t \in Tasks, NEW s \in Sources, builds[t] # Idle, builds[t].got[s] \in Tasks
        PROVE  fetches[<<builds[t].got[s], s>>] # Idle
    BY <2>1 DEF IInv, BuildInv
  <2>2. ASSUME NEW g \in Gens, NEW k \in Keys, joint[<<g, k>>] # NoEntry, joint[<<g, k>>].value \in Tasks
        PROVE  /\ builds[joint[<<g, k>>].value] # Idle
               /\ builds[joint[<<g, k>>].value].gen = g /\ builds[joint[<<g, k>>].value].key = k
    BY <2>2 DEF IInv, JointInv, JointSound
  <2>3. ASSUME NEW g \in Gens, NEW s \in Arrs, own[<<g, s>>] # NoEntry, own[<<g, s>>].value \in Tasks
        PROVE  fetches[<<own[<<g, s>>].value, s>>] # Idle /\ fetches[<<own[<<g, s>>].value, s>>].gen = g
    BY <2>3 DEF IInv, OwnInv, OwnSound, NoOlder
  <2>4. QED
    BY <2>1, <2>2, <2>3 DEF NobodyWaitsInVain
<1>2. QED
  BY <1>1, IInvHolds, PTL

(* With two loaders the promise can break (MCLibraryReload), and only in   *)
(* one way: if no call of a write tool is in progress when a reload swaps  *)
(* the loader, neither at its apply nor at its plan before it, the one in  *)
(* use reflects every write that was reported as applied.                  *)
THEOREM WritesAreSeenAcrossReload == Spec /\ NoWriteStraddles => []ReadYourWritesAcrossReload
<1>1. NoWriteStraddles <=> [][NothingStraddles]_vars
  BY DEF NoWriteStraddles, NothingStraddles
<1>2. /\ TypeOK /\ VersionInv /\ OwnInv /\ AcrossInv /\ [Next]_vars /\ [NothingStraddles]_vars
      => AcrossInv'
  <2> SUFFICES ASSUME TypeOK, VersionInv, OwnInv, AcrossInv, [Next]_vars, [NothingStraddles]_vars
               PROVE  AcrossInv'
    OBVIOUS
  <2>1. NothingStraddles
    BY DEF NothingStraddles, vars
  <2>2. QED
    BY <2>1, UnbornStep, CurrentStep, FollowsStep DEF AcrossInv
<1>3. IInv => TypeOK /\ VersionInv /\ OwnInv
  BY DEF IInv
<1>4. QED
  BY <1>1, <1>2, <1>3, InitAcross, AcrossServes, IInvHolds, PTL DEF Spec

(* An answer from the joined library is never older than both windows and  *)
(* the longest read together, whatever those three are.                    *)
THEOREM StalenessIsBounded == Spec => []BoundedStaleness
BY IInvHolds, IInvStale, PTL

=============================================================================
