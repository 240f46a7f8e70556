---------------------------- MODULE LibraryCache ----------------------------
(***************************************************************************)
(* The two layers of TtlCache (core/cache.ts) every library answer comes   *)
(* through: each *arr adapter keeps its own whole-library read, and        *)
(* LibraryLoader (tools/library.ts) keeps the join of all sources, one per *)
(* user.  A cache holds PROMISES: a task that finds one still pending      *)
(* shares it.  A write that succeeded clears both layers of the loader it  *)
(* was built over; a reload swaps in a new loader over new adapters, while *)
(* the calls in progress keep the old ones (core/runtime.ts).              *)
(*                                                                         *)
(* A hit changes nothing and is no action.  A source is read at some       *)
(* moment between the request and its answer, and may be read for longer   *)
(* than its answer would be kept: nothing relates the configured timeouts  *)
(* to the windows of the caches.  Times are kept as what is left of a      *)
(* window and as the age of a reading, so that no clock has to be bounded. *)
(***************************************************************************)
EXTENDS Naturals, FiniteSets

CONSTANTS
  Tasks,        \* slots for library builds and searches in progress
  Writers,      \* slots for writes in progress
  Keys,         \* one snapshot per media server user, and one when none is resolved
  NoUser,       \* the key when no user could be resolved
  Arrs,         \* sources whose adapter caches its library
  MediaServers, \* sources read for one user, and cached only in the join
  TTL,          \* LIBRARY_TTL_MS
  DegradedTTL,  \* DEGRADED_TTL_MS
  Timeout,      \* the longest a read of one source takes, retries included
  NoEntry,      \* no entry under a key
  Idle,         \* a slot that is free
  Degraded,     \* a source whose read failed
  MaxVersion,   \* bound: changes of one source
  MaxGen        \* bound: reloads

Sources == Arrs \cup MediaServers

ASSUME TimesAssumption ==
  /\ TTL \in Nat \ {0} /\ DegradedTTL \in Nat /\ Timeout \in Nat
  /\ DegradedTTL <= TTL

ASSUME SourcesAssumption == Arrs \cap MediaServers = {}

VARIABLES
  version,  \* what each source would answer at this moment
  gen,      \* the current loader; `Runtime.#snapshot`
  joint,    \* `LibraryLoader.#cache`, of each loader
  own,      \* `#libraryCache`, of each adapter of each loader
  builds,   \* `LibraryLoader.#build` in progress
  fetches,  \* reads of a source in progress
  writes,   \* calls of a write tool in progress, each on the snapshot it was registered with
  acked,    \* history: the last change a write of this loader reported as applied
  epoch     \* history: how often a loader was invalidated

cacheVars == <<joint, own>>
taskVars == <<builds, fetches>>
vars == <<version, gen, joint, own, builds, fetches, writes, acked, epoch>>

Gens == 0 .. MaxGen

(* What a source answered, and how long ago it was asked.  A promise is    *)
(* the task that will settle it, until it is settled.                      *)
Reading == [v : Nat, age : Nat]
Promise == Tasks \cup Reading \cup {Degraded}
Snapshot == [Sources -> Reading \cup {Degraded}]

OwnEntry == [value : Tasks \cup Reading, left : Nat]
JointEntry == [value : Tasks \cup Snapshot, left : Nat]
Build == [gen : Gens, key : Keys, got : [Sources -> Promise], epoch : Nat, age : Nat]
Fetch == [gen : Gens, since : Nat, age : Nat, epoch : Nat]
Write == [gen : Gens, source : Sources, awaits : {"plan", "apply"}, landed : Nat]

(* Tasks, readings, snapshots and the names of what is missing are told    *)
(* apart.                                                                  *)
ASSUME NamesAssumption ==
  /\ \A t \in Tasks : t \notin Reading /\ t \notin [Sources -> Promise]
  /\ Degraded \notin Tasks /\ Degraded \notin Reading
  /\ NoEntry \notin OwnEntry /\ NoEntry \notin JointEntry
  /\ Idle \notin Build /\ Idle \notin Fetch /\ Idle \notin Write

ASSUME BoundsAssumption == MaxVersion \in Nat /\ MaxGen \in Nat

Init ==
  /\ version = [s \in Sources |-> 0]
  /\ gen = 0
  /\ joint = [k \in Gens \X Keys |-> NoEntry]
  /\ own = [k \in Gens \X Arrs |-> NoEntry]
  /\ builds = [t \in Tasks |-> Idle]
  /\ fetches = [f \in Tasks \X Sources |-> Idle]
  /\ writes = [w \in Writers |-> Idle]
  /\ acked = [k \in Gens \X Sources |-> 0]
  /\ epoch = [g \in Gens |-> 0]

-----------------------------------------------------------------------------
\* Fault: a pending promise is no hit, so every caller starts a load of its own.
LiveSettled(entry) == entry # NoEntry /\ entry.left > 0 /\ entry.value \notin Tasks

\* Fault: an entry is still served at the moment it expires.
LiveLate(entry) == entry # NoEntry /\ entry.left >= 0

\* The hit test of TtlCache.get.
Live(entry) == entry # NoEntry /\ entry.left > 0

Free(t) == builds[t] = Idle /\ \A s \in Sources : fetches[<<t, s>>] = Idle

\* The sources a build for this key has to ask; the rest are cached or out of reach.
Asked(g, key) ==
  {s \in Arrs : ~Live(own[<<g, s>>])} \cup (IF key = NoUser THEN {} ELSE MediaServers)

Request(g, s) == [gen |-> g, since |-> version[s], age |-> 0, epoch |-> epoch[g]]

\* The adapters of `asked` put the promise of task t in their own cache.
Fill(t, g, asked) ==
  /\ fetches' = [f \in Tasks \X Sources |->
       IF f[1] = t /\ f[2] \in asked THEN Request(g, f[2]) ELSE fetches[f]]
  /\ own' = [k \in Gens \X Arrs |->
       IF k[1] = g /\ k[2] \in asked
         THEN [value |-> t, left |-> TTL]
         ELSE own[k]]

(* LibraryLoader.load on a miss, and #build up to its await: all sources   *)
(* are asked at once.  A call that began before a reload still loads       *)
(* through the loader it began with.                                       *)
StartBuild(t, g, key) ==
  /\ Free(t)
  /\ g <= gen
  /\ ~Live(joint[<<g, key>>])
  /\ joint' = [joint EXCEPT ![<<g, key>>] = [value |-> t, left |-> TTL]]
  /\ builds' = [builds EXCEPT ![t] =
       [gen |-> g, key |-> key, epoch |-> epoch[g], age |-> 0,
        got |-> [s \in Sources |->
                   IF s \in Asked(g, key) THEN t
                   ELSE IF s \in Arrs THEN own[<<g, s>>].value
                   ELSE Degraded]]]
  /\ Fill(t, g, Asked(g, key))
  /\ UNCHANGED <<version, gen, writes, acked, epoch>>

\* `search` of an adapter, which reads its cached library and nothing else.
StartSearch(t, g, s) ==
  /\ Free(t)
  /\ g <= gen
  /\ ~Live(own[<<g, s>>])
  /\ Fill(t, g, {s})
  /\ UNCHANGED <<version, gen, joint, builds, writes, acked, epoch>>

\* Fault: only the task that started the read learns how it went.
DeliverToOwner(t, s, outcome) ==
  builds' = [builds EXCEPT ![t] =
    IF @ # Idle /\ @.got[s] = t THEN [@ EXCEPT !.got[s] = outcome] ELSE @]

\* Every build that shares the promise of task t for source s sees how it settled.
Deliver(t, s, outcome) ==
  builds' = [b \in Tasks |->
    IF builds[b] # Idle /\ builds[b].got[s] = t
      THEN [builds[b] EXCEPT !.got[s] = outcome]
      ELSE builds[b]]

\* The identity guard of TtlCache: an entry someone else has replaced is left alone.
Guarded(entry, t, settled) == IF entry # NoEntry /\ entry.value = t THEN settled ELSE entry

ReadSettles(t, s) ==
  LET fetch == fetches[<<t, s>>] IN
  /\ fetch # Idle
  /\ \E v \in fetch.since .. version[s] :
       LET reading == [v |-> v, age |-> fetch.age] IN
       /\ Deliver(t, s, reading)
       /\ own' = [k \in Gens \X Arrs |->
            IF k = <<fetch.gen, s>>
              THEN Guarded(own[k], t, [value |-> reading, left |-> own[k].left])
              ELSE own[k]]
  /\ fetches' = [fetches EXCEPT ![<<t, s>>] = Idle]
  /\ UNCHANGED <<version, gen, joint, writes, acked, epoch>>

ReadFails(t, s) ==
  LET fetch == fetches[<<t, s>>] IN
  /\ fetch # Idle
  /\ Deliver(t, s, Degraded)
  /\ own' = [k \in Gens \X Arrs |->
       IF k = <<fetch.gen, s>> THEN Guarded(own[k], t, NoEntry) ELSE own[k]]
  /\ fetches' = [fetches EXCEPT ![<<t, s>>] = Idle]
  /\ UNCHANGED <<version, gen, joint, writes, acked, epoch>>

\* Fault: the build goes on with the first source that answers.
GatheredSome(t) == builds[t] # Idle /\ \E s \in Sources : builds[t].got[s] \notin Tasks

\* gather has heard from every source.
Gathered(t) == builds[t] # Idle /\ \A s \in Sources : builds[t].got[s] \notin Tasks

Worth(snapshot) == IF \E s \in Sources : snapshot[s] = Degraded THEN DegradedTTL ELSE TTL

\* Fault: a build puts its snapshot in the cache whatever became of its entry.
BuildSettlesUnguarded(t) ==
  /\ Gathered(t)
  /\ joint' = [joint EXCEPT ![<<builds[t].gen, builds[t].key>>] =
       [value |-> builds[t].got, left |-> Worth(builds[t].got)]]
  /\ builds' = [builds EXCEPT ![t] = Idle]
  /\ UNCHANGED <<version, gen, own, fetches, writes, acked, epoch>>

\* A snapshot is kept for long, or for a moment when a source is missing from it.
BuildSettles(t) ==
  /\ Gathered(t)
  /\ joint' = [joint EXCEPT ![<<builds[t].gen, builds[t].key>>] =
       Guarded(@, t, [value |-> builds[t].got, left |-> Worth(builds[t].got)])]
  /\ builds' = [builds EXCEPT ![t] = Idle]
  /\ UNCHANGED <<version, gen, own, fetches, writes, acked, epoch>>

\* Joining, rating or indexing the rows threw: the entry is dropped.
BuildThrows(t) ==
  /\ Gathered(t)
  /\ joint' = [joint EXCEPT ![<<builds[t].gen, builds[t].key>>] = Guarded(@, t, NoEntry)]
  /\ builds' = [builds EXCEPT ![t] = Idle]
  /\ UNCHANGED <<version, gen, own, fetches, writes, acked, epoch>>

-----------------------------------------------------------------------------
\* LibraryLoader.invalidate.
invalidate(g) ==
  /\ joint' = [k \in Gens \X Keys |-> IF k[1] = g THEN NoEntry ELSE joint[k]]
  /\ own' = [k \in Gens \X Arrs |-> IF k[1] = g THEN NoEntry ELSE own[k]]

(* A write tool is called.  It was registered over the snapshot current at *)
(* that moment, and keeps it to its end, whatever it awaits: its plan is   *)
(* made first.                                                             *)
CallWrite(w, s) ==
  /\ writes[w] = Idle
  /\ writes' = [writes EXCEPT ![w] =
       [gen |-> gen, source |-> s, awaits |-> "plan", landed |-> 0]]
  /\ UNCHANGED <<version, gen, cacheVars, taskVars, acked, epoch>>

\* The call passes permission and confirmation, and sends its operation.
StartWrite(w) ==
  /\ writes[w] # Idle
  /\ writes[w].awaits = "plan"
  /\ writes' = [writes EXCEPT ![w].awaits = "apply"]
  /\ UNCHANGED <<version, gen, cacheVars, taskVars, acked, epoch>>

\* External: the service carries it out.
WriteLands(w) ==
  /\ writes[w] # Idle
  /\ writes[w].awaits = "apply"
  /\ writes[w].landed = 0
  /\ version[writes[w].source] < MaxVersion
  /\ version' = [version EXCEPT ![writes[w].source] = @ + 1]
  /\ writes' = [writes EXCEPT ![w].landed = version[writes[w].source] + 1]
  /\ UNCHANGED <<gen, cacheVars, taskVars, acked, epoch>>

\* The write tool reports success, and clears the loader it was registered with.
WriteReturns(w) ==
  LET write == writes[w] IN
  /\ write # Idle
  /\ write.landed # 0
  /\ invalidate(write.gen)
  /\ acked' = [acked EXCEPT ![<<write.gen, write.source>>] =
       IF write.landed > @ THEN write.landed ELSE @]
  /\ epoch' = [epoch EXCEPT ![write.gen] = @ + 1]
  /\ writes' = [writes EXCEPT ![w] = Idle]
  /\ UNCHANGED <<version, gen, taskVars>>

\* The call ends with nothing to report: a preview, a refusal, or an error on the way.
WriteFails(w) ==
  /\ writes[w] # Idle
  /\ writes' = [writes EXCEPT ![w] = Idle]
  /\ UNCHANGED <<version, gen, cacheVars, taskVars, acked, epoch>>

\* External: the library changes behind this server's back, or a failed write lands.
Drift(s) ==
  /\ version[s] < MaxVersion
  /\ version' = [version EXCEPT ![s] = @ + 1]
  /\ UNCHANGED <<gen, cacheVars, taskVars, writes, acked, epoch>>

\* A saved configuration is applied: a new loader over new adapters.
Reload ==
  /\ gen < MaxGen
  /\ gen' = gen + 1
  /\ UNCHANGED <<version, cacheVars, taskVars, writes, acked, epoch>>

Older(promise) ==
  IF promise \in Tasks \cup {Degraded} THEN promise ELSE [promise EXCEPT !.age = @ + 1]

OlderSnapshot(snapshot) ==
  IF snapshot \in Tasks THEN snapshot ELSE [s \in Sources |-> Older(snapshot[s])]

(* An entry past its window is no hit, and stays until a lookup replaces   *)
(* it.  Only a pending one matters: its load may settle yet, and gives it  *)
(* a new window.  A settled one is dropped, as no lookup could tell.       *)
Shorter(entry, value) ==
  IF entry.left = 0
    THEN IF entry.value \in Tasks THEN entry ELSE NoEntry
    ELSE [value |-> value, left |-> entry.left - 1]

(* Time passes.  No read outlasts its timeout, and a build whose sources   *)
(* have all answered settles at once.                                      *)
Tick ==
  /\ \A f \in Tasks \X Sources : fetches[f] # Idle => fetches[f].age < Timeout
  /\ \A t \in Tasks : ~Gathered(t)
  /\ fetches' = [f \in Tasks \X Sources |->
       IF fetches[f] = Idle THEN Idle ELSE [fetches[f] EXCEPT !.age = @ + 1]]
  /\ builds' = [t \in Tasks |->
       IF builds[t] = Idle THEN Idle
       ELSE [builds[t] EXCEPT !.got = OlderSnapshot(@), !.age = @ + 1]]
  /\ own' = [k \in Gens \X Arrs |->
       IF own[k] = NoEntry THEN NoEntry ELSE Shorter(own[k], Older(own[k].value))]
  /\ joint' = [k \in Gens \X Keys |->
       IF joint[k] = NoEntry THEN NoEntry ELSE Shorter(joint[k], OlderSnapshot(joint[k].value))]
  /\ UNCHANGED <<version, gen, writes, acked, epoch>>

Next ==
  \/ \E t \in Tasks :
       \/ \E g \in Gens, key \in Keys : StartBuild(t, g, key)
       \/ \E g \in Gens, s \in Arrs : StartSearch(t, g, s)
       \/ \E s \in Sources : ReadSettles(t, s) \/ ReadFails(t, s)
       \/ BuildSettles(t)
       \/ BuildThrows(t)
  \/ \E w \in Writers :
       \/ \E s \in Sources : CallWrite(w, s)
       \/ StartWrite(w)
       \/ WriteLands(w)
       \/ WriteReturns(w)
       \/ WriteFails(w)
  \/ \E s \in Sources : Drift(s)
  \/ Reload
  \/ Tick

Spec == Init /\ [][Next]_vars

(* Every read ends, with an answer, an error or its timeout, and a build   *)
(* that has heard from all its sources has nothing left to wait for.       *)
Fairness ==
  \A t \in Tasks :
    /\ \A s \in Sources : WF_vars(ReadSettles(t, s) \/ ReadFails(t, s))
    /\ WF_vars(BuildSettles(t) \/ BuildThrows(t))

FairSpec == Spec /\ Fairness

-----------------------------------------------------------------------------
TypeOK ==
  /\ version \in [Sources -> Nat]
  /\ gen \in Gens
  /\ joint \in [Gens \X Keys -> JointEntry \cup {NoEntry}]
  /\ own \in [Gens \X Arrs -> OwnEntry \cup {NoEntry}]
  /\ builds \in [Tasks -> Build \cup {Idle}]
  /\ fetches \in [Tasks \X Sources -> Fetch \cup {Idle}]
  /\ writes \in [Writers -> Write \cup {Idle}]
  /\ acked \in [Gens \X Sources -> Nat]
  /\ epoch \in [Gens -> Nat]

\* What a promise for source s yields is no older than change `floor` of it.
NoOlder(promise, s, floor) ==
  IF promise \in Tasks THEN fetches[<<promise, s>>] # Idle /\ fetches[<<promise, s>>].since >= floor
  ELSE promise # Degraded => promise.v >= floor

\* Whoever asks loader g now is not given a library older than the change `floor`.
Serves(g, s, floor) ==
  /\ s \in Arrs /\ own[<<g, s>>] # NoEntry => NoOlder(own[<<g, s>>].value, s, floor)
  /\ \A key \in Keys : joint[<<g, key>>] # NoEntry =>
       IF joint[<<g, key>>].value \in Tasks
         THEN NoOlder(builds[joint[<<g, key>>].value].got[s], s, floor)
         ELSE NoOlder(joint[<<g, key>>].value[s], s, floor)

(* tools/library.ts: "the next get_library reflects it".  After a write    *)
(* tool has reported success, neither the join nor an adapter of its       *)
(* loader holds or awaits anything read before that write landed, whatever *)
(* was in flight meanwhile.                                                *)
ReadYourWrites == \A g \in Gens, s \in Sources : Serves(g, s, acked[<<g, s>>])

(* The same across a reload: the loader in use reflects every write that   *)
(* was reported as applied, whichever snapshot it ran on.                  *)
ReadYourWritesAcrossReload ==
  \A g \in Gens, s \in Sources : Serves(gen, s, acked[<<g, s>>])

(* It does if no call of a write tool, from its plan to its report, is in  *)
(* progress when a reload swaps the loader.                                *)
NoWriteStraddles ==
  [][gen' # gen => \A w \in Writers : writes[w] = Idle]_vars

(* The two windows add up: the join may be built from an adapter's copy    *)
(* that is about to expire, so an answer can be older than the TTL.  It is *)
(* never older than both windows and the time its build took.              *)
BoundedStaleness ==
  \A g \in Gens, key \in Keys, s \in Sources :
    LET entry == joint[<<g, key>>] IN
    /\ Live(entry)
    /\ entry.value \notin Tasks
    /\ entry.value[s] # Degraded
    => entry.value[s].age <= 2 * (TTL - 1) + Timeout

(* core/cache.ts: "two concurrent callers find the same in-flight promise". *)
(* Two loads of one thing are in progress only when an invalidation came   *)
(* between them, or when the first outlasted the window its promise had in *)
(* the cache.                                                              *)
SingleFlight ==
  /\ \A b1, b2 \in {t \in Tasks : builds[t] # Idle /\ builds[t].age < TTL} :
       b1 # b2 /\ builds[b1].gen = builds[b2].gen /\ builds[b1].key = builds[b2].key
       => builds[b1].epoch # builds[b2].epoch
  /\ \A s \in Arrs :
       \A t1, t2 \in {t \in Tasks : fetches[<<t, s>>] # Idle /\ fetches[<<t, s>>].age < TTL} :
         t1 # t2 /\ fetches[<<t1, s>>].gen = fetches[<<t2, s>>].gen
         => fetches[<<t1, s>>].epoch # fetches[<<t2, s>>].epoch

(* Whoever awaits a promise awaits somebody at work: a build the reads it  *)
(* has not heard of, and a caller that finds a pending entry the build or  *)
(* the read that will settle it.                                           *)
NobodyWaitsInVain ==
  /\ \A t \in Tasks, s \in Sources :
       builds[t] # Idle /\ builds[t].got[s] \in Tasks => fetches[<<builds[t].got[s], s>>] # Idle
  /\ \A g \in Gens, key \in Keys :
       LET entry == joint[<<g, key>>] IN
       entry # NoEntry /\ entry.value \in Tasks =>
         builds[entry.value] # Idle /\ builds[entry.value].gen = g /\ builds[entry.value].key = key
  /\ \A g \in Gens, s \in Arrs :
       LET entry == own[<<g, s>>] IN
       entry # NoEntry /\ entry.value \in Tasks =>
         fetches[<<entry.value, s>>] # Idle /\ fetches[<<entry.value, s>>].gen = g

(* Every library load is answered, also one that shares a read another     *)
(* call started and that an invalidation has dropped from the cache since. *)
EveryLoadSettles == \A t \in Tasks : builds[t] # Idle ~> builds[t] = Idle

=============================================================================
