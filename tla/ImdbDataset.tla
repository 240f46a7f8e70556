----------------------------- MODULE ImdbDataset -----------------------------
(***************************************************************************)
(* The local copy of IMDb's dumps: imdb.db (metadata/imdbDataset.ts), the  *)
(* weekly refresh that downloads the dumps into a staging directory and    *)
(* replaces the copy in one transaction (metadata/refresh.ts), the worker  *)
(* thread it runs in (metadata/ingestWorker.ts), and the switch of the     *)
(* configuration that opens and closes it (Runtime.#syncDataset).          *)
(*                                                                         *)
(* A worker has a connection of its own, so closing the dataset does not   *)
(* stop it: it goes on, and the refresher of the next opening knows        *)
(* nothing of it.  A dump is the day it was published on.  The age of a    *)
(* staging directory is the time since a file was last created in it or    *)
(* removed from it.  Opening the worker takes no time beside a download.   *)
(***************************************************************************)
EXTENDS Naturals, FiniteSets

CONSTANTS
  Ingests,        \* slots for ingests in progress
  Timeout,        \* DOWNLOAD_TIMEOUT_MS
  Writing,        \* the longest a replace and its VACUUM take
  AbandonedAfter, \* ABANDONED_AFTER_MS
  Interval,       \* REFRESH_INTERVAL_MS
  Superseded,     \* the tables of an older version
  Empty,          \* tables without rows
  Idle,           \* a slot that is free
  Renewed,        \* bound: the dumps of which newer ones are published
  MaxDay,         \* bound: publications of each of them
  MaxLeftovers,   \* bound: leftovers beside which an ingest may leave one
  MaxCrashes      \* bound: ends of the process

ASSUME TimesAssumption ==
  /\ Timeout \in Nat \ {0} /\ Writing \in Nat /\ Interval \in Nat \ {0}
  /\ AbandonedAfter \in Nat
  /\ Timeout + Writing < AbandonedAfter /\ 2 * Timeout < AbandonedAfter

VARIABLES
  published, \* the day of each dump at IMDb
  dataset,   \* what imdb.db holds
  open,      \* the configuration has it on: Runtime.#dataset and its timer exist
  due,       \* until that timer fires
  ingests,   \* the ingests in progress
  leftovers, \* ages of the staging directories no ingest uses, counted on
             \* from AbandonedAfter when an ingest was to sweep them in vain
  fetched,   \* history: the dumps one ingest downloaded both of
  crashes    \* how often the process ended

outside == <<published, crashes>>
vars == <<published, dataset, open, due, ingests, leftovers, fetched, crashes>>

Days == 0..MaxDay
Dumps == [titles : Days, ratings : Days]

ASSUME BoundsAssumption ==
  /\ Renewed \subseteq {"titles", "ratings"}
  /\ MaxDay \in Nat /\ MaxLeftovers \in Nat /\ MaxCrashes \in Nat
  /\ {Superseded, Empty} \cap Dumps = {}

Ingest == [pc : {"opening", "titles", "titlesBody", "ratings", "ratingsBody",
                 "staged", "replacing", "vacuum"},
           own : BOOLEAN,     \* the refresher that started it still runs
           titles : Days, ratings : Days,
           clock : Nat,       \* since its last download began
           age : Nat,         \* of its staging directory
           staged : BOOLEAN,  \* which is there
           beside : BOOLEAN]  \* history: it ran beside an ingest of another refresher

ASSUME IdleAssumption == Idle \notin Ingest

\* The longest one ingest takes, and the age at which any leftover was swept.
Longest == 2 * Timeout + Writing
Reclaimed == AbandonedAfter + Longest + Interval

Init ==
  /\ published = [titles |-> 0, ratings |-> 0]
  /\ dataset \in {Superseded, Empty}
  /\ open = FALSE
  /\ due = 0
  /\ ingests = [i \in Ingests |-> Idle]
  /\ leftovers = {}
  /\ fetched = {}
  /\ crashes = 0

Busy == {i \in Ingests : ingests[i] # Idle}
\* `running` of the refresher in force.
Running == \E i \in Busy : ingests[i].own
\* The write lock of the database.
Locked == \E i \in Busy : ingests[i].pc = "replacing"

-----------------------------------------------------------------------------
\* Fault: every directory of the prefix is taken for an abandoned one.
AbandonedAny(age) == TRUE

\* Fault: the age of a directory is taken in seconds.
AbandonedInSeconds(age) == age >= 1000 * AbandonedAfter

Abandoned(age) == age >= AbandonedAfter

\* A new ingest beside those in `before`, whose worker is yet to open the file.
StartIngest(before) ==
  \E i \in Ingests :
    /\ before[i] = Idle
    /\ ingests' = [j \in Ingests |->
         IF j = i
           THEN [pc |-> "opening", own |-> TRUE, titles |-> 0, ratings |-> 0, clock |-> 0, age |-> 0,
                 staged |-> FALSE, beside |-> \E k \in Ingests : before[k] # Idle /\ ~before[k].own]
           ELSE IF before[j] = Idle THEN Idle
           ELSE [before[j] EXCEPT !.beside = @ \/ ~before[j].own]]

\* Opening the file drops what an older version left in it.
Opened == IF dataset = Superseded THEN Empty ELSE dataset

\* Fault: the week is counted from when the first download is given up.
SwitchOnLate ==
  /\ ~open
  /\ open' = TRUE
  /\ dataset' = Opened
  /\ due' = Timeout + Interval
  /\ StartIngest(ingests)
  /\ UNCHANGED <<leftovers, fetched, outside>>

\* #syncDataset: the file is opened and the refresh started.
SwitchOn ==
  /\ ~open
  /\ open' = TRUE
  /\ dataset' = Opened
  /\ due' = Interval
  /\ StartIngest(ingests)
  /\ UNCHANGED <<leftovers, fetched, outside>>

\* The timer is cleared and the handle closed; a worker in flight goes on.
SwitchOff ==
  /\ open
  /\ open' = FALSE
  /\ due' = 0
  /\ ingests' = [i \in Ingests |->
       IF ingests[i] = Idle THEN Idle ELSE [ingests[i] EXCEPT !.own = FALSE]]
  /\ UNCHANGED <<dataset, leftovers, fetched, outside>>

\* Fault: the timer does not look whether its last ingest is still running.
TimerFiresAnyway ==
  /\ open /\ due = 0
  /\ due' = Interval
  /\ StartIngest(ingests)
  /\ UNCHANGED <<dataset, open, leftovers, fetched, outside>>

\* The weekly refresh; it is skipped while the last one is still running.
TimerFires ==
  /\ open /\ due = 0
  /\ due' = Interval
  /\ IF Running THEN UNCHANGED ingests ELSE StartIngest(ingests)
  /\ UNCHANGED <<dataset, open, leftovers, fetched, outside>>

-----------------------------------------------------------------------------
\* The worker cannot be started or cannot open the file: nothing is swept.
OpenFails(i) ==
  /\ ingests[i] # Idle /\ ingests[i].pc = "opening"
  /\ ingests' = [ingests EXCEPT ![i] = Idle]
  /\ leftovers' = {IF Abandoned(a) THEN AbandonedAfter ELSE a : a \in leftovers}
  /\ UNCHANGED <<dataset, open, due, fetched, outside>>

(* What a sweep may leave of the leftovers.  It gives up if the temp       *)
(* directory cannot be read, and passes over a leftover it cannot remove,  *)
(* or of which it could only remove some files.                            *)
Sweepings ==
  LET failed == IF \E a \in leftovers : Abandoned(a) THEN {0, AbandonedAfter} ELSE {}
  IN {{a \in leftovers : ~Abandoned(a)} \cup passed : passed \in SUBSET failed}

Swept(x) == IF x = Idle THEN Idle ELSE [x EXCEPT !.staged = @ /\ ~Abandoned(x.age)]

\* ingestOnce up to its first await: the sweep, and a staging directory of its own.
Sweep(i) ==
  /\ ingests[i] # Idle /\ ingests[i].pc = "opening"
  /\ leftovers' \in Sweepings
  /\ \E mine \in {[ingests[i] EXCEPT !.pc = "titles", !.staged = TRUE], Idle} :
       ingests' = [j \in Ingests |-> IF j = i THEN mine ELSE Swept(ingests[j])]
  /\ UNCHANGED <<dataset, open, due, fetched, outside>>

-----------------------------------------------------------------------------
\* `finally`: the staging directory is removed, unless that fails or the worker is gone.
Ends(i) ==
  /\ ingests' = [ingests EXCEPT ![i] = Idle]
  /\ \E left \in {{}, {0}, {ingests[i].age}} :
       /\ left # {} => Cardinality(leftovers) < MaxLeftovers
       /\ leftovers' = leftovers \cup left

\* title.basics is created in the staging directory when its answer begins.
TitlesAnswered(i) ==
  /\ ingests[i] # Idle /\ ingests[i].pc = "titles"
  /\ ingests' = [ingests EXCEPT ![i] = [@ EXCEPT !.pc = "titlesBody", !.age = 0,
                                                 !.titles = published.titles]]
  /\ UNCHANGED <<dataset, open, due, leftovers, fetched, outside>>

\* Fault: each dump is put in the copy as soon as it has landed.
TitlesLandAtOnce(i) ==
  /\ ingests[i] # Idle /\ ingests[i].pc = "titlesBody"
  /\ ingests' = [ingests EXCEPT ![i] = [@ EXCEPT !.pc = "ratings", !.clock = 0]]
  /\ dataset' = IF dataset \in Dumps THEN [dataset EXCEPT !.titles = ingests[i].titles] ELSE dataset
  /\ UNCHANGED <<open, due, leftovers, fetched, outside>>

TitlesLand(i) ==
  /\ ingests[i] # Idle /\ ingests[i].pc = "titlesBody"
  /\ ingests' = [ingests EXCEPT ![i] = [@ EXCEPT !.pc = "ratings", !.clock = 0]]
  /\ UNCHANGED <<dataset, open, due, leftovers, fetched, outside>>

RatingsAnswered(i) ==
  /\ ingests[i] # Idle /\ ingests[i].pc = "ratings"
  /\ ingests' = [ingests EXCEPT ![i] = [@ EXCEPT !.pc = "ratingsBody", !.age = 0,
                                                 !.ratings = published.ratings]]
  /\ UNCHANGED <<dataset, open, due, leftovers, fetched, outside>>

RatingsLand(i) ==
  /\ ingests[i] # Idle /\ ingests[i].pc = "ratingsBody"
  /\ ingests' = [ingests EXCEPT ![i] = [@ EXCEPT !.pc = "staged"]]
  /\ fetched' = fetched \cup {[titles |-> ingests[i].titles, ratings |-> ingests[i].ratings]}
  /\ UNCHANGED <<dataset, open, due, leftovers, outside>>

Downloads == {"titles", "titlesBody", "ratings", "ratingsBody"}

Downloading(i) == ingests[i] # Idle /\ ingests[i].pc \in Downloads

DownloadFails(i) ==
  /\ Downloading(i)
  /\ Ends(i)
  /\ UNCHANGED <<dataset, open, due, fetched, outside>>

\* Fault: a download that hangs is waited for.
DownloadHangs(i) ==
  /\ Downloading(i) /\ ingests[i].clock > Timeout
  /\ Ends(i)
  /\ UNCHANGED <<dataset, open, due, fetched, outside>>

DownloadTimesOut(i) ==
  /\ Downloading(i) /\ ingests[i].clock >= Timeout
  /\ Ends(i)
  /\ UNCHANGED <<dataset, open, due, fetched, outside>>

\* The transaction of replaceAll takes the write lock with its first DELETE.
ReplaceBegins(i) ==
  /\ ingests[i] # Idle /\ ingests[i].pc = "staged"
  /\ ~Locked
  /\ ingests' = [ingests EXCEPT ![i] = [@ EXCEPT !.pc = "replacing"]]
  /\ UNCHANGED <<dataset, open, due, leftovers, fetched, outside>>

Commits(i) ==
  /\ ingests[i] # Idle /\ ingests[i].pc = "replacing"
  /\ dataset' = [titles |-> ingests[i].titles, ratings |-> ingests[i].ratings]
  /\ ingests' = [ingests EXCEPT ![i] = [@ EXCEPT !.pc = "vacuum"]]
  /\ UNCHANGED <<open, due, leftovers, fetched, outside>>

\* The database is busy, a dump cannot be read or the disk is full: it is rolled back.
ReplaceFails(i) ==
  /\ ingests[i] # Idle /\ ingests[i].pc \in {"staged", "replacing"}
  /\ Ends(i)
  /\ UNCHANGED <<dataset, open, due, fetched, outside>>

\* It may also fail, as when the database is busy; the dumps are committed by then.
VacuumEnds(i) ==
  /\ ingests[i] # Idle /\ ingests[i].pc = "vacuum"
  /\ Ends(i)
  /\ UNCHANGED <<dataset, open, due, fetched, outside>>

-----------------------------------------------------------------------------
(* The process ends and is started again: its workers end with it, their   *)
(* transactions are rolled back and their staging directories stay.        *)
Restart ==
  /\ crashes < MaxCrashes
  /\ crashes' = crashes + 1
  /\ leftovers' = leftovers \cup {ingests[i].age : i \in {j \in Busy : ingests[j].staged}}
  /\ LET ended == [i \in Ingests |-> Idle]
     IN IF open
          THEN due' = Interval /\ StartIngest(ended)
          ELSE due' = due /\ ingests' = ended
  /\ UNCHANGED <<published, dataset, open, fetched>>

\* External: IMDb publishes one of its dumps of the next day.
Publish(dump) ==
  /\ published[dump] < MaxDay
  /\ published' = [published EXCEPT ![dump] = @ + 1]
  /\ UNCHANGED <<dataset, open, due, ingests, leftovers, fetched, crashes>>

Limit(ingest) ==
  IF ingest.pc = "opening" THEN 0
  ELSE IF ingest.pc \in Downloads THEN Timeout
  ELSE Timeout + Writing

(* Time passes: a timer that is due fires first, a download out of time    *)
(* fails first, and a replace ends in time.  Older than reclaimed is as    *)
(* good as older still.                                                    *)
Tick ==
  /\ open => due > 0
  /\ \A i \in Busy : ingests[i].clock < Limit(ingests[i])
  /\ due' = IF due = 0 THEN 0 ELSE due - 1
  /\ ingests' = [i \in Ingests |->
       IF ingests[i] = Idle THEN Idle ELSE [ingests[i] EXCEPT !.clock = @ + 1, !.age = @ + 1]]
  /\ leftovers' = {IF a > Reclaimed THEN a ELSE a + 1 : a \in leftovers}
  /\ UNCHANGED <<dataset, open, fetched, outside>>

Next ==
  \/ SwitchOn
  \/ SwitchOff
  \/ TimerFires
  \/ \E i \in Ingests :
       \/ OpenFails(i)
       \/ Sweep(i)
       \/ TitlesAnswered(i)
       \/ TitlesLand(i)
       \/ RatingsAnswered(i)
       \/ RatingsLand(i)
       \/ DownloadFails(i)
       \/ DownloadTimesOut(i)
       \/ ReplaceBegins(i)
       \/ Commits(i)
       \/ ReplaceFails(i)
       \/ VacuumEnds(i)
  \/ Restart
  \/ \E dump \in Renewed : Publish(dump)
  \/ Tick

Spec == Init /\ [][Next]_vars

(* Timers fire, downloads are given up, and what a worker does with its    *)
(* dumps is its own code running to the end.                               *)
Fairness ==
  /\ WF_vars(Tick)
  /\ WF_vars(TimerFires)
  /\ \A i \in Ingests :
       /\ WF_vars(OpenFails(i) \/ Sweep(i))
       /\ WF_vars(DownloadTimesOut(i))
       /\ WF_vars(ReplaceBegins(i) \/ Commits(i) \/ ReplaceFails(i) \/ VacuumEnds(i))

FairSpec == Spec /\ Fairness

-----------------------------------------------------------------------------
TypeOK ==
  /\ published \in Dumps
  /\ dataset \in Dumps \cup {Superseded, Empty}
  /\ open \in BOOLEAN
  /\ due \in 0..Interval
  /\ ingests \in [Ingests -> Ingest \cup {Idle}]
  /\ leftovers \subseteq 0 .. Reclaimed + 1
  /\ fetched \subseteq Dumps
  /\ crashes \in 0..MaxCrashes

(* refresh.ts: "a download dying between them cannot leave today's titles  *)
(* standing against yesterday's ratings".  The copy is always both dumps   *)
(* of one ingest, whatever failed, overlapped or ended half way.           *)
WholeDownload == dataset \in fetched \cup {Superseded, Empty}

(* A refresh never puts an older dump in place of a newer one, except when *)
(* the dataset was switched off and on again under a running ingest.       *)
NeverBack ==
  [][\A i \in Ingests :
       ingests[i] # Idle /\ ~ingests[i].beside /\ dataset \in Dumps /\ Commits(i)
       => dataset'.titles >= dataset.titles /\ dataset'.ratings >= dataset.ratings]_vars

(* refresh.ts: "deleting a running ingest's dumps out from under it would  *)
(* turn a slow disk leak into a broken refresh".  No sweep takes the       *)
(* staging directory of an ingest that is still at work, an orphaned one   *)
(* included.                                                               *)
StagingSafe == \A i \in Busy : ingests[i].pc # "opening" => ingests[i].staged

\* The refresher's ingest has begun, and not yet come to its sweep.
Opening == \E i \in Busy : ingests[i].own /\ ingests[i].pc = "opening"

(* What an ingest left in the temp directory is swept a day, one interval  *)
(* and one ingest later at the latest while the dataset is on, and if it   *)
(* could not be, another try follows within one interval and one ingest:   *)
(* a timer that finds its ingest at work skips one sweep, never two.       *)
LeftoversSwept == open /\ ~Opening => \A a \in leftovers : a <= Reclaimed

(* While the dataset stays on, refreshes are started for ever, whatever    *)
(* became of the earlier ones: none of them wedges the refresher.          *)
RefreshGoesOn ==
  <>[]open => []<>Opening

(* The comment at #syncDataset: an ingest in flight when the dataset is    *)
(* switched off "will fail on the closed handle"; and refresh.ts: two of   *)
(* them sharing one sweep and one database must not be.                    *)
OneIngestAtATime == Cardinality(Busy) <= 1

(* They never are if the dataset is only switched off while none runs: the *)
(* guard of the refresher itself lets none through.                        *)
NoIngestStraddles == [][SwitchOff => Busy = {}]_vars

=============================================================================
