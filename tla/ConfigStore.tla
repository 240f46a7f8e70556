---------------------------- MODULE ConfigStore ----------------------------
(***************************************************************************)
(* config.yaml and everyone who changes it: saves from the config UI and   *)
(* the management API (config/save.ts, config/commit.ts, api/write.ts,     *)
(* web/routes.ts), the claim of a new instance (POST /ui/setup), the       *)
(* loader, which hashes plaintext tokens it finds (config/load.ts), the    *)
(* reloads of Runtime (core/runtime.ts), and a person with an editor.      *)
(*                                                                         *)
(* What a configuration says is the set of edits in it: one for each save, *)
(* one for each hand edit, the password of whoever claimed the instance    *)
(* being one.  A save is built on the configuration that was running when  *)
(* it began.  Three queues order the work: saves, replacements of the      *)
(* file, and reloads.  A replacement is a rename, so a crash leaves either *)
(* text whole.                                                             *)
(***************************************************************************)
EXTENDS Naturals, Sequences, FiniteSets

CONSTANTS
  Setups,       \* posts of the setup form, each of which may be made once
  Commits,      \* other saves, likewise
  Hands,        \* hand edits, likewise
  Owner,        \* the password of an instance that is claimed from the start
  Keys,         \* the management keys of an instance that has some from the start
  Loader,       \* the loader, as an author of replacements
  Missing,      \* no config.yaml
  Down,         \* no process
  MaxRestarts   \* bound: crashes

Requests == Setups \cup Commits
Edits == Requests \cup Hands \cup {Owner, Keys}

ASSUME EditsAssumption ==
  /\ Setups \cap Commits = {}
  /\ (Requests \cup {Owner, Keys}) \cap Hands = {}
  /\ Owner \notin Requests /\ Keys \notin Requests /\ Owner # Keys
  /\ Loader \notin Requests

VARIABLES
  file,         \* config.yaml
  running,      \* what the configuration in force says
  saves,        \* the saves
  saveQueue,    \* `writes` of config/save.ts
  replaceQueue, \* `replaces` of config/save.ts
  reloadQueue,  \* `Runtime.#reloads`
  loader,       \* the reload at the head of its queue
  hands,        \* hand edits made
  restarts,     \* crashes
  written,      \* history: edits that reached the file since it was last deleted
  exposed,      \* history: those a replacement computed before them could undo
  unread        \* history: the file was changed by hand since it was last loaded

queues == <<saveQueue, replaceQueue, reloadQueue>>
history == <<written, exposed, unread>>
vars == <<file, running, saves, queues, loader, hands, restarts, history>>

Content == [edits : SUBSET Edits,
            plain : BOOLEAN,  \* it holds a token in plaintext
            auth : BOOLEAN,   \* it has an auth block
            valid : BOOLEAN]  \* it loads

ASSUME ModelValuesAssumption ==
  Missing \notin Content /\ \A edits \in SUBSET Edits : Down # edits

ASSUME BoundAssumption == MaxRestarts \in Nat

Seed == [edits |-> {}, plain |-> FALSE, auth |-> TRUE, valid |-> TRUE]

Loads(f) == f # Missing /\ f.valid

Claimed(edits) == edits \cap (Setups \cup {Owner}) # {}

\* Somebody may save: whoever signs in, or calls the management API with a key.
Managed(edits) == Claimed(edits) \/ Keys \in edits

Save == [pc : {"idle", "built", "queued", "replacing", "reloading", "drifted",
               "saved", "refused", "failed", "lost"},
         expected : SUBSET Edits]

\* A save that is over remembers nothing.
Finished(pc) == [pc |-> pc, expected |-> {}]

Reload == [pc : {"idle", "rewriting", "read"}, seen : Content]

InProgress == {"built", "queued", "replacing", "reloading", "drifted"}

(* An instance that is set up or is not, with management keys or without.  *)
(* A file that has neither may have no auth block.                         *)
Init ==
  /\ \E edits \in SUBSET {Owner, Keys}, auth \in BOOLEAN :
       file = [Seed EXCEPT !.edits = edits, !.auth = auth]
  /\ Managed(file.edits) => file.auth
  /\ running = file.edits
  /\ saves = [r \in Requests |-> Finished("idle")]
  /\ saveQueue = <<>> /\ replaceQueue = <<>> /\ reloadQueue = <<>>
  /\ loader = [pc |-> "idle", seen |-> Seed]
  /\ hands = {}
  /\ restarts = 0
  /\ written = file.edits
  /\ exposed = {}
  /\ unread = FALSE

\* Fault: nothing waits for its turn.
AnyOf(queue, x) == \E i \in DOMAIN queue : queue[i] = x

FirstOf(queue, x) == queue # <<>> /\ Head(queue) = x

Goes(r, pc) == saves' = [saves EXCEPT ![r].pc = pc]

Ends(r, outcome) == saves' = [saves EXCEPT ![r] = Finished(outcome)]

-----------------------------------------------------------------------------
\* Fault: whether the instance is claimed is not asked again after the form was read.
CaptureUnchecked(r) ==
  /\ saves[r].pc = "idle"
  /\ running # Down
  /\ r \in Commits => Managed(running)
  /\ saves' = [saves EXCEPT ![r].pc = "built", ![r].expected = running]
  /\ UNCHANGED <<file, running, queues, loader, hands, restarts, history>>

(* The form was read: the save is built on the configuration in force.     *)
(* Hashing a password, and whatever else `next` awaits, comes after.  Only *)
(* an unclaimed instance takes a claim, and only a managed one other saves. *)
Capture(r) ==
  /\ saves[r].pc = "idle"
  /\ running # Down
  /\ r \in Setups => ~Claimed(running)
  /\ r \in Commits => Managed(running)
  /\ saves' = [saves EXCEPT ![r].pc = "built", ![r].expected = running]
  /\ UNCHANGED <<file, running, queues, loader, hands, restarts, history>>

Submit(r) ==
  /\ saves[r].pc = "built"
  /\ Goes(r, "queued")
  /\ saveQueue' = Append(saveQueue, r)
  /\ UNCHANGED <<file, running, replaceQueue, reloadQueue, loader, hands, restarts, history>>

\* Fault: a save that throws holds its place in the queue.
SaveRejectedStuck(r) ==
  /\ saves[r].pc = "queued"
  /\ FirstOf(saveQueue, r)
  /\ Ends(r, "failed")
  /\ UNCHANGED <<file, running, queues, loader, hands, restarts, history>>

\* The schema refuses it, or the file cannot be read.
SaveRejected(r) ==
  /\ saves[r].pc = "queued"
  /\ FirstOf(saveQueue, r)
  /\ Ends(r, "failed")
  /\ saveQueue' = Tail(saveQueue)
  /\ UNCHANGED <<file, running, replaceQueue, reloadQueue, loader, hands, restarts, history>>

\* Fault: only what loads is compared, so a broken file is written over.
driftedFromLoadable(content, expected) == content.valid /\ content.edits # expected

(* The schema wants an auth block, which the loader supplies and this      *)
(* comparison does not.                                                    *)
driftedFrom(content, expected) ==
  \/ ~content.valid
  \/ ~content.auth
  \/ content.edits # expected

(* writeConfig reads the file and compares.  A refused commit reloads, a   *)
(* refused claim does not.                                                 *)
SaveReads(r) ==
  /\ saves[r].pc = "queued"
  /\ FirstOf(saveQueue, r)
  /\ file # Missing
  /\ \/ /\ ~driftedFrom(file, saves[r].expected)
        /\ Goes(r, "replacing")
        /\ replaceQueue' = Append(replaceQueue, r)
        /\ UNCHANGED <<saveQueue, reloadQueue>>
     \/ /\ driftedFrom(file, saves[r].expected)
        /\ IF r \in Setups
             THEN /\ Ends(r, "refused")
                  /\ UNCHANGED reloadQueue
             ELSE /\ Goes(r, "drifted")
                  /\ reloadQueue' = Append(reloadQueue, r)
        /\ saveQueue' = Tail(saveQueue)
        /\ UNCHANGED replaceQueue
  /\ UNCHANGED <<file, running, loader, hands, restarts, history>>

\* Fault: a save shares the reload that is in progress.
AsksToReloadOnce(r) ==
  IF reloadQueue = <<>>
    THEN Goes(r, "reloading") /\ reloadQueue' = Append(reloadQueue, r)
    ELSE Ends(r, "saved") /\ UNCHANGED reloadQueue

AsksToReload(r) == Goes(r, "reloading") /\ reloadQueue' = Append(reloadQueue, r)

\* replaceFile for a save: everything the schema knows is what the save says.
Replace(r) ==
  /\ FirstOf(replaceQueue, r)
  /\ file' = [Seed EXCEPT !.edits = saves[r].expected \cup {r}]
  /\ AsksToReload(r)
  /\ saveQueue' = Tail(saveQueue)
  /\ replaceQueue' = Tail(replaceQueue)
  /\ written' = written \cup {r}
  /\ exposed' = IF loader.pc = "rewriting" THEN exposed \cup {r} ELSE exposed
  /\ UNCHANGED <<running, loader, hands, restarts, unread>>

ReplaceFails(r) ==
  /\ FirstOf(replaceQueue, r)
  /\ Ends(r, "failed")
  /\ saveQueue' = Tail(saveQueue)
  /\ replaceQueue' = Tail(replaceQueue)
  /\ UNCHANGED <<file, running, reloadQueue, loader, hands, restarts, history>>

-----------------------------------------------------------------------------
\* Fault: a reload seeds a missing file, as startup does.
ReloadSeeds(r) ==
  /\ FirstOf(reloadQueue, r)
  /\ loader.pc = "idle"
  /\ file = Missing
  /\ file' = Seed
  /\ loader' = [pc |-> "read", seen |-> Seed]
  /\ unread' = FALSE
  /\ UNCHANGED <<running, saves, queues, hands, restarts, written, exposed>>

\* A file that is gone or does not load changes nothing that is running.
ReloadFails(r) ==
  /\ FirstOf(reloadQueue, r)
  /\ loader.pc = "idle"
  /\ ~Loads(file)
  /\ Ends(r, "failed")
  /\ reloadQueue' = Tail(reloadQueue)
  /\ UNCHANGED <<file, running, saveQueue, replaceQueue, loader, hands, restarts, history>>

\* loadConfig reads the file; plaintext tokens in it are to be hashed first.
ReloadReads(r) ==
  /\ FirstOf(reloadQueue, r)
  /\ loader.pc = "idle"
  /\ Loads(file)
  /\ loader' = [pc |-> IF file.plain THEN "rewriting" ELSE "read", seen |-> file]
  /\ replaceQueue' = IF file.plain THEN Append(replaceQueue, Loader) ELSE replaceQueue
  /\ unread' = FALSE
  /\ UNCHANGED <<file, running, saves, saveQueue, reloadQueue, hands, restarts, written, exposed>>

Hashed(content) == [content EXCEPT !.plain = FALSE]

\* The loader's rewrite of what it read.  If it fails the tokens work all the same.
Rewrite ==
  /\ FirstOf(replaceQueue, Loader)
  /\ file' = Hashed(loader.seen) \/ UNCHANGED file
  /\ loader' = [loader EXCEPT !.pc = "read"]
  /\ replaceQueue' = Tail(replaceQueue)
  /\ UNCHANGED <<running, saves, saveQueue, reloadQueue, hands, restarts, history>>

\* The new snapshot takes over, and the save that asked for it is answered.
ReloadApplies(r) ==
  /\ FirstOf(reloadQueue, r)
  /\ loader.pc = "read"
  /\ running' = loader.seen.edits
  /\ loader' = [pc |-> "idle", seen |-> Seed]
  /\ Ends(r, IF saves[r].pc = "drifted" THEN "refused" ELSE "saved")
  /\ reloadQueue' = Tail(reloadQueue)
  /\ UNCHANGED <<file, saveQueue, replaceQueue, hands, restarts, history>>

-----------------------------------------------------------------------------
(* External: a person edits the file, rightly or wrongly, perhaps adding a *)
(* token in plaintext.                                                     *)
HandEdit(h) ==
  /\ h \notin hands
  /\ file # Missing
  /\ \E plain, valid \in BOOLEAN :
       file' = [file EXCEPT !.edits = @ \cup {h}, !.plain = @ \/ plain,
                            !.auth = @ \/ plain, !.valid = valid]
  /\ hands' = hands \cup {h}
  /\ written' = written \cup {h}
  /\ exposed' = IF replaceQueue = <<>> THEN exposed ELSE exposed \cup {h}
  /\ unread' = TRUE
  /\ UNCHANGED <<running, saves, queues, loader, restarts>>

\* External: a person deletes it.
HandDelete(h) ==
  /\ h \notin hands
  /\ file # Missing
  /\ file' = Missing
  /\ hands' = hands \cup {h}
  /\ written' = {}
  /\ exposed' = {}
  /\ unread' = TRUE
  /\ UNCHANGED <<running, saves, queues, loader, restarts>>

\* External: the process ends, with everything it had under way.
Crash ==
  /\ running # Down
  /\ restarts < MaxRestarts
  /\ restarts' = restarts + 1
  /\ running' = Down
  /\ saves' = [r \in Requests |->
       IF saves[r].pc \in InProgress THEN [saves[r] EXCEPT !.pc = "lost"] ELSE saves[r]]
  /\ saveQueue' = <<>> /\ replaceQueue' = <<>> /\ reloadQueue' = <<>>
  /\ loader' = [pc |-> "idle", seen |-> Seed]
  /\ UNCHANGED <<file, hands, history>>

(* Startup, which alone may create the file.  One that does not load leads *)
(* to the repair page instead, and what it saves starts the process again. *)
Start ==
  /\ running = Down
  /\ file = Missing \/ Loads(file)
  /\ IF file = Missing
       THEN file' = Seed
       ELSE file' = Hashed(file) \/ UNCHANGED file
  /\ running' = file'.edits
  /\ unread' = FALSE
  /\ UNCHANGED <<saves, queues, loader, hands, restarts, written, exposed>>

Next ==
  \/ \E r \in Requests :
       \/ Capture(r)
       \/ Submit(r)
       \/ SaveRejected(r)
       \/ SaveReads(r)
       \/ Replace(r)
       \/ ReplaceFails(r)
       \/ ReloadReads(r)
       \/ ReloadFails(r)
       \/ ReloadApplies(r)
  \/ Rewrite
  \/ \E h \in Hands : HandEdit(h) \/ HandDelete(h)
  \/ Crash
  \/ Start

Spec == Init /\ [][Next]_vars

\* Disk and process get on with what is queued; nobody is obliged to ask for anything.
Fairness ==
  /\ \A r \in Requests :
       /\ WF_vars(Submit(r))
       /\ WF_vars(SaveReads(r) \/ SaveRejected(r))
       /\ WF_vars(Replace(r) \/ ReplaceFails(r))
       /\ WF_vars(ReloadReads(r) \/ ReloadFails(r))
       /\ WF_vars(ReloadApplies(r))
  /\ WF_vars(Rewrite)

FairSpec == Spec /\ Fairness

-----------------------------------------------------------------------------
\* Of the saves only one at a time replaces the file, beside a rewrite of the loader.
TypeOK ==
  /\ file \in Content \cup {Missing}
  /\ running \in (SUBSET Edits) \cup {Down}
  /\ saves \in [Requests -> Save]
  /\ saveQueue \in Seq(Requests)
  /\ replaceQueue \in Seq(Requests \cup {Loader}) /\ Len(replaceQueue) <= 2
  /\ reloadQueue \in Seq(Requests)
  /\ loader \in Reload
  /\ hands \in SUBSET Hands
  /\ restarts \in 0 .. MaxRestarts
  /\ written \in SUBSET Edits
  /\ exposed \in SUBSET Edits
  /\ unread \in BOOLEAN

(* config/save.ts: "It refuses to overwrite a change it never saw".  What  *)
(* a save or a person put into the file stays in it, whatever is saved,    *)
(* reloaded or restarted around it, unless it came while a text computed   *)
(* from an older reading was waiting to replace the file: for a save, only *)
(* the loader's rewrite can be such a text.                                *)
NothingOverwritten ==
  file # Missing => written \ exposed \subseteq file.edits

(* web/routes.ts on setup: however two claims interleave, an instance is   *)
(* claimed by one of them.                                                 *)
ClaimedOnce ==
  Cardinality((Setups \cup {Owner}) \cap (written \ exposed)) <= 1

(* core/runtime.ts: "a file deleted under a running server must not turn   *)
(* it unclaimed", and neither does anything a save or a reload may read.   *)
StaysClaimed ==
  [][running # Down /\ running' # Down /\ Claimed(running) => Claimed(running')]_vars

(* core/runtime.ts on overlapping reloads: "an older file could win".      *)
(* Once every save that reached the file has been answered, and nobody has *)
(* edited it since, what is running is what the file says.                 *)
AppliedAsSaved ==
  \/ running = Down \/ unread
  \/ \E r \in Requests : saves[r].pc \in {"reloading", "drifted"}
  \/ running = file.edits

\* A save is refused, and the file is not what the save was built on.
RefusedForCause(r) ==
  saves[r].pc = "queued" /\ saves'[r].pc \in {"drifted", "refused"} =>
    ~file.valid \/ file.edits # saves[r].expected

(* web/routes.ts on a claim that is refused: "Someone else claimed it      *)
(* while this request was in flight." Then the file at least says          *)
(* something else than what the claim was built on.                        *)
ClaimRefusedForCause == [][\A r \in Setups : RefusedForCause(r)]_vars

(* config/save.ts on any other save that is refused: "config.yaml changed  *)
(* on disk since this page was loaded".                                    *)
CommitRefusedForCause == [][\A r \in Commits : RefusedForCause(r)]_vars

(* A save that is under way waits for no other but through its queue, and  *)
(* at the head of each queue is somebody whose move it is.                 *)
NobodyWaitsInVain ==
  /\ \A r \in Requests :
       /\ saves[r].pc = "queued" => AnyOf(saveQueue, r)
       /\ saves[r].pc = "replacing" => AnyOf(replaceQueue, r)
       /\ saves[r].pc \in {"reloading", "drifted"} => AnyOf(reloadQueue, r)
  /\ saveQueue # <<>> => saves[Head(saveQueue)].pc \in {"queued", "replacing"}
  /\ replaceQueue # <<>> =>
       IF Head(replaceQueue) = Loader THEN loader.pc = "rewriting"
       ELSE saves[Head(replaceQueue)].pc = "replacing"
  /\ reloadQueue # <<>> => saves[Head(reloadQueue)].pc \in {"reloading", "drifted"}
  /\ loader.pc = "rewriting" => AnyOf(replaceQueue, Loader)

(* A save is answered, however the saves, replacements and reloads before  *)
(* it in the queues end.                                                   *)
EverySaveAnswered ==
  \A r \in Requests : saves[r].pc \in InProgress ~> saves[r].pc \notin InProgress

=============================================================================
