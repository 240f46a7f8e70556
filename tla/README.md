# TLA+ models of arr-mcp

arr-mcp is an MCP server in front of a home media stack: it gives an AI client
tools that read from, and write to, Radarr, Sonarr, Jellyfin, qBittorrent and a
dozen more services. It is one Node.js process, so nothing in it runs in
parallel but one worker thread; still every tool call, page, timer and reload is
an async function, and everything else in the process, the services and the
operator may act at each of its awaits. The modules here model what goes on
between those awaits.

Source paths below are relative to the repository root (`src/core/confirm.ts`).
Every definition that models code is tied to its lines in `PROJECT.json` (`map`).

To check a model: `tlc -config MCWriteGate.cfg MCWriteGate`. To check the proofs:
`tlapm WriteGate_proofs.tla`, and likewise for the other `_proofs` modules.

## 1. Inventory

"Covered" names the module that models the part; what is left is in section 8.

| Part | State it keeps | Operations | What is hard about it | What makes it correct | Covered |
|---|---|---|---|---|---|
| Write gate, `tools/write.ts` | none between calls; one call is plan, gate, apply | one handler for all write tools | two awaits, with a decision taken on what was read before the first; a service that answers late or never | a write is applied only as previewed and confirmed, and is on record before it happens | `WriteGate` |
| Confirmation tokens, `core/confirm.ts` | key of the process, the map of spent tokens | issue, verify and consume, sweep | expiry against sweep, capacity, restart | a token works once, for one operation | `ConfirmTokens` |
| Audit, `core/audit.ts` | table `write_audit` | begin, settle, prune | a crash or an error between the two | the trail misses no write and claims none that did not happen | `AuditTrail`, `WriteGate` |
| Permissions, `core/permissions.ts`, `mcp/scopes.ts` | the grant of each instance | checkPermission | a snapshot of the grant against a later change | no write above the tier of the file or of the credential | `Permissions` |
| Library caches, `core/cache.ts`, `tools/library.ts`, `core/gather.ts` | promises with a deadline, per adapter and per user | get, invalidate, gather | shared promises, a write or a reload while one is pending, two layers of age | a reported write is visible to the next read; bounded age; one load at a time | `LibraryCache` |
| Upstream HTTP, `core/http.ts`, `core/auth.ts` | breaker and session per adapter; the shared lockout | request, recover, record | retries within recoveries, a login many calls share, a lockout many adapters share | no write is sent twice; a service is not banned for a wrong password, nor given up on for a 404 | `ServiceHttp` |
| Configuration file, `config/save.ts`, `commit.ts`, `load.ts` | `config.yaml`, two promise queues | save, drift test, load, token rewrite | read, compare and replace with awaits between; a person with an editor | nobody's change is lost, an instance is claimed once | `ConfigStore` |
| Runtime, `core/runtime.ts` | the current snapshot (configuration, adapters, loader), the reload queue, the dataset's switch | start, reload | calls in progress keep the old snapshot; an ingest outlives the switch | what runs is what was last saved; a running server is never unclaimed | `ConfigStore`, `LibraryCache`, `Sessions`, `ImdbDataset`, `Startup`, one side of it each |
| Sessions and throttle, `core/session.ts`, `core/loginThrottle.ts`, `web/routes.ts` | signing key, revoked sessions and their file, failures in a row | issue, verify, renew, revoke, rekey; reserve and clear | checking a password takes an await during which it may be changed; renewed copies; revocations evicted or not written | no session outlives a password change or a sign-out, none ends early; passwords are guessed slowly | `Sessions` |
| Startup and repair page, `bootstrap.ts`, `repair.ts` | which app is served, the latch `promoting`, the text and the password of the page | start, claim, sign in, save, promote | two claims or two saves at once, a failing promotion, a hand edit under the page, sessions shared with the application | one runtime, of what the file says; no password is replaced by a claim | `Startup` |
| IMDb dataset, `metadata/*` | `imdb.db`, the staging directories, the timer | refresh, ingest in a worker, open, close, sweep | disabling and enabling during an ingest, a crash half way, a sweep beside a running ingest | readers see one download whole; refreshes go forward and go on; leftovers are reclaimed | `ImdbDataset` |
| MCP endpoint, OAuth, bearer tokens, `app.ts`, `mcp/*`, `core/mcpTokens.ts` | key sets of the issuer | authenticate, build tools for a caller | a key server that is down; a token that expires during a session | a caller has the tiers of its credential and no more | not modelled; the ceiling it computes is any tier in `WriteGate` |
| Webhook events, `web/webhooks.ts`, `core/webhookEvents.ts` | table of events | authenticate, record, prune | late deliveries against pruning by the event's own time | an accepted event is kept while there is room | not modelled |
| Identity and cross-checks, `core/identity.ts`, `tools/crossChecks.ts` | cached directory; a budget per preview | resolve; check within the budget | a failing directory many callers await; an answer after the budget | no user is taken for another; a check not made is reported as not made | not modelled; the await of the cross-checks is in `WriteGate` |
| Write tools, `tools/*.ts` | none | a plan and an apply each | several service calls in one apply, one of which fails | what was done is what is reported | gate in `WriteGate`; the plans and applies themselves are not modelled |
| Service adapters, `services/*.ts` | library cache, client | reads and writes of one service | paging, polled commands | rows mean what the service said | caches and client as above; mapping of rows is data translation |
| Configuration schema and edits, `config/schema.ts`, `mutate.ts`, `edits.ts` | none | pure functions | merging, renaming, secrets kept when blank | an edit changes what it names only | not modelled |
| Management API, `src/api/*` | none | reads; writes through the queue of the saves | as the configuration file | as the configuration file | the save in `ConfigStore`; keys and tiers not modelled |
| Web UI pages, `src/web/*` | none | rendering, forms, sign-in and out | what spans an await, above | - | the claim and the saves in `ConfigStore`, the rest of the routes that change state in `Sessions` |
| Read tools and diagnosis, `tools/get*.ts`, `tools/diagnose/*` | none | gather, decide, format | partial answers of several services | a gap is reported as a gap | not modelled |
| Text helpers, `core/shape.ts`, `titleMatch.ts`, ... | none | pure functions on text | - | - | not modelled |
| Logs, `core/logger.ts`, `core/logs.ts` | table of lines | insert, prune | nothing interleaves | - | not modelled |
| Generated clients, OpenAPI specs, fixtures, scripts, packaging | - | - | - | - | not modelled: generated code, data, maintainer tooling |

How the parts meet: `bootstrap` starts the runtime or serves the repair page,
whose save starts it; both use one set of sessions. The MCP endpoint builds a
server for one request over the runtime's current snapshot; its read tools go to
the library loader or to the adapters, its write tools to the gate; gate and
caches meet in `library.invalidate`, adapters and services in `core/http.ts`; the
web UI and the management API save through one queue, and each save asks the
runtime to reload, which replaces the snapshot under the calls that are in
progress, binds the sessions to the password it finds, and opens or closes the
IMDb dataset.

## 2. Modules

| Module | Stands for | Uses |
|---|---|---|
| `Permissions` | tiers, grants, ceilings | |
| `ConfirmTokens` | `core/confirm.ts` | |
| `AuditTrail` | the abstract contract of the audit: a trail written ahead | |
| `WriteGate` | the write handler, its callers, the process, the services behind it | extends `ConfirmTokens` and `Permissions`, implements `AuditTrail` |
| `WriteGate_proofs` | theorems about the tokens and the types of `WriteGate` | extends `WriteGate` |
| `WriteGateTrail_proofs` | theorems about its trail, the refinement of `AuditTrail` among them | extends `WriteGate_proofs` |
| `LibraryCache` | both layers of `TtlCache`, writes that invalidate them, reloads | |
| `ServiceHttp` | one call to a service: breaker, retry, recovery, login, lockout | |
| `ConfigStore` | `config.yaml`, its writers, the loader, the reloads | |
| `Sessions` | cookies, sign-in and out, password changes, `sessions.json`, the throttle | |
| `Startup` | the repair page, from the start of the process to the start of the application | |
| `ImdbDataset` | the copy of the dumps, the ingests, the switch and the timer | |
| `LibraryCache_proofs`, `ServiceHttp_proofs`, `ConfigStore_proofs`, `Sessions_proofs`, `Startup_proofs`, `ImdbDataset_proofs` | theorems about the module of the name | extend it |
| `MC*` | instances for TLC | |

**WriteGate.** A call is a slot with a program counter: `planning` is the await
of `spec.plan`, `advising` that of the cross-checks, `applying` that of
`spec.apply`. What the handler does between two awaits is one action, the
audit row and the sweep of the token map included, so that other calls can come
only where they can in the code. `Resolve` has one disjunct per branch of the
handler: nothing to do, dry run, denied, preview, spent token, other bad token,
accepted, and `audit.begin` throwing in any of them. `Arrive` fixes what the
caller may do from the ceiling of its credential and the grant in the snapshot
it found. The service is external: an operation in `inflight` may `Land` at any
time, also after its caller has given up, or never. `Crash` loses calls, key
and spent tokens, and keeps the trail. A call is answered by a token only when
it settles, so a client cannot present a token that nobody has seen.

**ConfirmTokens.** A token is the triple (process, time of issue, intent). That
is what its HMAC commits to, and no more: two previews of one operation in one
millisecond hand out the same token, as in the code. The map of spent tokens
keeps its insertion order, because eviction goes by it.

**LibraryCache.** An entry holds a reading, or the task whose promise it is. A
hit changes nothing and is no action. The identity guard of `TtlCache` (an entry
is settled or deleted by its own promise only) is `Guarded`. Times are kept as
what is left of a window and as the age of a reading; no clock needs a bound.
Nothing relates a read's timeout to the windows: an entry whose window ran out
while its promise is pending stays, no longer a hit, until a lookup replaces it
or the promise settles and gives it a new window. A call of a write tool is on
the snapshot it was registered over from `CallWrite`, when its plan begins, to
its report, whatever is reloaded meanwhile; `StartWrite` sends its operation.

**ServiceHttp.** A call is `asking` (its request is with the service) or
`recovering` (it awaits a login, its own or another's). `sent` counts how often
it was put on the wire and `heard` how many of those the service did not turn
away. The lockout is one variable for all adapters of an account; the breaker,
the session and the login in flight belong to one adapter.

**ConfigStore.** What a file says is the set of edits in it, with three flags:
it holds a plaintext token, it has an `auth` block, it loads. A save passes
`built` (the form was read against the running configuration), `queued` (in the
queue of saves), `replacing` (in the queue of replacements, which the loader's
token rewrite shares) and `reloading`, or `drifted` when the file was not what
it was built on. `HandEdit` and `HandDelete` are a person's, and external. Only
an unclaimed instance takes a claim (`Setups`), and only a managed one other saves
(`Commits`): one that somebody can sign in to, or that has management keys.

**Sessions.** A cookie is what its HMAC commits to: a nonce, which is the
session, an expiry and the key, and the key is the base key of `sessions.json`
mixed with the password hash in force. `tokens` has every cookie that was ever
handed out and is not long expired; any of them may be presented, since renewing
a cookie leaves the older one usable. A post of the sign-in form is `posted`
(the throttle has counted it) and then `checking`, against the hash it found; it
signs its session with the hash of when it is done. A password change is
`saving`, `reloading`, `finishing`, and the three can be told apart by what else
happens between them. Random values are reused once nothing remembers them.
`opened` records how each session came about and whether the code itself excuses
its survival; `guessing` counts passwords tried and the time that went by.
`Budgets` bounds the deeds of a behaviour.

**Startup.** A text of `config.yaml` is the set of edits in it, whose password
it has, and whether it parses and is valid; `raw` and `auth` are what the page
believes, `file` what is there. A claim is `hashing`, then has the latch
(`claiming`) while it is `reading` and `writing`. A save is `open` (a form built
on `raw`), `queued`, `writing`, `promoting`, and ends `started`, `refused`,
`failed` or `redirected`. `bound` and `cookies` are the sessions, which the page
shares with the application it turns into. `Restart` runs `bootstrap` again.

**ImdbDataset.** `ingests` has a slot for every ingest in progress. A worker has
a connection of its own, so closing the dataset does not end it: it loses `own`,
and the refresher of the next opening does not know of it. A dump is the day it
was published. The age of an ingest is that of its staging directory, which is
touched when a file is created in it, as the answer to a download begins, or
removed from it. An ingest is `opening` until its worker has the database; it may
fail then, before it swept anything. `Sweep` may fail at the temp directory or at
any leftover, wholly or after some files, and its own directory may not come
about. The transaction is `ReplaceBegins` to `Commits`, during which the write
lock is held; its `VACUUM` comes after the commit. `leftovers` are directories
that no ingest uses: those of a killed process, and those whose removal at the
end of an ingest (`Ends`) failed or never ran. What a sweep should have taken and
did not is counted on from `AbandonedAfter`, so that the ages say for how long no
sweep was tried.

## 3. Runs

| Run | Instance | What it shows |
|---|---|---|
| `write_gate` | two calls, a safe and a destructive operation, lifetime 1 of 2 clock ticks, room for 1 spent token, one restart, three audit rows | `TypeOK`, `SingleUse`, `ApplyWasSanctioned`, `LingeringAttempted`, `NoSecondChance`; the gate implements `AuditTrail` |
| `library_cache` | two tasks, a write, one *arr, one media server, a user and no user, windows 2 and 1, reads of up to 2, one change per source | `TypeOK`, `ReadYourWrites`, `BoundedStaleness`, `SingleFlight` |
| `library_live` | two tasks, a write, one *arr, windows and reads of 1, one reload, fairness | `EveryLoadSettles` |
| `library_reload` | the same, with windows of 2 and 1 and reads of up to 2 | **violated:** `ReadYourWritesAcrossReload` |
| `service_http` | two adapters of one account, three calls, threshold 2, cooldown 1, lockout 1 | `TypeOK`, `WritesSentOnce`, `OpenOnlyWhenUnwell`, `WrongPasswordBounded`, `OneStrikeEach` |
| `service_http_live` | a login adapter with two calls, a handshake adapter with one, fairness | `EveryCallEnds`, `AdmitsAgain` |
| `config_store` | two claims, two saves, a hand edit or deletion, one restart, fairness | `TypeOK`, `NothingOverwritten`, `ClaimedOnce`, `AppliedAsSaved`, `StaysClaimed`, `EverySaveAnswered` |
| `config_drift` | the same | **violated:** `ClaimRefusedForCause` |
| `sessions` | two posts and two sessions at a time, three base keys and hashes, lifetime 3, renewal after 2, room for 1 revocation, 2 free attempts, and one of the three budgets of `MCSessions` | `TypeOK`, `SignedOutStaysOut`, `OnlyCurrentPassword`, `LastsFromLastPage`, `GuessesAreSlow` |
| `imdb` | two ingests, timeout 1, writing 0, abandoned after 3, interval 2, newer titles once, a leftover beside those of the restart, one restart, fairness | `TypeOK`, `WholeDownload`, `StagingSafe`, `LeftoversSwept`, `NeverBack`, `RefreshGoesOn` |
| `startup` | two claims, two saves, one sign-in at a time, one hand edit, one restart, fairness | `TypeOK`, `RuntimeIsFile`, `ClaimReplacesNothing`, `RefusedForCause`, `EverySaveAnswered` |
| `startup_sessions` | the same | **violated:** `SessionsFollowConfig` |

Why the bounds are enough to be of interest:

- *Two calls* are what the races over one token need; a third row and a second
  tick let a token be issued, spent, expire and be presented once more.
  `MaxConsumed = 1` makes the set of spent tokens overflow, `MaxBoot = 1` makes
  tokens foreign. A lifetime of one tick has all three ages: fresh, at its last
  moment, past it.
- In the caches, two tasks share and outlive each other's promises; one write
  and one change let a reading be older than the write; the second key and the
  media server make snapshots that share one source and not the other. A window
  of 2 lets an entry be hit when it is older than new, and makes the two windows
  add up. Reads of up to 2 can last as long as a window, so that promises outlive
  their entries and loads are begun twice. `MaxVersion` is 1: what matters is
  before and after.
- In `service_http`, two calls of one adapter share a login while a third runs
  into the lockout they cause. A threshold of 2 tells one failure from a run;
  with the code's 5 (`CIRCUIT_THRESHOLD`) the state space only grows.
- In `config_store`, two claims race; two saves are in the queue with a reload
  between; a hand edit can fall into every gap. One restart is enough to lose
  whatever is under way. Requests are made once each: what a second form would
  do is what the second request does. The instance starts claimed or not, with
  management keys or not, and with neither it may lack the `auth` block.
- In `sessions`, a lifetime of 3 with a renewal after 2 has a cookie that is too
  young to be renewed, one that is renewed while the old copy lives, and one
  that has expired. Room for one revocation makes the second sign-out evict the
  first. Three hashes are the old one, the new one and a third by hand; the
  three base keys are the running one, that of the file and a new one. The
  budgets separate what does not interact: five posts pass the free attempts and
  reach the longest delay; two sessions are opened and ended across a restart
  and a lost file; a password is changed, edited and found again after a restart.
- In `imdb`, two ingests overlap when the dataset is switched off and on. Ingests
  take up to 2, as long as the interval, so that the timer also fires while one
  is running; in the code a week is far longer than an ingest, and nothing
  depends on that. A replacement takes no tick, but any other step can come
  between its beginning and its commit. `AbandonedAfter` is the smallest value
  the module allows. One newer dump, of the titles (`Renewed`), tells a mixed copy
  and a step back from what they should be. With `MaxLeftovers` of 1, an ingest
  may leave its directory when no other is there, and a restart leaves more.
- In `startup`, both claims can be past the first check, both saves in the queue,
  and the hand edit can fall anywhere; after the restart the file may or may not
  load. The sign-in is a slot, used as often as wished.

The cfgs say `CHECK_DEADLOCK FALSE` for `ConfigStore` and `Startup`, where every
request and hand edit may have been made and nothing is left to do. Bounds on
counters are constants (`MaxNow`, `MaxBoot`, `MaxRows`, `MaxVersion`, `MaxGen`,
`MaxRestarts`, `MaxFailures`, `Budgets`, `Renewed`, `MaxDay`, `MaxLeftovers`, `MaxCrashes`) and stand in the
guards. Symmetry is used in safety runs only. One run answers one question: what
a run has shown once is not shown again on a larger instance.

## 4. Fairness

Fairness is stated per component, in `Fairness`, and is what the code itself
brings about:

- `LibraryCache`: a read ends, with its answer, an error or its timeout; a build
  that has heard from all sources settles.
- `ServiceHttp`: a request ends, and so does a login, for the same reason.
  `Tick` has strong fairness: logins come and go, and time passes between them.
- `ConfigStore`: the disk answers, and the three queues move on. Nobody is
  obliged to save, edit or restart.
- `ImdbDataset`: time passes and a timer that is due fires; a download is given
  up after its timeout; a worker gets to its sweep or fails before it, and with
  its dumps on the disk it runs to its end, one way or the other. Nobody
  switches, publishes or restarts of necessity, and no download need succeed.
- `Startup`: a save whose turn has come is carried to its end.
- `WriteGate`: an await of a call ends. That every call is then answered
  (`EveryCallAnswered`) says little more than this, so no run asks for it.

`Sessions` has no liveness to check: nothing in it waits.

## 5. What is proved

Forty-three theorems, each for every value of the constants. Thirty-four state a
property that a run of section 3 checks on an instance. The other nine are what no
run could ask for, of three kinds:

- `TheTrailTellsTheTruth`, which is about the abstract contract.
- Where the code and its own text disagree (section 6), a run shows that a
  property fails; a theorem says what suffices for it. `WritesAreSeenAcrossReload`,
  `SessionsFollow` and `IngestsTakeTurns` have a hypothesis about steps, which
  excludes the situation of the counterexample and may exclude harmless ones
  with it; `CommitsAreRefusedForCause` is the property of the other saves.
- `NobodyWaitsInVain`, in the four modules whose liveness TLC checks: whoever
  waits does so for somebody at work, or stands in a queue whose head can move.
  That is the half of liveness that is a safety property; the other, that what
  can move does, is the fairness of section 4.

**Tokens** (`WriteGate_proofs`): any number of calls, any set of operations, any
lifetime of a token, any capacity of the set of spent ones.

- **TypeCorrect**, `Spec => []TypeOK`. `TypeOK` is inductive. The work is in the
  sweep: `RememberedFinite` and `ConsumeType` show that what remains is a finite
  map with numbers for places, by the cardinality theorems of the library.
- **TokensAreSingleUse**, `Spec => []SingleUse`: two writes run on one token only
  if the set of spent tokens overflowed, or one of them came at the last moment
  of its life.
- **SpentEarnsNothing**, `Spec => NoSecondChance`, an action property: presenting
  a spent token that is still alive never brings a fresh one for its operation.

`SingleUse` alone is not inductive: it says nothing of a token that has been used
once. The strengthening is `SpentRemembered`: a token of this process that let a
write through is still in the map, was evicted from it for want of room, or is
past its life; tokens of dead processes are from an earlier `boot`, and never
verify again. `ForgetsOnlyTheDead` shows that the sweep keeps it (whatever leaves
the map is evicted or dead), `SpentAfterVerify` that spending does, and `TokenStep`
that every step of the gate is, for tokens, a verification, a new process, a tick
or nothing. A second write on a token needs `verify` to say "ok"; `VerifyOk` then
gives that the token is this process's, inside its life and not remembered, and
`SpentRemembered` leaves eviction and the last moment only. For `NoSecondChance`
two small invariants do: a call that is still planning holds no reply, and an
authorising token was not issued in the future. A preview or a refusal that hands
out a token then has to be one for another operation.

**The trail** (`WriteGateTrail_proofs`): trails of any length.

- **GateImplementsTrail**, `Spec => ImplementsAuditTrail`: the refinement.
- **TheTrailTellsTheTruth**, `Spec => []Trail!TrailTruthful`: what the contract
  comes to. It is proved of the steps of `AuditTrail` and carried over by the
  refinement.
- **AttemptedIsTheAnomaly**, `Spec => []LingeringAttempted`.
- **AppliedWasPreviewed**, `Spec => []ApplyWasSanctioned`.

`TrailStep` sorts the steps of the gate into six: nothing for the trail, a row
noted, one begun and sent, one settled, an effect, a crash. `RowsInv` says whose
the rows are: a call that applies owns a row that was sent, reads `attempted`, is
in nobody else's hands and has not been given up on. Without it a `Return` could
settle a row that another call settled before, which is no step of `AuditTrail`.
For `ApplyWasSanctioned`, `PreviewInv` follows a token wherever it can be (in an
answer not yet given, with a client, in a request) and says that a row before it
is its preview and was never sent, so that no later step rewrites that row
(`RowsKept`); `AuthInv` ties every authorisation to its row and every row that
was sent to an authorisation.

**The library caches** (`LibraryCache_proofs`): any number of tasks, writers, users
and sources, any windows, and reads of any length: `timeout_ms` of the schema
bounds a read by nothing that has to do with the windows.

- **TypeCorrect**, `Spec => []TypeOK`.
- **WritesAreSeen**, `Spec => []ReadYourWrites`. A cached reading is easy; a cached
  promise is as good as the moment its read was asked. `OwnInv` says that a promise
  in an adapter's cache is that of a read in progress for this loader, `BuildInv`
  the same of what a build waits for, `JointInv` that a promise in the loader's
  cache is that of a build for this entry; all three say that nothing reachable
  from a cache was asked before the last reported write. A report empties the
  caches, and what is in flight then can fill only an entry that is still its own.
- **LoadsAreShared**, `Spec => []SingleFlight`: two loads of one thing mean an
  invalidation between their starts, or that the first has outlasted the window
  of its promise. `OwnFlight` and `JointFlight` add up what is left of an entry and
  the age of the load it waits for: at least a window, so that the entry is a hit
  for as long as the load is younger than that.
- **PromisesAreKept**, `Spec => []NobodyWaitsInVain`, from the same three parts:
  a promise is followed by its read or build, whatever was dropped meanwhile.
- **WritesAreSeenAcrossReload**,
  `Spec /\ NoWriteStraddles => []ReadYourWritesAcrossReload`. The hypothesis is
  about the whole of a call: one whose plan is awaited across the reload goes on,
  on the old snapshot, and breaks the promise as well. A loader that comes up
  with nothing cached (`UnbornInv`) and finds no call of its predecessor in
  progress (`CurrentInv`) can hold nothing from before what was reported to that
  one: `FollowsInv` is `OwnSound` and `JointSound` with an earlier loader's
  reports, and is kept for the reasons that `OwnInv` and `JointInv` are.
- **StalenessIsBounded**, `Spec => []BoundedStaleness`: `OwnAges`, `BuildAges` and
  `JointAges` carry the age of a reading from the adapter's cache through a build
  into the loader's. What a build has in hand ages only while another of its reads
  goes on.

The actions are first reduced to what they do to an entry, a build and a read
(`Builds`, `Asks`, `ReadEnds`, `BuildEnds`, `Reports`, `Ages`, `Elsewhere`; lemma
`Steps`), and every part of the invariant is then proved kept by each of these.

**Calls to services** (`ServiceHttp_proofs`): any number of adapters and calls,
any threshold, cooldown and length of the lockout, any choice of which adapters
log in, shake hands or use a fixed key. Calls are finitely many.

- **TypeCorrect**, `Spec => []TypeOK`.
- **WritesAreSentOnce**, `Spec => []WritesSentOnce`. The invariant of a call is
  `Orderly`: how often it was sent and heard at each point of its life, so that a
  write which was heard has no sending left.
- **BreakerOpensOnlyWhenUnwell**, `Spec => []OpenOnlyWhenUnwell`: the breaker
  never counts a failure the history does not (`BreakersInv`).
- **WrongPasswordsAreBounded**, `Spec => []WrongPasswordBounded`: while the
  breaker is closed, every rejected login is also a failure, and failures are
  fewer than the threshold; while it is open every further rejection ends one of
  the calls that had been admitted, and none is admitted. `StrikesOf` adds the
  two up.
- **OneStrikePerAdapter**, `Spec => []OneStrikeEach`: while a lockout lasts no
  login starts, so each strike in it is that of a login already under way, and an
  adapter has one of these at most (`LoginsInv`, `LockoutInv`).
- **WaitersAreServed**, `Spec => []NobodyWaitsInVain`: a call that waits for a
  login waits for one in progress (`WaitersInv`), and the end of a login wakes
  every one of them.

**The configuration file** (`ConfigStore_proofs`): any number of claims, saves,
hand edits and restarts.

- **TypeCorrect**, `Spec => []TypeOK`.
- **NothingIsLost**, `Spec => []NothingOverwritten`. A text is computed from a
  reading and replaces the file several awaits later; `KeptInv` says that every
  text on its way has all that must stay. A change made while one is on its way
  is `exposed`, which the property allows for and names.
- **OneClaimsIt**, `Spec => []ClaimedOnce`. `OneInv` says it of what the file
  says, what runs, what is being loaded and what every save would make of it.
- **ClaimsStand**, `Spec => StaysClaimed`: what runs, or is about to, is claimed
  only while whatever the next load may find is claimed too (`ClaimInv`).
- **AppliesWhatItSaved**, `Spec => []AppliedAsSaved`. Between a save and its
  reload the two differ, and a reload that is under way may have read the file
  too early; `AppliedInv` says that another one has then been asked for.
- **SavesWaitTheirTurn**, `Spec => []NobodyWaitsInVain`. The saves that have been
  posted and not decided are the members of the queue of saves, those that wait
  for a reload are the members of that queue, each of them once (`LinesInv`).
- **CommitsAreRefusedForCause**, `Spec => CommitRefusedForCause`: a save other than
  a claim is refused as drifted only for a file that does not load or says
  something else. It was built on a managed configuration, and no step takes the
  `auth` block out of a file, so while a file lacks one nothing that it says, that
  is in force, being loaded or being saved is managed (`BareInv`).

All of them rest on `QueuesInv`: at most one save and one rewrite of the loader
wait to replace the file (`ReplaceInv`), the save is the one whose turn it is
(`HeadInv`), everybody who waits for a reload is in its queue once (`ReloadInv`),
and nothing is under way without a process (`DownInv`). That the queue of saves
leaves one save alone with the file is what makes its reading good until it
writes, but for the loader and a person.

**The IMDb dataset** (`ImdbDataset_proofs`): any number of ingests, any timeouts
with `Timeout + Writing` and `2 * Timeout` below `AbandonedAfter`, which is 24 hours
where `DOWNLOAD_TIMEOUT_MS` is half of one.

- **TypeCorrect**, `Spec => []TypeOK`.
- **CopiesAreWhole**, `Spec => []WholeDownload`: from having both dumps staged to
  the end, an ingest's pair is one it downloaded (`DownloadedInv`).
- **SweepsSpareTheWorking**, `Spec => []StagingSafe`: no ingest is as old as what
  a sweep removes, since a worker is given up in time (`StagingInv`).
- **LeftoversAreSwept**, `Spec => []LeftoversSwept`: no leftover goes without a
  sweep being tried for longer than `Reclaimed`. It does not say that the sweep
  succeeds; a directory that cannot be removed stays, in the code as well. What
  a sweep left was young then or is counted on from `AbandonedAfter`, and the next
  one is tried with the first timer after the refresher's own ingest has ended;
  `LeftInv` has the sum of both for every leftover.
- **RefreshesGoForward**, `Spec => NeverBack`: of two ingests in progress both
  know that they ran beside another (`BesideInv`), so what is in the copy while
  one is alone came before it, and is no newer than its downloads (`NewerInv`).
- **IngestsTakeTurns**, `Spec /\ NoIngestStraddles => []OneIngestAtATime`: all
  ingests are then the present refresher's, whose `running` lets one through
  (`AloneInv`).

**The repair page** (`Startup_proofs`): any number of claims, saves, sign-ins and
hand edits.

- **TypeCorrect**, `Spec => []TypeOK`.
- **RuntimeRunsTheFile**, `Spec => []RuntimeIsFile`: only the first save of the
  queue writes, and only while the page is served (`TurnInv`); a claim past its
  latch means that nobody has a password (`ClaimInv`), so nobody can be signed in
  to save (`EditorInv`).
- **ClaimsReplaceNothing**, `Spec => ClaimReplacesNothing`, from the same two and
  what a claim is about to write (`ClaimTextInv`).
- **RefusalsHaveACause**, `Spec => RefusedForCause`: the latch of a promotion that
  failed is always released (`TurnInv`).
- **SavesStayInLine**, `Spec => []NobodyWaitsInVain`: the queue has the saves that
  were posted, each of them once; it is a part of the inductive invariant itself.
- **SessionsFollow**, `Spec /\ NoSignInStraddles => []SessionsFollowConfig`. What is
  bound changes with a page that is started, a promotion and a sign-in that ends;
  `FollowInv` says that the last finds what the others left, since no sign-in
  outlives a promotion that changes the password.

**Sessions** (`Sessions_proofs`): any finite number of sign-ins at a time, any
number of sessions, keys and passwords, any lifetime, throttle and capacity.

- **TypeCorrect**, `Spec => []TypeOK`: with the types, that neither the map of
  revocations nor the file outgrows `MAX_REVOKED`, and that no block is longer
  than `MAX_DELAY_MS`.
- **NobodyOnAnOldPassword**, `Spec => []OnlyCurrentPassword`: the password that
  opened a session is the one each of its cookies is signed under, or it is one
  that straddled a change (`ProvenInv`).
- **SessionsLast**, `Spec => []LastsFromLastPage`: some cookie of a session is as
  young as its last page, less the grain of the renewal (`LastsInv`).
- **SignOutIsFinal**, `Spec => []SignedOutStaysOut`. A revocation is given the
  whole lifetime while the cookies it is for have less, and has to outlive all of
  them: `OutInv` says that of the map, `DiskInv` of the file, for the cookies that
  each one's key would verify. That no session which goes on is in either
  (`ClosedInv`) keeps a reused nonce apart from the revoked one. `SavedInv` says
  that the file has what the map has unless a write failed; a restart then brings
  back as much as was known. A sweep drops what is dead, which no live cookie
  needs, and what no longer fits, which `excused` marks.
- **GuessingIsSlow**, `Spec => []GuessesAreSlow`. `CountsInv` says that every
  guess, read or only posted, is among the failures counted or was carried over
  the last right password, and that the failures beyond the free ones were waited
  for, or will have been when the present block ends (`Paid`). Since the count is
  taken before the await, posts that overlap cannot share a wait.

`Live`, `Doubled` and `Penalty` are recursive functions. `Least` (a set of naturals
with a member has a least one, from the library's well-foundedness of `<`) gives
induction up to a bound (`UpTo`) with a set in the place of the predicate, and
`Recursion` the existence of a function that satisfies its step. From these come
the equations of the three, what `Live` keeps (each entry that is not dead, in
order and nothing else), and that `Penalty` grows by `Delay`.

The conjunction `IInv` of these parts is in each module the inductive invariant
(of `Sessions` also `OutsInv` and `CountsInv`, on top of it); each part is proved to
be kept by a step on its own, given the others. What the three theorems with a
hypothesis rest on is kept apart from it, and proved of the steps that meet the
hypothesis.

Assumptions: those of the modules on their constants (`TTL` and `MaxConsumed` are
naturals, `Malformed` and `NoToken` are no tokens, each operation has a tier; each
call has an adapter, of finitely many, and the threshold is positive; the kinds of
edits are disjoint; tasks, readings and the names for what is missing are told
apart, and `DEGRADED_TTL_MS` is no longer than `LIBRARY_TTL_MS`; what stands for no
file, no password, no process or no ingest is none; the timeouts as above; the
sign-ins under way are finitely many). TLC evaluates them in the runs. The clock never runs backwards and HMACs are not forged, by the shape of the
model (section 7).

**Only model-checked.** All liveness: fairness and what is enabled are beyond the
prover, and stay with TLC, `NobodyWaitsInVain` apart. Every invariant and every
action property that a passing run checks is a theorem.

## 6. Where the code and its own text disagree

Each of these is a run that TLC finds violated; the quotations are in
`PROJECT.json`.

1. `library_reload` — a call of a write tool in progress across a reload, be it at
   its plan or its operation, invalidates the caches of the snapshot it came with.
   The loader now in use may have read the library before the write landed, and
   goes on serving that. Without such a call it never does
   (`WritesAreSeenAcrossReload`).
2. `config_drift` — the drift test parses the file with a schema that wants an
   `auth` block, the loader supplies one first. A file without it runs as an
   unclaimed install, and every claim of it is refused, with a redirect and no
   message, as if somebody else had been quicker. Other saves cannot meet this:
   an instance without the block has neither password nor keys
   (`CommitsAreRefusedForCause`).
3. `startup_sessions` — a sign-in that the repair page is still checking when a
   save with another password starts the application goes on afterwards, and
   binds the sessions of the application to the password that was replaced.
   Nothing else does (`SessionsFollow`).

The modules state more such properties, which TLC refutes too. They are not runs,
since each is a smaller matter or follows from a decision the code documents; a
cfg that names one shows it.

- `SpentIsSpent` (`WriteGate`): `core/confirm.ts` forgets a spent token when its
  deadline is `<=` now, and accepts a token whose age *equals* the lifetime. In
  that one millisecond a spent token is good again. `SingleUse` is the property
  with that moment (and eviction) allowed for, and is proved.
- `FailedChangedNothing` (`WriteGate`): a write that timed out is settled as
  `failed`, "the service was called and said no", and may land all the same.
- `SingleTrial` (`ServiceHttp`): the first call after a cooldown puts the breaker
  one failure below its threshold and closes it; the calls that arrive before it
  settles are admitted too. The comment speaks of a single trial request.
- `UnsavedSignsOut` (`Sessions`): if `sessions.json` could not be written at a
  sign-out and the process ends, the session is good again after the restart. The
  warning of `#persist` says that a restart will sign everyone out.
- `OneIngestAtATime` (`ImdbDataset`): `#syncDataset` has it that an ingest in
  flight "will fail on the closed handle". The worker has a connection of its own
  and goes on beside the next one, and may put its older dumps in place of newer
  ones (`NeverBack` excepts it). That is the only way to two at once
  (`IngestsTakeTurns`).
- `SaveRevertsNothing` (`Startup`): the repair page's claim reads the file again
  so as not to revert a person's edit; its save writes the text of the form.

Two more were met in reading. A `VACUUM` that fails is reported as a failed
refresh that keeps the previous copy, when the new one has been committed. And
`ratingsFor` asks in chunks of 900, between which a commit may fall, so one answer
can mix two days.

Two windows are named rather than refuted: the loader's token rewrite, and a
person's edit while a replacement computed before it waits for its turn, can
undo a change (`exposed` in `ConfigStore`). `NothingOverwritten` holds for all
other changes. For a person's edit the code cannot do better; for a save that is
answered and then undone by the rewrite it could.

## 7. Limits of the models

- Clocks are monotone. HMACs are unforgeable. SQLite inserts happen or throw.
- The grant and the ceiling of a request are chosen anew for every request: that
  is every sequence of configurations, and it says nothing of how one is saved.
- `PlanThrows` stands for every failure before the gate; what a plan computes is
  an arbitrary operation, chosen when it resolves.
- The library flag of `WriteGate` says whether a snapshot is cached; the caches
  themselves are in `LibraryCache`.
- An expired cache entry that is settled is dropped at once. The code drops it at
  the next lookup, which cannot tell the difference. A pending one stays.
- `ServiceHttp` does not follow which session a request carries: a service may
  turn away any request. Redirects, headers, bodies and the mapping of status
  codes to reasons are data. Time passes in units longer than a login.
- A hand edit adds something, breaks or mends the file, or deletes it; it does
  not take single settings back. Management keys an instance starts with are never
  revoked, and none are made on one without. A crash leaves the old text or the new one,
  since the code replaces the file by a rename.
- `ConfigStore` stays down when it starts on a file that does not load; `Startup`
  is what happens then, with saves of its own. `Startup` in turn leaves the
  application alone once it runs, and begins with a file whose `auth` block can be
  read: without one the page offers no way in. A start of the application that
  throws after it opened the dataset leaves its refresher running; that is not in
  either module.
- In `Sessions` a password change is three steps, whose save `ConfigStore` has in
  full. A hash that is changed and set back by hand revives the sessions signed
  under it, as it does in the code: `OnlyCurrentPassword` is about the password,
  and it is the one in force again. The CSRF token is a function of the cookie.
  How long a password takes to check is not modelled, only what comes between.
- `ImdbDataset` leaves out how dumps are parsed and queried. A dump that cannot be
  parsed is a replacement that fails. Opening the worker takes no time beside a
  download. Other processes that share the temporary
  directory are not in it; their directories are swept by the same rule.

## 8. What is not modelled, and what is left to do

Not modelled, with what each would take:

- **MCP endpoint, OAuth, bearer tokens, tool registration.** Requests share no
  state but the issuer's key set, which a library fetches and caches. That a
  caller gets no more than its ceiling is `Permissions`, for every ceiling.
- **Webhook events.** One insert and one prune in one transaction.
- **Identity and cross-checks.** A shared promise of the form of `LibraryCache`'s
  and a race against a budget. Both have hazards (listed in `PROJECT.json`) that
  a module each would cover.
- **Plans and applies of the write tools.** An apply of several service calls can
  fail between two of them. What it reports then is data of the tool; a module
  would list the steps of `addMedia`, `cleanQueue`, `deleteMedia` and
  `manageRequests` and compare what is reported with what landed.
- **Pure functions**: configuration edits, title and episode matching, the verdict
  of `diagnose`, formatting. Their tests are tables of inputs and outputs; a
  definition in TLA+ would repeat the code.
- **Mapping of rows in the adapters**, and reads that gather and format.

Two thirds of the TypeScript are clients generated from OpenAPI documents, which
have no behaviour to model; of the rest, most is translation of data between a
service and a tool. The models cover what keeps state between two awaits, and
most of what there is of it: that is a small share of the lines.
