------------------------------ MODULE Sessions ------------------------------
(***************************************************************************)
(* Who is signed in to the config UI: the signed cookies and the file that *)
(* lets them survive a restart (core/session.ts), the backoff of the sign- *)
(* in form (core/loginThrottle.ts), and the routes that open, renew and    *)
(* end sessions (web/routes.ts).                                           *)
(*                                                                         *)
(* A cookie is what its HMAC commits to: a nonce, which is the session,    *)
(* an expiry and the key.  The key is the base key of sessions.json mixed  *)
(* with the password hash in force, so a key is the pair of them.  Anybody *)
(* who was given a cookie may present it until the end of its life, and    *)
(* there may be many cookies of one session, since renewing one leaves the *)
(* older one usable.  Times are what is left of them; nonces, base keys    *)
(* and hashes are random in the code, and here are reused once nothing     *)
(* remembers them.                                                         *)
(***************************************************************************)
EXTENDS Integers, Sequences, FiniteSets

CONSTANTS
  Attempts,     \* posts of the sign-in form that may be under way together
  Nonces,       \* sessions that may be remembered at one time
  Bases,        \* base keys, likewise
  Hashes,       \* password hashes, likewise
  NoHash,       \* no password_hash: the instance is unclaimed
  NoFile,       \* no usable sessions.json
  NoSession,    \* the nonce belongs to no session
  TTL,          \* SESSION_TTL_MS, in ticks
  RenewAfter,   \* SESSION_RENEW_AFTER_MS
  MaxRevoked,   \* MAX_REVOKED
  FreeAttempts, \* FREE_ATTEMPTS
  MaxDelay,     \* MAX_DELAY_MS, where one tick is BASE_DELAY_MS
  MaxFailures,  \* bound: failures in a row
  Budgets       \* bound: how often each of the Deeds may be done

ASSUME TimesAssumption ==
  /\ TTL \in Nat /\ RenewAfter \in 1..TTL
  /\ MaxRevoked \in Nat /\ MaxDelay \in Nat \ {0}
  /\ FreeAttempts \in Nat \ {0} /\ MaxFailures \in Nat /\ FreeAttempts < MaxFailures

ASSUME AttemptsAssumption == IsFiniteSet(Attempts)

Deeds == {"post", "signOut", "change", "edit", "lose", "restart"}

ASSUME BudgetsAssumption == Budgets \subseteq [Deeds -> Nat]

VARIABLES
  stored,    \* the password hash in config.yaml
  hash,      \* the one in force: of runtime.config, bound by bindCredentials
  base,      \* Sessions.#baseKey
  revoked,   \* Sessions.#revoked, in its order of insertion
  disk,      \* sessions.json
  tokens,    \* the cookies given out, to the tick after they expire
  attempts,  \* the posts of the sign-in form
  change,    \* a change of the password, or the claim of the instance
  throttle,  \* the LoginThrottle
  opened,    \* history: how each session came about and what became of it
  unsaved,   \* history: what is in memory could not be written
  guessing,  \* history: passwords tried since the last one that was right
  budget     \* what is left of one of the Budgets

secrets == <<stored, hash, base, revoked, disk>>
routes == <<attempts, change, throttle>>
vars == <<secrets, tokens, routes, opened, unsaved, guessing, budget>>

Token == [nonce : Nonces, left : 0..TTL, base : Bases, hash : Hashes \cup {NoHash}]
Revocation == [nonce : Nonces, left : 0..TTL]

Idle == [pc |-> "idle"]
Attempt == {Idle, [pc |-> "posted"]}
             \cup [pc : {"checking"}, against : Hashes, right : BOOLEAN]
Change == {Idle} \cup [pc : {"saving", "reloading", "finishing"}, claim : BOOLEAN,
                       expected : Hashes \cup {NoHash}, new : Hashes]

Session == [proven : Hashes,      \* the password that opened it
            straddles : BOOLEAN,  \* which was no longer in force by then
            idle : 0..TTL,        \* since its last page
            ended : BOOLEAN,      \* signed out
            excused : BOOLEAN]    \* which was forgotten, as the code says it may be

ASSUME NamesAssumption == NoHash \notin Hashes /\ NoSession \notin Session

Spend(deed) == budget[deed] > 0 /\ budget' = [budget EXCEPT ![deed] = @ - 1]

-----------------------------------------------------------------------------
(* Cookies.                                                                *)

NoncesOf(map) == {map[i].nonce : i \in DOMAIN map}

\* Fault: the key is not tied to the password hash.
VerifiesUnbound(t) ==
  /\ t.base = base
  /\ t.left > 0
  /\ t.nonce \notin NoncesOf(revoked)

\* Sessions.verify of a cookie the process signed: signature, expiry, sign-out.
Verifies(t) ==
  /\ t.base = base /\ t.hash = hash
  /\ t.left > 0
  /\ t.nonce \notin NoncesOf(revoked)

\* The guard of the pages: on an unclaimed instance nobody is signed in.
Guarded(t) == hash # NoHash /\ Verifies(t)

\* Sessions.#tokenFor, under base key b.
TokenFor(n, b) == [nonce |-> n, left |-> TTL, base |-> b, hash |-> hash]

FreshNonces == {n \in Nonces : opened[n] = NoSession /\ n \notin NoncesOf(revoked)
                                 /\ (disk = NoFile \/ n \notin NoncesOf(disk.revoked))}
FreshBases == {b \in Bases : b # base /\ (disk = NoFile \/ b # disk.base)
                               /\ \A t \in tokens : t.base # b}
FreshHashes == {h \in Hashes : h \notin {hash, stored} /\ (\A t \in tokens : t.hash # h)
                                /\ (\A a \in Attempts : attempts[a].pc = "checking" => attempts[a].against # h)
                                /\ \A n \in Nonces : opened[n] # NoSession => opened[n].proven # h}

\* Sessions.issue, to somebody who presented (or chose) the password p.
Issue(b, p) ==
  \E n \in FreshNonces :
    /\ tokens' = tokens \cup {TokenFor(n, b)}
    /\ opened' = [opened EXCEPT ![n] = [proven |-> p, straddles |-> p # hash, idle |-> 0,
                                        ended |-> FALSE, excused |-> FALSE]]

\* Sessions.#persist: a rename, or a warning that nobody hears.
Persist ==
  \/ disk' = [base |-> base', revoked |-> revoked'] /\ unsaved' = FALSE
  \/ disk' = disk /\ unsaved' = TRUE

-----------------------------------------------------------------------------
(* The throttle.                                                           *)

\* 2 ** n, as a function: it is proved about.
Doubled[n \in 0..MaxFailures] == IF n = 0 THEN 1 ELSE 2 * Doubled[n - 1]

\* The delay that `over` failures beyond the free ones earn.
Delay(over) == IF Doubled[over] < MaxDelay THEN Doubled[over] ELSE MaxDelay

\* Fault: one failure more before the first delay.
recordFailureLate(t) ==
  LET n == t.failures + 1
  IN [failures |-> n,
      blocked |-> IF n <= FreeAttempts THEN t.blocked ELSE Delay(n - FreeAttempts)]

\* LoginThrottle.recordFailure.
recordFailure(t) ==
  LET n == t.failures + 1
  IN [failures |-> n,
      blocked |-> IF n < FreeAttempts THEN t.blocked ELSE Delay(n - FreeAttempts)]

\* LoginThrottle.recordSuccess, and the throttle of a new process.
Unthrottled == [failures |-> 0, blocked |-> 0]

\* What n failures beyond the free ones cost in all.
Penalty[n \in 0..MaxFailures] == IF n = 0 THEN 0 ELSE Penalty[n - 1] + Delay(n - 1)

\* Nobody has guessed since; p posts are on their way to their check.
Guesses(p) == [tried |-> 0, carried |-> p, elapsed |-> 0]

-----------------------------------------------------------------------------
(* POST /ui/login.                                                         *)

\* The attempt is counted as a failure before the first await.
Post(a) ==
  /\ attempts[a] = Idle
  /\ hash # NoHash /\ throttle.blocked = 0
  /\ throttle.failures < MaxFailures
  /\ attempts' = [attempts EXCEPT ![a] = [pc |-> "posted"]]
  /\ throttle' = recordFailure(throttle)
  /\ Spend("post")
  /\ UNCHANGED <<secrets, tokens, change, opened, unsaved, guessing>>

\* The form is read; the password is checked against the hash of this moment.
Read(a) ==
  /\ attempts[a].pc = "posted"
  /\ \/ /\ hash = NoHash
        /\ attempts' = [attempts EXCEPT ![a] = Idle]
        /\ UNCHANGED guessing
     \/ /\ hash # NoHash
        /\ \E right \in BOOLEAN :
             attempts' = [attempts EXCEPT ![a] = [pc |-> "checking", against |-> hash, right |-> right]]
        /\ guessing' = [guessing EXCEPT !.tried = @ + 1]
  /\ UNCHANGED <<secrets, tokens, change, throttle, opened, unsaved, budget>>

Reject(a) ==
  /\ attempts[a].pc = "checking" /\ ~attempts[a].right
  /\ attempts' = [attempts EXCEPT ![a] = Idle]
  /\ UNCHANGED <<secrets, tokens, change, throttle, opened, unsaved, guessing, budget>>

\* The session is signed with the key of now, whatever the check was against.
Accept(a) ==
  /\ attempts[a].pc = "checking" /\ attempts[a].right
  /\ attempts' = [attempts EXCEPT ![a] = Idle]
  /\ throttle' = Unthrottled
  /\ guessing' = Guesses(Cardinality({b \in Attempts \ {a} : attempts[b].pc = "posted"}))
  /\ Issue(base, attempts[a].against)
  /\ UNCHANGED <<secrets, change, unsaved, budget>>

-----------------------------------------------------------------------------
(* Pages, and signing out.                                                 *)

\* Fault: only what is past its middle age is renewed.
RenewsLate(t) == TTL - t.left > RenewAfter

\* Sessions.renew: too recent a cookie is left as it is.
Renews(t) == TTL - t.left >= RenewAfter

\* A page is sent, and a renewed cookie with it.
OpenPage(t) ==
  /\ Guarded(t)
  /\ tokens' = IF Renews(t) THEN tokens \cup {TokenFor(t.nonce, base)} ELSE tokens
  /\ opened' = [opened EXCEPT ![t.nonce].idle = 0]
  /\ UNCHANGED <<secrets, routes, unsaved, guessing, budget>>

\* The entries of a map that are not dead yet, in its order.
Live(map) ==
  LET kept[i \in 0..Len(map)] ==
        IF i = 0 THEN <<>>
        ELSE IF map[i].left > 0 THEN Append(kept[i - 1], map[i]) ELSE kept[i - 1]
  IN kept[Len(map)]

\* Fault: nothing is evicted.
SweepDead(map) == Live(map)

\* Sessions.#sweep: the expired are dropped, then the oldest while there are too many.
Sweep(map) ==
  LET live == Live(map)
  IN IF Len(live) > MaxRevoked THEN SubSeq(live, Len(live) - MaxRevoked + 1, Len(live)) ELSE live

\* Fault: a sign-out is remembered as long as the copy it was made with lives.
SignOutOwnLife(t) ==
  LET all == Append(revoked, [nonce |-> t.nonce, left |-> t.left])
      evicted == {all[i].nonce : i \in {j \in DOMAIN all : all[j].left > 0}} \ NoncesOf(revoked')
  IN /\ Verifies(t)
     /\ revoked' = Sweep(all)
     /\ base' = base
     /\ Persist
     /\ opened' = [n \in Nonces |->
                     IF opened[n] = NoSession THEN NoSession
                     ELSE [opened[n] EXCEPT !.ended = @ \/ n = t.nonce,
                                            !.excused = @ \/ n \in evicted]]
     /\ Spend("signOut")
     /\ UNCHANGED <<stored, hash, tokens, routes, guessing>>

\* Sessions.revoke: a whole lifetime from now, since a newer copy may exist.
SignOut(t) ==
  LET all == Append(revoked, [nonce |-> t.nonce, left |-> TTL])
      evicted == {all[i].nonce : i \in {j \in DOMAIN all : all[j].left > 0}} \ NoncesOf(revoked')
  IN /\ Verifies(t)
     /\ revoked' = Sweep(all)
     /\ base' = base
     /\ Persist
     /\ opened' = [n \in Nonces |->
                     IF opened[n] = NoSession THEN NoSession
                     ELSE [opened[n] EXCEPT !.ended = @ \/ n = t.nonce,
                                            !.excused = @ \/ n \in evicted]]
     /\ Spend("signOut")
     /\ UNCHANGED <<stored, hash, tokens, routes, guessing>>

-----------------------------------------------------------------------------
(* A change of the password, POST /ui/config/account, and the claim of an  *)
(* unclaimed instance, POST /ui/setup.  ConfigStore has the saves in full. *)

StartChange ==
  /\ change = Idle
  /\ \E h \in FreshHashes :
       change' = [pc |-> "saving", claim |-> hash = NoHash, expected |-> hash, new |-> h]
  /\ hash # NoHash => \E t \in tokens : Guarded(t)
  /\ Spend("change")
  /\ UNCHANGED <<secrets, tokens, attempts, throttle, opened, unsaved, guessing>>

\* saveConfig: the file is replaced if it says what was expected.  If not, a change
\* reloads, unless what is there does not load; a claim does not.
SaveChange ==
  /\ change.pc = "saving"
  /\ \/ /\ stored = change.expected
        /\ stored' = change.new
        /\ change' = [change EXCEPT !.pc = "reloading"]
        /\ UNCHANGED hash
     \/ /\ stored # change.expected
        /\ hash' \in IF change.claim THEN {hash} ELSE {hash, stored}
        /\ change' = Idle
        /\ UNCHANGED stored
  /\ UNCHANGED <<base, revoked, disk, tokens, attempts, throttle, opened, unsaved, guessing, budget>>

\* Runtime.#reloadNow, which may throw.
ReloadChange ==
  /\ change.pc = "reloading"
  /\ \/ hash' = stored /\ change' = [change EXCEPT !.pc = "finishing"]
     \/ hash' = hash /\ change' = Idle
  /\ UNCHANGED <<stored, base, revoked, disk, tokens, attempts, throttle, opened, unsaved, guessing, budget>>

\* Sessions.rotateKey, and a session for whoever made the change.
FinishChange ==
  /\ change.pc = "finishing" /\ ~change.claim
  /\ base' \in FreshBases
  /\ revoked' = <<>>
  /\ Persist
  /\ Issue(base', change.new)
  /\ change' = Idle
  /\ UNCHANGED <<stored, hash, attempts, throttle, guessing, budget>>

FinishClaim ==
  /\ change.pc = "finishing" /\ change.claim
  /\ Issue(base, change.new)
  /\ change' = Idle
  /\ UNCHANGED <<secrets, attempts, throttle, unsaved, guessing, budget>>

-----------------------------------------------------------------------------
(* Everything else that happens to the files and the process.              *)

\* A person sets the hash in config.yaml, puts an old one back, or deletes it.
HandEdit ==
  /\ stored' \in (Hashes \cup {NoHash}) \ {stored}
  /\ Spend("edit")
  /\ UNCHANGED <<hash, base, revoked, disk, tokens, routes, opened, unsaved, guessing>>

\* Somebody deletes or damages sessions.json.
LoseFile ==
  /\ disk # NoFile
  /\ disk' = NoFile
  /\ Spend("lose")
  /\ UNCHANGED <<stored, hash, base, revoked, tokens, routes, opened, unsaved, guessing>>

\* A save of something else reloads, and binds the hash it finds.
Reload ==
  /\ hash # stored
  /\ hash' = stored
  /\ UNCHANGED <<stored, base, revoked, disk, tokens, routes, opened, unsaved, guessing, budget>>

\* Sessions.open in a new process, whose runtime binds the hash of the file.
Restart ==
  /\ hash' = stored
  /\ attempts' = [a \in Attempts |-> Idle] /\ change' = Idle
  /\ throttle' = Unthrottled /\ guessing' = Guesses(0)
  /\ \/ /\ disk = NoFile
        /\ base' \in FreshBases /\ revoked' = <<>>
        /\ Persist
        /\ UNCHANGED opened
     \/ /\ disk # NoFile
        /\ base' = disk.base
        /\ revoked' = Live(disk.revoked)
        /\ opened' = [n \in Nonces |->
                        IF opened[n] = NoSession \/ ~unsaved THEN opened[n]
                        ELSE [opened[n] EXCEPT !.excused = @ \/ n \notin NoncesOf(revoked')]]
        /\ disk' = disk /\ unsaved' = FALSE
  /\ Spend("restart")
  /\ UNCHANGED <<stored, tokens>>

Less(n) == IF n = 0 THEN 0 ELSE n - 1
Aged(map) == [i \in DOMAIN map |-> [map[i] EXCEPT !.left = Less(@)]]

\* A tick: what had expired before is gone, and its session with it.
Tick ==
  LET kept == {t \in tokens : t.left > 0}
  IN /\ tokens' = {[t EXCEPT !.left = @ - 1] : t \in kept}
     /\ opened' = [n \in Nonces |->
                     IF n \notin {t.nonce : t \in kept} THEN NoSession
                     ELSE [opened[n] EXCEPT !.idle = IF @ < TTL THEN @ + 1 ELSE TTL]]
     /\ revoked' = Aged(revoked)
     /\ disk' = IF disk = NoFile THEN NoFile ELSE [disk EXCEPT !.revoked = Aged(@)]
     /\ throttle' = [throttle EXCEPT !.blocked = Less(@)]
     /\ guessing' = [guessing EXCEPT !.elapsed = IF @ < Penalty[MaxFailures - FreeAttempts] THEN @ + 1 ELSE @]
     /\ UNCHANGED <<stored, hash, base, attempts, change, unsaved, budget>>

-----------------------------------------------------------------------------

Init ==
  /\ stored \in {NoHash} \cup Hashes
  /\ hash = stored
  /\ base \in Bases
  /\ revoked = <<>>
  /\ disk = [base |-> base, revoked |-> <<>>]
  /\ tokens = {}
  /\ attempts = [a \in Attempts |-> Idle]
  /\ change = Idle
  /\ throttle = Unthrottled
  /\ opened = [n \in Nonces |-> NoSession]
  /\ unsaved = FALSE
  /\ guessing = Guesses(0)
  /\ budget \in Budgets

SignIn(a) == Post(a) \/ Read(a) \/ Reject(a) \/ Accept(a)
Present(t) == OpenPage(t) \/ SignOut(t)
ChangePassword == StartChange \/ SaveChange \/ ReloadChange \/ FinishChange \/ FinishClaim
Environment == HandEdit \/ LoseFile \/ Reload \/ Restart \/ Tick

Next ==
  \/ \E a \in Attempts : SignIn(a)
  \/ \E t \in tokens : Present(t)
  \/ ChangePassword
  \/ Environment

Spec == Init /\ [][Next]_vars

-----------------------------------------------------------------------------
(* Properties.                                                             *)

TypeOK ==
  /\ stored \in Hashes \cup {NoHash} /\ hash \in Hashes \cup {NoHash}
  /\ base \in Bases
  /\ revoked \in Seq(Revocation) /\ Len(revoked) <= MaxRevoked
  /\ disk = NoFile \/ disk \in [base : Bases, revoked : Seq(Revocation)]
  /\ tokens \subseteq Token
  /\ attempts \in [Attempts -> Attempt]
  /\ change \in Change
  /\ throttle \in [failures : 0..MaxFailures, blocked : 0..MaxDelay]
  /\ opened \in [Nonces -> Session \cup {NoSession}]
  /\ unsaved \in BOOLEAN
  /\ guessing \in [tried : Nat, carried : Nat, elapsed : Nat]

\* Signing out ends a session in every copy, renewed ones included, for as long as any
\* copy could live, and a restart does not undo it (core/session.ts:264, :139).  Two
\* ways out are the code's own: the set of revoked sessions is full, or it could not be
\* written before the process ended.
SignedOutStaysOut ==
  \A t \in tokens : Verifies(t) => ~opened[t.nonce].ended \/ opened[t.nonce].excused

\* The comment on Sessions.#persist has it that a file which could not be written costs
\* a sign-in, and docs/security.md that a restart undoes no sign-out: after a restart
\* that follows a failed write nothing older verifies.
UnsavedSignsOut ==
  [][Restart /\ unsaved => \A t \in tokens : ~Verifies(t)']_vars

\* Whoever is signed in got there with the password in force, by a change of it in the
\* UI or in the file, a claim, a reset, a restart and any overlap of these
\* (core/session.ts:152).  The exception: a password was changed while a sign-in with
\* the old one was being checked (web/routes.ts:219), or while its author's change was
\* being applied; the session is then signed with the new one.
OnlyCurrentPassword ==
  \A t \in tokens : Guarded(t) => opened[t.nonce].proven = hash \/ opened[t.nonce].straddles

\* A session lasts from the last page its user opened, less the renewal's grain: within
\* that time some cookie of it is alive, whichever copy the page was opened with
\* (core/session.ts:203).
LastsFromLastPage ==
  \A n \in Nonces :
    opened[n] # NoSession /\ opened[n].idle + RenewAfter <= TTL
      => \E t \in tokens : t.nonce = n /\ t.left > 0

\* Passwords are guessed no faster than the backoff allows, however many posts are under
\* way at once (web/routes.ts:198): beyond the free ones, and those that were on their
\* way when the last right password cleared the count, every guess was paid for in time.
GuessesAreSlow ==
  LET over == guessing.tried - guessing.carried - FreeAttempts
  IN over > 0 => over \in DOMAIN Penalty /\ guessing.elapsed >= Penalty[over]

=============================================================================
