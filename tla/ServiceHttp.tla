---------------------------- MODULE ServiceHttp ----------------------------
(***************************************************************************)
(* core/http.ts and the session strategies of core/auth.ts: what one call  *)
(* to an upstream service goes through.  A circuit breaker admits it or    *)
(* not; a refusal for want of a session is recovered from once per attempt *)
(* by a handshake (Transmission) or by a login that all waiting calls of   *)
(* the adapter share (qBittorrent, Grimmory); a read that timed out is     *)
(* attempted once more; and the outcome is put to the breaker.             *)
(*                                                                         *)
(* Several clients may exist for one account (a reload, the Test button    *)
(* and the management API each build an adapter): each has a breaker and a *)
(* session of its own, and Grimmory's lockout is shared by all of them.    *)
(* Which session a request carries is left out: a service may turn any     *)
(* request away, and one it turns away it has not acted on.                *)
(***************************************************************************)
EXTENDS Naturals, FiniteSets

CONSTANTS
  Clients,    \* adapters
  Requests,   \* slots for calls in progress
  ClientOf,   \* the adapter each slot belongs to
  StrategyOf, \* how each adapter recovers from a refusal
  Threshold,  \* CIRCUIT_THRESHOLD
  Cooldown,   \* CIRCUIT_COOLDOWN_MS
  Lockout,    \* LOGIN_LOCKOUT_MS; 0 for a service that has none (qBittorrent)
  NotOpen,    \* `#openedAt === undefined`
  None        \* no login in flight

ASSUME ClientsAssumption ==
  /\ ClientOf \in [Requests -> Clients]
  /\ StrategyOf \in [Clients -> {"none", "handshake", "login"}]
  /\ IsFiniteSet(Requests) /\ IsFiniteSet(Clients)
ASSUME BreakerAssumption ==
  /\ Threshold \in Nat \ {0} /\ Cooldown \in Nat \ {0} /\ Lockout \in Nat
  /\ NotOpen \notin Nat /\ None \notin Requests

VARIABLES
  breaker,   \* `#consecutiveFailures`, and what is left of the cooldown
  inFlight,  \* the request whose login an adapter is waiting for
  logins,    \* login requests a service has not answered
  lockout,   \* what is left of the shared lockout
  calls,     \* the calls in progress
  streak,    \* history: failures since the last answer of any use, up to Threshold
  trials,    \* history: calls admitted since the cooldown ended, none of them settled
  strikes,   \* history: rejected logins since the last success or cooldown
  struck     \* history: rejected logins since the lockout last ran out

loginVars == <<inFlight, logins, lockout, struck>>
breakerVars == <<breaker, streak, trials, strikes>>
vars == <<breaker, inFlight, logins, lockout, calls, streak, trials, strikes, struck>>

Breaker == [failures : Nat, cooling : Nat \cup {NotOpen}]

Call == [pc : {"idle", "asking", "recovering"},
         read : BOOLEAN,         \* it may be attempted again after a timeout
         attempt : 1 .. 2,
         recoverable : BOOLEAN,  \* this attempt has not recovered yet
         sent : Nat,             \* how often it was sent
         heard : Nat]            \* how many of those were not turned away

Idle == [pc |-> "idle", read |-> TRUE, attempt |-> 1, recoverable |-> TRUE,
         sent |-> 0, heard |-> 0]

Init ==
  /\ breaker = [c \in Clients |-> [failures |-> 0, cooling |-> NotOpen]]
  /\ inFlight = [c \in Clients |-> None]
  /\ logins = {}
  /\ lockout = 0
  /\ calls = [r \in Requests |-> Idle]
  /\ streak = [c \in Clients |-> 0]
  /\ trials = [c \in Clients |-> {}]
  /\ strikes = [c \in Clients |-> 0]
  /\ struck = 0

Waiting(c) == {r \in Requests : ClientOf[r] = c /\ calls[r].pc = "recovering"}

-----------------------------------------------------------------------------
(***************************************************************************)
(* The breaker.  A success closes it, whenever it comes.  The failure that *)
(* reaches the threshold starts the cooldown; later ones do not renew it.  *)
(***************************************************************************)
recordSuccess(c) ==
  /\ breaker' = [breaker EXCEPT ![c] = [failures |-> 0, cooling |-> NotOpen]]
  /\ streak' = [streak EXCEPT ![c] = 0]
  /\ trials' = [trials EXCEPT ![c] = {}]
  /\ strikes' = [strikes EXCEPT ![c] = 0]

\* n calls fail, one right after the other.
recordFailures(c, n) ==
  LET failures == breaker[c].failures + n IN
  /\ breaker' = [breaker EXCEPT ![c] =
       [failures |-> failures,
        cooling |-> IF failures >= Threshold /\ @.cooling = NotOpen
                      THEN Cooldown ELSE @.cooling]]
  /\ streak' = [streak EXCEPT ![c] = IF @ + n > Threshold THEN Threshold ELSE @ + n]
  /\ trials' = [trials EXCEPT ![c] = {}]

\* Fault: the breaker takes "no such id" for a failure.
recordNotFoundAsFailure(c) ==
  LET failures == breaker[c].failures + 1 IN
  /\ breaker' = [breaker EXCEPT ![c] =
       [failures |-> failures,
        cooling |-> IF failures >= Threshold THEN Cooldown ELSE @.cooling]]
  /\ streak' = [streak EXCEPT ![c] = 0]
  /\ trials' = [trials EXCEPT ![c] = {}]
  /\ strikes' = [strikes EXCEPT ![c] = 0]

\* `#record` of a 404: a service that answers one has plainly answered.
recordNotFound(c) == recordSuccess(c)

\* Fault: the end of the cooldown is never noticed.
AdmittedWhenClosed(c) == breaker[c].cooling = NotOpen

\* `#circuitOpen` says no: never opened, or the cooldown has run out.
Admitted(c) == breaker[c].cooling \in {NotOpen, 0}

Sent(call, recoverable) ==
  [call EXCEPT !.pc = "asking", !.recoverable = recoverable,
               !.sent = @ + 1, !.heard = @ + 1]

(* A call is admitted.  The first one after the cooldown leaves the count  *)
(* one failure short of opening again.                                     *)
Begin(r, read) ==
  LET c == ClientOf[r] IN
  /\ calls[r].pc = "idle"
  /\ Admitted(c)
  /\ IF breaker[c].cooling = 0
       THEN /\ breaker' = [breaker EXCEPT ![c] =
                 [failures |-> Threshold - 1, cooling |-> NotOpen]]
            /\ trials' = [trials EXCEPT ![c] = {r}]
            /\ strikes' = [strikes EXCEPT ![c] = 0]
       ELSE /\ trials' = [trials EXCEPT ![c] = IF @ = {} THEN {} ELSE @ \cup {r}]
            /\ UNCHANGED <<breaker, strikes>>
  /\ calls' = [calls EXCEPT ![r] = Sent([Idle EXCEPT !.read = read], TRUE)]
  /\ UNCHANGED <<loginVars, streak>>

Answered(r) ==
  /\ calls[r].pc = "asking"
  /\ recordSuccess(ClientOf[r])
  /\ calls' = [calls EXCEPT ![r] = Idle]
  /\ UNCHANGED loginVars

NotFound(r) ==
  /\ calls[r].pc = "asking"
  /\ recordNotFound(ClientOf[r])
  /\ calls' = [calls EXCEPT ![r] = Idle]
  /\ UNCHANGED loginVars

\* An error status, an unreadable answer, no connection, or a write out of time.
Failed(r) ==
  /\ calls[r].pc = "asking"
  /\ recordFailures(ClientOf[r], 1)
  /\ calls' = [calls EXCEPT ![r] = Idle]
  /\ UNCHANGED <<loginVars, strikes>>

\* Fault: the retry goes by the verb, which in SABnzbd's API is GET for a write too.
TimesOutByVerb(r) ==
  /\ calls[r].pc = "asking"
  /\ calls[r].attempt = 1
  /\ calls' = [calls EXCEPT ![r] = Sent([@ EXCEPT !.attempt = 2], TRUE)]
  /\ UNCHANGED <<loginVars, breakerVars>>

\* Fault: a read is attempted until it is answered.
TimesOutAgain(r) ==
  /\ calls[r].pc = "asking"
  /\ calls[r].read
  /\ calls' = [calls EXCEPT ![r] = Sent([calls[r] EXCEPT !.attempt = @ + 1], TRUE)]
  /\ UNCHANGED <<loginVars, breakerVars>>

\* A read is attempted once more, and that attempt may recover once more.
TimesOut(r) ==
  /\ calls[r].pc = "asking"
  /\ calls[r].read
  /\ calls[r].attempt = 1
  /\ calls' = [calls EXCEPT ![r] = Sent([@ EXCEPT !.attempt = 2], TRUE)]
  /\ UNCHANGED <<loginVars, breakerVars>>

-----------------------------------------------------------------------------
(***************************************************************************)
(* `#auth.recover`, asked about every answer of an attempt that has not    *)
(* recovered yet.  A refusal it does not recover from is a Failed call.    *)
(***************************************************************************)
Refused(r, strategy) ==
  /\ calls[r].pc = "asking"
  /\ calls[r].recoverable
  /\ StrategyOf[ClientOf[r]] = strategy

\* transmissionRpc: the refusal brought the session to use.
Handshake(r) ==
  /\ Refused(r, "handshake")
  /\ calls' = [calls EXCEPT ![r] = Sent([calls[r] EXCEPT !.heard = @ - 1], FALSE)]
  /\ UNCHANGED <<loginVars, breakerVars>>

\* Fault: the lockout is not looked at.
MayLogInUnlocked(c) == TRUE

\* Grimmory: a login in flight may be shared, and none is started while locked out.
MayLogIn(c) == inFlight[c] # None \/ lockout = 0

LockedOut(r) ==
  LET c == ClientOf[r] IN
  /\ Refused(r, "login")
  /\ ~MayLogIn(c)
  /\ recordFailures(c, 1)
  /\ calls' = [calls EXCEPT ![r] = Idle]
  /\ UNCHANGED <<loginVars, strikes>>

\* A request starts a login, or waits for the one that is in flight.
Recover(r) ==
  LET c == ClientOf[r] IN
  /\ Refused(r, "login")
  /\ MayLogIn(c)
  /\ calls' = [calls EXCEPT ![r] = [calls[r] EXCEPT !.pc = "recovering", !.heard = @ - 1]]
  /\ IF inFlight[c] = None
       THEN /\ inFlight' = [inFlight EXCEPT ![c] = r]
            /\ logins' = logins \cup {r}
       ELSE UNCHANGED <<inFlight, logins>>
  /\ UNCHANGED <<breakerVars, lockout, struck>>

\* Everyone waiting takes the new session and sends its request once more.
LoginSucceeds(r) ==
  LET c == ClientOf[r] IN
  /\ r \in logins
  /\ inFlight' = [inFlight EXCEPT ![c] = None]
  /\ logins' = logins \ {r}
  /\ calls' = [q \in Requests |-> IF q \in Waiting(c) THEN Sent(calls[q], FALSE) ELSE calls[q]]
  /\ UNCHANGED <<breakerVars, lockout, struck>>

\* Fault: what fails while recovering does not reach the breaker.
LoginFailsUnrecorded(r) ==
  LET c == ClientOf[r] IN
  /\ r \in logins
  /\ inFlight' = [inFlight EXCEPT ![c] = None]
  /\ logins' = logins \ {r}
  /\ calls' = [q \in Requests |-> IF q \in Waiting(c) THEN Idle ELSE calls[q]]
  /\ UNCHANGED <<breaker, streak, trials>>

\* Fault: only the request that started the login hears that it failed.
LoginFailsForStarter(r) ==
  LET c == ClientOf[r] IN
  /\ r \in logins
  /\ recordFailures(c, 1)
  /\ inFlight' = [inFlight EXCEPT ![c] = None]
  /\ logins' = logins \ {r}
  /\ calls' = [calls EXCEPT ![r] = Idle]

\* Everyone waiting fails with AuthFailed, and the breaker hears of each.
LoginFails(r) ==
  LET c == ClientOf[r] IN
  /\ r \in logins
  /\ recordFailures(c, Cardinality(Waiting(c)))
  /\ inFlight' = [inFlight EXCEPT ![c] = None]
  /\ logins' = logins \ {r}
  /\ calls' = [q \in Requests |-> IF q \in Waiting(c) THEN Idle ELSE calls[q]]

\* The service answered the login and said no: nothing tries again for a while.
LoginRejected(r) ==
  /\ LoginFails(r)
  /\ lockout' = Lockout
  /\ strikes' = [strikes EXCEPT ![ClientOf[r]] = @ + 1]
  /\ struck' = IF Lockout = 0 THEN 0 ELSE struck + 1

\* The login did not get through, which says nothing about the password.
LoginLost(r) ==
  /\ LoginFails(r)
  /\ UNCHANGED <<lockout, strikes, struck>>

-----------------------------------------------------------------------------
(* Time passes, in units no login lasts for: the lockout and the cooldown  *)
(* are long beside the timeout a login has, but other requests may outlast *)
(* them (a release search has two minutes).                                *)
Tick ==
  /\ logins = {}
  /\ lockout > 0 \/ \E c \in Clients : ~Admitted(c)
  /\ breaker' = [c \in Clients |->
       IF breaker[c].cooling \in {NotOpen, 0} THEN breaker[c]
       ELSE [breaker[c] EXCEPT !.cooling = @ - 1]]
  /\ lockout' = IF lockout = 0 THEN 0 ELSE lockout - 1
  /\ struck' = IF lockout <= 1 THEN 0 ELSE struck
  /\ UNCHANGED <<inFlight, logins, calls, streak, trials, strikes>>

Settles(r) == Answered(r) \/ NotFound(r) \/ Failed(r)

LoginSettles(r) == LoginSucceeds(r) \/ LoginRejected(r) \/ LoginLost(r)

Next ==
  \/ \E r \in Requests :
       \/ \E read \in BOOLEAN : Begin(r, read)
       \/ Settles(r)
       \/ TimesOut(r)
       \/ Handshake(r)
       \/ LockedOut(r)
       \/ Recover(r)
       \/ LoginSettles(r)
  \/ Tick

Spec == Init /\ [][Next]_vars

(* Every request and every login carries a timeout, and time passes in the *)
(* pauses between logins too.                                              *)
Fairness ==
  /\ \A r \in Requests :
       /\ WF_vars(Settles(r) \/ TimesOut(r) \/ Handshake(r) \/ LockedOut(r) \/ Recover(r))
       /\ WF_vars(LoginSettles(r))
  /\ SF_vars(Tick)

FairSpec == Spec /\ Fairness

-----------------------------------------------------------------------------
TypeOK ==
  /\ breaker \in [Clients -> Breaker]
  /\ inFlight \in [Clients -> Requests \cup {None}]
  /\ logins \in SUBSET Requests
  /\ lockout \in 0 .. Lockout
  /\ calls \in [Requests -> Call]
  /\ streak \in [Clients -> 0 .. Threshold]
  /\ trials \in [Clients -> SUBSET Requests]
  /\ strikes \in [Clients -> Nat]
  /\ struck \in Nat

(* core/http.ts: "Writes never auto-retry - a retried add_media is a       *)
(* double-add", although a refused one is sent again.  Through all its     *)
(* recoveries and retries a write is never sent twice to a service that    *)
(* did not turn it away, a read no more than twice, and no attempt logs in *)
(* over and over.                                                          *)
WritesSentOnce ==
  \A r \in Requests :
    /\ calls[r].heard <= (IF calls[r].read THEN 2 ELSE 1)
    /\ calls[r].sent <= 2 * calls[r].attempt

(* core/http.ts on the breaker: what opens it is a run of failures with no *)
(* answer of any use among them, a 404 being one, so that lookups of ids   *)
(* that do not exist never make a healthy service unreachable.             *)
OpenOnlyWhenUnwell ==
  \A c \in Clients : breaker[c].cooling # NotOpen => streak[c] = Threshold

(* core/auth.ts: qBittorrent "bans a client after repeated auth attempts". *)
(* A wrong password is presented once per failure the breaker counts, and  *)
(* by the calls already under way when it opens: no more than that before  *)
(* the next cooldown.                                                      *)
WrongPasswordBounded ==
  \A c \in Clients :
    strikes[c] < Threshold + Cardinality({r \in Requests : ClientOf[r] = c})

(* core/auth.ts on Grimmory: "a wrong password cannot lock you out".  In   *)
(* one lockout window the service rejects no more than one login of each   *)
(* adapter, however many calls each of them has in progress.               *)
OneStrikeEach == struck <= Cardinality({c \in Clients : StrategyOf[c] = "login"})

(* core/http.ts: "Half-open: admit a single trial request."                *)
SingleTrial == \A c \in Clients : Cardinality(trials[c]) <= 1

(* A call that waits for a session waits for a login that is under way,    *)
(* its own or that of another call of its adapter.                         *)
NobodyWaitsInVain ==
  /\ \A r \in Requests : calls[r].pc = "recovering" => inFlight[ClientOf[r]] \in logins
  /\ \A r \in logins : inFlight[ClientOf[r]] = r

(* No call waits forever, also one that joined the login of another.       *)
EveryCallEnds == \A r \in Requests : calls[r].pc # "idle" ~> calls[r].pc = "idle"

(* An open breaker admits again, whatever happens to the calls it let in.  *)
AdmitsAgain == \A c \in Clients : []<>Admitted(c)

=============================================================================
