------------------------- MODULE ServiceHttp_proofs -------------------------
(***************************************************************************)
(* Theorems about ServiceHttp, for any number of adapters and of calls in  *)
(* progress, any threshold, cooldown and lockout, and any assignment of    *)
(* recovery strategies.                                                    *)
(***************************************************************************)
EXTENDS ServiceHttp, FiniteSetTheorems, TLAPS

(***************************************************************************)
(* Calls.                                                                  *)
(***************************************************************************)

(* One call, at any moment of its life: how far it can have got with the   *)
(* attempts and the recoveries it had.  What was turned away was not acted *)
(* on, so a call that recovers was heard less often than it was attempted. *)
Orderly(call) ==
  /\ call.pc = "idle" => call = Idle
  /\ call.pc = "asking" =>
       /\ 1 <= call.heard /\ call.heard <= call.attempt
       /\ call.sent <= 2 * call.attempt
       /\ call.recoverable => call.sent + 1 <= 2 * call.attempt
  /\ call.pc = "recovering" =>
       /\ call.recoverable
       /\ call.heard + 1 <= call.attempt
       /\ call.sent + 1 <= 2 * call.attempt
  /\ call.attempt = 2 => call.read

CallsInv ==
  /\ calls \in [Requests -> Call]
  /\ \A r \in Requests : Orderly(calls[r])

LEMMA IdleIsOrderly == Idle \in Call /\ Orderly(Idle)
  BY DEF Idle, Call, Orderly

LEMMA CallChanges ==
  ASSUME CallsInv, NEW r \in Requests, NEW x \in Call, Orderly(x),
         calls' = [calls EXCEPT ![r] = x]
  PROVE  CallsInv'
  BY DEF CallsInv, Orderly

\* What a sending makes of a call, field by field.
LEMMA SentIs ==
  ASSUME NEW x \in Call, NEW b \in BOOLEAN
  PROVE  /\ Sent(x, b) \in Call
         /\ Sent(x, b).pc = "asking"
         /\ Sent(x, b).read = x.read
         /\ Sent(x, b).attempt = x.attempt
         /\ Sent(x, b).recoverable = b
         /\ Sent(x, b).sent = x.sent + 1
         /\ Sent(x, b).heard = x.heard + 1
<1>1. x.sent + 1 \in Nat /\ x.heard + 1 \in Nat
  BY DEF Call
<1>2. QED
  BY <1>1, Zenon DEF Sent, Call

\* A sending that stays within its attempt, one recovery included.
LEMMA OrderlyWhenSent ==
  ASSUME NEW x \in Call, NEW b \in BOOLEAN,
         x.heard + 1 <= x.attempt,
         x.sent + 1 <= 2 * x.attempt,
         b => x.sent + 2 <= 2 * x.attempt,
         x.attempt = 2 => x.read
  PROVE  Sent(x, b) \in Call /\ Orderly(Sent(x, b))
<1> DEFINE y == Sent(x, b)
<1>1. /\ y \in Call
      /\ y.pc = "asking" /\ y.read = x.read /\ y.attempt = x.attempt /\ y.recoverable = b
      /\ y.sent = x.sent + 1 /\ y.heard = x.heard + 1
  BY SentIs
<1>2. x.sent \in Nat /\ x.heard \in Nat /\ x.attempt \in Nat
  BY DEF Call
<1> HIDE DEF y
<1>3. y.attempt = 2 => y.read
  BY <1>1, Zenon
<1>4. y.recoverable => y.sent + 1 <= 2 * y.attempt
  <2>1. b => x.sent + 1 + 1 <= 2 * x.attempt
    BY <1>2
  <2>2. QED
    BY <1>1, <2>1, Zenon
<1>5. 1 <= y.heard /\ y.heard <= y.attempt /\ y.sent <= 2 * y.attempt
  BY <1>1, <1>2
<1>6. Orderly(y)
  BY <1>1, <1>3, <1>4, <1>5 DEF Orderly
<1>7. QED
  BY <1>1, <1>6 DEF y

\* What a call that may still recover has behind it.
LEMMA BeforeRecovery ==
  ASSUME NEW x \in Call, Orderly(x), x.pc = "asking", x.recoverable
  PROVE  /\ x.heard - 1 \in Nat /\ x.heard - 1 + 1 <= x.attempt
         /\ x.sent \in Nat /\ x.sent + 1 <= 2 * x.attempt
         /\ x.attempt \in 1 .. 2
         /\ x.attempt = 2 => x.read
<1>1. x.sent \in Nat /\ x.heard \in Nat /\ x.attempt \in 1 .. 2
  BY DEF Call
<1>2. QED
  BY <1>1 DEF Orderly

\* A first sending, of a read or of a write.
LEMMA FirstSending ==
  ASSUME NEW read \in BOOLEAN
  PROVE  /\ Sent([Idle EXCEPT !.read = read], TRUE) \in Call
         /\ Orderly(Sent([Idle EXCEPT !.read = read], TRUE))
<1> DEFINE x == [Idle EXCEPT !.read = read]
<1>1. x.attempt = 1 /\ x.sent = 0 /\ x.heard = 0
  BY Zenon DEF Idle
<1>2. x \in Call
  <2>1. 1 \in 1 .. 2 /\ 0 \in Nat
    OBVIOUS
  <2>2. QED
    BY <2>1, Zenon DEF Idle, Call
<1> HIDE DEF x
<1>3. x.heard + 1 <= x.attempt /\ x.sent + 2 <= 2 * x.attempt /\ x.sent + 1 <= 2 * x.attempt
  BY <1>1
<1>4. x.attempt # 2
  BY <1>1
<1>5. Sent(x, TRUE) \in Call /\ Orderly(Sent(x, TRUE))
  BY <1>2, <1>3, <1>4, OrderlyWhenSent
<1>6. QED
  BY <1>5 DEF x

\* A read that timed out, sent again as a second attempt.
LEMMA SecondAttempt ==
  ASSUME NEW x \in Call, Orderly(x), x.pc = "asking", x.read, x.attempt = 1
  PROVE  /\ Sent([x EXCEPT !.attempt = 2], TRUE) \in Call
         /\ Orderly(Sent([x EXCEPT !.attempt = 2], TRUE))
<1> DEFINE y == [x EXCEPT !.attempt = 2]
<1>1. y.attempt = 2 /\ y.read = x.read /\ y.sent = x.sent /\ y.heard = x.heard
  BY Zenon DEF Call
<1>2. y \in Call
  <2>1. 2 \in 1 .. 2
    OBVIOUS
  <2>2. QED
    BY <2>1, Zenon DEF Call
<1>3. x.sent \in Nat /\ x.heard \in Nat
  BY DEF Call
<1>4. x.sent <= 2 /\ x.heard <= 1
  BY <1>3 DEF Orderly
<1>5. y.read
  BY <1>1, Zenon
<1> HIDE DEF y
<1>6. y.heard + 1 <= y.attempt /\ y.sent + 2 <= 2 * y.attempt /\ y.sent + 1 <= 2 * y.attempt
  BY <1>1, <1>3, <1>4
<1>7. Sent(y, TRUE) \in Call /\ Orderly(Sent(y, TRUE))
  BY <1>2, <1>5, <1>6, OrderlyWhenSent
<1>8. QED
  BY <1>7 DEF y

\* A refused call, sent again with the session that the refusal brought.
LEMMA AfterHandshake ==
  ASSUME NEW x \in Call, Orderly(x), x.pc = "asking", x.recoverable
  PROVE  /\ Sent([x EXCEPT !.heard = @ - 1], FALSE) \in Call
         /\ Orderly(Sent([x EXCEPT !.heard = @ - 1], FALSE))
<1> DEFINE y == [x EXCEPT !.heard = @ - 1]
<1>1. y.attempt = x.attempt /\ y.read = x.read /\ y.sent = x.sent /\ y.heard = x.heard - 1
  BY Zenon DEF Call
<1>2. y \in Call
  BY BeforeRecovery, Zenon DEF Call
<1>3. y.attempt = 2 => y.read
  BY <1>1, BeforeRecovery, Zenon
<1> HIDE DEF y
<1>4. y.heard + 1 <= y.attempt /\ y.sent + 1 <= 2 * y.attempt
  BY <1>1, BeforeRecovery
<1>5. Sent(y, FALSE) \in Call /\ Orderly(Sent(y, FALSE))
  BY <1>2, <1>3, <1>4, OrderlyWhenSent
<1>6. QED
  BY <1>5 DEF y

\* A refused call, waiting for a login.
LEMMA WhileRecovering ==
  ASSUME NEW x \in Call, Orderly(x), x.pc = "asking", x.recoverable
  PROVE  /\ [x EXCEPT !.pc = "recovering", !.heard = @ - 1] \in Call
         /\ [x EXCEPT !.pc = "recovering", !.heard = @ - 1].pc = "recovering"
         /\ Orderly([x EXCEPT !.pc = "recovering", !.heard = @ - 1])
<1> DEFINE y == [x EXCEPT !.pc = "recovering", !.heard = @ - 1]
<1>1. /\ y.pc = "recovering" /\ y.recoverable = x.recoverable
      /\ y.attempt = x.attempt /\ y.read = x.read
      /\ y.sent = x.sent /\ y.heard = x.heard - 1
  BY Zenon DEF Call
<1>2. y \in Call
  BY BeforeRecovery, Zenon DEF Call
<1>3. (y.attempt = 2 => y.read) /\ y.recoverable
  BY <1>1, BeforeRecovery, Zenon
<1> HIDE DEF y
<1>4. y.heard + 1 <= y.attempt /\ y.sent + 1 <= 2 * y.attempt
  BY <1>1, BeforeRecovery
<1>5. Orderly(y)
  BY <1>1, <1>3, <1>4 DEF Orderly
<1>6. QED
  BY <1>1, <1>2, <1>5 DEF y

\* The same call, sent again after the login.
LEMMA AfterLogin ==
  ASSUME NEW x \in Call, Orderly(x), x.pc = "recovering"
  PROVE  /\ Sent(x, FALSE) \in Call
         /\ Orderly(Sent(x, FALSE))
<1>1. x.heard + 1 <= x.attempt /\ x.sent + 1 <= 2 * x.attempt /\ (x.attempt = 2 => x.read)
  BY DEF Orderly
<1>2. QED
  BY <1>1, OrderlyWhenSent

\* A login ends well: all that waited for it are sent once more.
LEMMA WaitersResume ==
  ASSUME CallsInv, NEW c \in Clients,
         calls' = [q \in Requests |-> IF q \in Waiting(c) THEN Sent(calls[q], FALSE) ELSE calls[q]]
  PROVE  CallsInv'
<1>1. ASSUME NEW q \in Requests
      PROVE  calls'[q] \in Call /\ Orderly(calls'[q])
  <2>1. CASE q \in Waiting(c)
    BY <2>1, AfterLogin DEF CallsInv, Waiting
  <2>2. CASE q \notin Waiting(c)
    BY <2>2 DEF CallsInv
  <2>3. QED
    BY <2>1, <2>2
<1>2. QED
  BY <1>1 DEF CallsInv, Orderly

\* A login fails, and with it all that waited for it.
LEMMA WaitersFail ==
  ASSUME CallsInv, NEW c \in Clients,
         calls' = [q \in Requests |-> IF q \in Waiting(c) THEN Idle ELSE calls[q]]
  PROVE  CallsInv'
  BY IdleIsOrderly DEF CallsInv, Orderly

LEMMA CallsInit == Init => CallsInv
  BY IdleIsOrderly DEF Init, CallsInv

LEMMA CallsStep ==
  ASSUME CallsInv, [Next]_vars
  PROVE  CallsInv'
<1>t. \A r \in Requests : ClientOf[r] \in Clients
  BY ClientsAssumption
<1>1. ASSUME NEW r \in Requests, NEW read \in BOOLEAN, Begin(r, read)
      PROVE  CallsInv'
  BY <1>1, FirstSending, CallChanges DEF Begin
<1>2. ASSUME NEW r \in Requests, Settles(r) \/ LockedOut(r)
      PROVE  CallsInv'
  BY <1>2, IdleIsOrderly, CallChanges DEF Settles, Answered, NotFound, Failed, LockedOut
<1>3. ASSUME NEW r \in Requests, TimesOut(r)
      PROVE  CallsInv'
  <2>1. /\ calls[r] \in Call /\ Orderly(calls[r])
        /\ calls[r].pc = "asking" /\ calls[r].read /\ calls[r].attempt = 1
        /\ calls' = [calls EXCEPT ![r] = Sent([calls[r] EXCEPT !.attempt = 2], TRUE)]
    BY <1>3 DEF TimesOut, CallsInv
  <2>2. QED
    BY <2>1, SecondAttempt, CallChanges
<1>4. ASSUME NEW r \in Requests, Handshake(r)
      PROVE  CallsInv'
  <2>1. /\ calls[r] \in Call /\ Orderly(calls[r])
        /\ calls[r].pc = "asking" /\ calls[r].recoverable
        /\ calls' = [calls EXCEPT ![r] = Sent([calls[r] EXCEPT !.heard = @ - 1], FALSE)]
    BY <1>4 DEF Handshake, Refused, CallsInv
  <2>2. QED
    BY <2>1, AfterHandshake, CallChanges
<1>5. ASSUME NEW r \in Requests, Recover(r)
      PROVE  CallsInv'
  <2>1. /\ calls[r] \in Call /\ Orderly(calls[r])
        /\ calls[r].pc = "asking" /\ calls[r].recoverable
        /\ calls' = [calls EXCEPT ![r] = [calls[r] EXCEPT !.pc = "recovering", !.heard = @ - 1]]
    BY <1>5 DEF Recover, Refused, CallsInv
  <2>2. QED
    BY <2>1, WhileRecovering, CallChanges
<1>6. ASSUME NEW r \in Requests, LoginSettles(r)
      PROVE  CallsInv'
  BY <1>6, <1>t, WaitersResume, WaitersFail
     DEF LoginSettles, LoginSucceeds, LoginRejected, LoginLost, LoginFails
<1>7. CASE Tick \/ UNCHANGED vars
  BY <1>7 DEF Tick, vars, CallsInv, Orderly
<1>8. QED
  BY <1>1, <1>2, <1>3, <1>4, <1>5, <1>6, <1>7 DEF Next

(***************************************************************************)
(* Breakers.                                                               *)
(***************************************************************************)

(* A breaker counts no failure that the history does not, unless the       *)
(* history has reached the threshold; and it is open only then.            *)
BreakersInv ==
  /\ breaker \in [Clients -> Breaker]
  /\ streak \in [Clients -> 0 .. Threshold]
  /\ \A c \in Clients :
       /\ breaker[c].failures <= streak[c] \/ streak[c] = Threshold
       /\ breaker[c].cooling # NotOpen => streak[c] = Threshold

\* The calls that wait for a login can be counted.
LEMMA WaitingFinite ==
  ASSUME NEW c \in Clients
  PROVE  IsFiniteSet(Waiting(c)) /\ Cardinality(Waiting(c)) \in Nat
<1>1. Waiting(c) \subseteq Requests
  BY DEF Waiting
<1>2. QED
  BY <1>1, ClientsAssumption, FS_Subset, FS_CardinalityType

LEMMA SuccessCloses ==
  ASSUME BreakersInv, NEW c \in Clients, recordSuccess(c)
  PROVE  BreakersInv'
<1> DEFINE closed == [failures |-> 0, cooling |-> NotOpen]
<1>1. closed \in Breaker /\ closed.failures = 0 /\ closed.cooling = NotOpen
  BY DEF Breaker
<1>2. breaker' = [breaker EXCEPT ![c] = closed] /\ streak' = [streak EXCEPT ![c] = 0]
  BY DEF recordSuccess
<1> HIDE DEF closed
<1>3. 0 \in 0 .. Threshold
  BY BreakerAssumption
<1>4. QED
  BY <1>1, <1>2, <1>3 DEF BreakersInv

\* What n failures make of the breaker of c, and that they leave the others alone.
LEMMA FailuresAre ==
  ASSUME breaker \in [Clients -> Breaker], NEW c \in Clients, NEW n \in Nat,
         recordFailures(c, n)
  PROVE  /\ breaker' \in [Clients -> Breaker]
         /\ breaker'[c].failures = breaker[c].failures + n
         /\ breaker'[c].cooling =
              IF breaker[c].failures + n >= Threshold /\ breaker[c].cooling = NotOpen
                THEN Cooldown ELSE breaker[c].cooling
         /\ \A d \in Clients \ {c} : breaker'[d] = breaker[d]
<1> DEFINE cooling == IF breaker[c].failures + n >= Threshold /\ breaker[c].cooling = NotOpen
                        THEN Cooldown ELSE breaker[c].cooling
           next == [failures |-> breaker[c].failures + n, cooling |-> cooling]
<1>1. breaker' = [breaker EXCEPT ![c] = next]
  BY DEF recordFailures
<1>2. cooling \in Nat \cup {NotOpen} /\ breaker[c].failures + n \in Nat
  BY BreakerAssumption DEF Breaker
<1>3. next \in Breaker /\ next.failures = breaker[c].failures + n /\ next.cooling = cooling
  BY <1>2 DEF Breaker
<1> HIDE DEF next
<1>4. QED
  BY <1>1, <1>3

LEMMA FailuresCount ==
  ASSUME BreakersInv, NEW c \in Clients, NEW n \in Nat, recordFailures(c, n)
  PROVE  BreakersInv'
<1> DEFINE more == IF streak[c] + n > Threshold THEN Threshold ELSE streak[c] + n
<1>1. streak' = [streak EXCEPT ![c] = more]
  BY DEF recordFailures
<1>2. streak[c] \in 0 .. Threshold /\ Threshold \in Nat /\ breaker[c].failures \in Nat
  BY BreakerAssumption DEF BreakersInv, Breaker
<1>3. /\ more \in 0 .. Threshold
      /\ breaker[c].failures + n <= more \/ more = Threshold
      /\ breaker[c].failures + n >= Threshold => more = Threshold
      /\ streak[c] = Threshold => more = Threshold
  BY <1>2 DEF BreakersInv
<1> HIDE DEF more
<1>4. breaker'[c].cooling # NotOpen => more = Threshold
  BY <1>3, FailuresAre DEF BreakersInv
<1>5. QED
  BY <1>1, <1>3, <1>4, FailuresAre DEF BreakersInv

LEMMA BreakersInit == Init => BreakersInv
<1> SUFFICES ASSUME Init PROVE BreakersInv
  OBVIOUS
<1> DEFINE closed == [failures |-> 0, cooling |-> NotOpen]
<1>1. closed \in Breaker /\ closed.failures = 0 /\ closed.cooling = NotOpen
  BY DEF Breaker
<1>2. breaker = [c \in Clients |-> closed] /\ streak = [c \in Clients |-> 0]
  BY DEF Init
<1> HIDE DEF closed
<1>3. QED
  BY <1>1, <1>2, BreakerAssumption DEF BreakersInv

LEMMA BreakersStep ==
  ASSUME BreakersInv, [Next]_vars
  PROVE  BreakersInv'
<1>t. \A r \in Requests : ClientOf[r] \in Clients
  BY ClientsAssumption
<1>1. ASSUME NEW r \in Requests, NEW read \in BOOLEAN, Begin(r, read)
      PROVE  BreakersInv'
  <2> DEFINE c == ClientOf[r]
             trial == [failures |-> Threshold - 1, cooling |-> NotOpen]
  <2>1. CASE breaker[c].cooling = 0
    <3>1. /\ breaker' = [breaker EXCEPT ![c] = trial]
          /\ UNCHANGED streak
      BY <1>1, <2>1 DEF Begin
    <3>2. streak[c] = Threshold
      BY <2>1, <1>t, BreakerAssumption DEF BreakersInv
    <3>3. trial \in Breaker /\ trial.cooling = NotOpen
      BY BreakerAssumption DEF Breaker
    <3> HIDE DEF trial
    <3>4. QED
      BY <3>1, <3>2, <3>3, <1>t DEF BreakersInv
  <2>2. CASE breaker[c].cooling # 0
    <3>1. UNCHANGED <<breaker, streak>>
      BY <1>1, <2>2 DEF Begin
    <3>2. QED
      BY <3>1 DEF BreakersInv
  <2>3. QED
    BY <2>1, <2>2
<1>2. ASSUME NEW r \in Requests, Answered(r) \/ NotFound(r)
      PROVE  BreakersInv'
  BY <1>2, <1>t, SuccessCloses DEF Answered, NotFound, recordNotFound
<1>3. ASSUME NEW r \in Requests, Failed(r) \/ LockedOut(r)
      PROVE  BreakersInv'
  BY <1>3, <1>t, FailuresCount DEF Failed, LockedOut
<1>4. ASSUME NEW r \in Requests, LoginRejected(r) \/ LoginLost(r)
      PROVE  BreakersInv'
  BY <1>4, <1>t, FailuresCount, WaitingFinite DEF LoginRejected, LoginLost, LoginFails
<1>5. ASSUME NEW r \in Requests, TimesOut(r) \/ Handshake(r) \/ Recover(r) \/ LoginSucceeds(r)
      PROVE  BreakersInv'
  BY <1>5 DEF TimesOut, Handshake, Recover, LoginSucceeds, breakerVars, BreakersInv
<1>6. CASE Tick
  <2>1. ASSUME NEW c \in Clients
        PROVE  /\ breaker'[c] \in Breaker
               /\ breaker'[c].failures = breaker[c].failures
               /\ breaker'[c].cooling = NotOpen <=> breaker[c].cooling = NotOpen
    <3>1. CASE breaker[c].cooling \in {NotOpen, 0}
      BY <1>6, <3>1 DEF Tick, BreakersInv
    <3>2. CASE breaker[c].cooling \notin {NotOpen, 0}
      <4>1. breaker'[c] = [breaker[c] EXCEPT !.cooling = breaker[c].cooling - 1]
        BY <1>6, <3>2 DEF Tick
      <4>2. breaker[c].cooling - 1 \in Nat
        BY <3>2 DEF BreakersInv, Breaker
      <4>3. breaker[c] \in Breaker
        BY DEF BreakersInv
      <4>4. QED
        BY <4>1, <4>2, <4>3, <3>2, BreakerAssumption DEF Breaker
    <3>3. QED
      BY <3>1, <3>2
  <2>2. breaker' \in [Clients -> Breaker] /\ UNCHANGED streak
    BY <1>6, <2>1 DEF Tick
  <2>3. QED
    BY <2>1, <2>2 DEF BreakersInv
<1>7. CASE UNCHANGED vars
  BY <1>7 DEF vars, BreakersInv
<1>8. QED
  BY <1>1, <1>2, <1>3, <1>4, <1>5, <1>6, <1>7 DEF Next, Settles, LoginSettles

(***************************************************************************)
(* Logins.                                                                 *)
(***************************************************************************)

(* A login in flight was started by a request of its adapter that is       *)
(* waiting for it, and the logins a service has are those in flight.       *)
LoginsInv ==
  /\ inFlight \in [Clients -> Requests \cup {None}]
  /\ \A c \in Clients : inFlight[c] # None =>
       ClientOf[inFlight[c]] = c /\ calls[inFlight[c]].pc = "recovering"
  /\ logins \subseteq Requests
  /\ \A r \in logins : inFlight[ClientOf[r]] = r

\* The request that started a login is one of those waiting for it.
LEMMA StarterWaits ==
  ASSUME LoginsInv, NEW r \in logins
  PROVE  /\ r \in Requests /\ ClientOf[r] \in Clients
         /\ inFlight[ClientOf[r]] = r
         /\ r \in Waiting(ClientOf[r])
  BY ClientsAssumption, BreakerAssumption DEF LoginsInv, Waiting

\* A step that starts and ends no login, and moves no call that waits for one.
LEMMA LoginsKept ==
  ASSUME LoginsInv, UNCHANGED <<inFlight, logins>>,
         \A q \in Requests : calls[q].pc = "recovering" => calls'[q].pc = "recovering"
  PROVE  LoginsInv'
  BY BreakerAssumption DEF LoginsInv

\* The end of a login, which moves only calls that waited for it.
LEMMA LoginEnds ==
  ASSUME LoginsInv, NEW r \in logins,
         inFlight' = [inFlight EXCEPT ![ClientOf[r]] = None],
         logins' = logins \ {r},
         \A q \in Requests : q \notin Waiting(ClientOf[r]) => calls'[q] = calls[q]
  PROVE  LoginsInv'
<1> DEFINE c == ClientOf[r]
<1>1. c \in Clients /\ inFlight[c] = r
  BY StarterWaits
<1>2. inFlight' \in [Clients -> Requests \cup {None}]
  BY DEF LoginsInv
<1>3. ASSUME NEW d \in Clients, inFlight'[d] # None
      PROVE  ClientOf[inFlight'[d]] = d /\ calls'[inFlight'[d]].pc = "recovering"
  <2>1. d # c /\ inFlight'[d] = inFlight[d]
    BY <1>1, <1>3 DEF LoginsInv
  <2>2. inFlight[d] \in Requests /\ ClientOf[inFlight[d]] = d
    BY <1>3, <2>1 DEF LoginsInv
  <2>3. calls'[inFlight[d]] = calls[inFlight[d]]
    BY <2>1, <2>2 DEF Waiting
  <2>4. QED
    BY <1>3, <2>1, <2>3 DEF LoginsInv
<1>4. ASSUME NEW q \in logins'
      PROVE  q \in Requests /\ inFlight'[ClientOf[q]] = q
  <2>1. q \in logins /\ q # r
    BY <1>4
  <2>2. q \in Requests /\ ClientOf[q] \in Clients /\ inFlight[ClientOf[q]] = q
    BY <2>1, StarterWaits
  <2>3. ClientOf[q] # c
    BY <1>1, <2>1, <2>2
  <2>4. QED
    BY <2>2, <2>3 DEF LoginsInv
<1>5. QED
  BY <1>2, <1>3, <1>4 DEF LoginsInv

LEMMA LoginsStep ==
  ASSUME CallsInv, LoginsInv, [Next]_vars
  PROVE  LoginsInv'
<1>t. \A r \in Requests : ClientOf[r] \in Clients
  BY ClientsAssumption
<1>p. \A r \in Requests : calls[r] \in Call
  BY DEF CallsInv
<1>1. ASSUME NEW r \in Requests, NEW read \in BOOLEAN, Begin(r, read)
      PROVE  LoginsInv'
  BY <1>1, LoginsKept DEF Begin, loginVars, CallsInv
<1>2. ASSUME NEW r \in Requests, Settles(r) \/ LockedOut(r)
      PROVE  LoginsInv'
  BY <1>2, LoginsKept
     DEF Settles, Answered, NotFound, Failed, LockedOut, Refused, loginVars, CallsInv
<1>3. ASSUME NEW r \in Requests, TimesOut(r) \/ Handshake(r)
      PROVE  LoginsInv'
  BY <1>3, LoginsKept DEF TimesOut, Handshake, Refused, loginVars, CallsInv
<1>4. ASSUME NEW r \in Requests, Recover(r)
      PROVE  LoginsInv'
  <2> DEFINE c == ClientOf[r]
  <2>1. /\ calls[r].pc = "asking"
        /\ calls' = [calls EXCEPT ![r] = [calls[r] EXCEPT !.pc = "recovering", !.heard = @ - 1]]
    BY <1>4 DEF Recover, Refused
  <2>2. /\ calls'[r].pc = "recovering"
        /\ \A q \in Requests \ {r} : calls'[q] = calls[q]
    BY <2>1, <1>p DEF CallsInv, Call
  <2>3. CASE inFlight[c] = None
    <3>1. inFlight' = [inFlight EXCEPT ![c] = r] /\ logins' = logins \cup {r}
      BY <1>4, <2>3 DEF Recover
    <3>2. inFlight' \in [Clients -> Requests \cup {None}] /\ inFlight'[c] = r
      BY <3>1, <1>t DEF LoginsInv
    <3>3. ASSUME NEW d \in Clients, inFlight'[d] # None
          PROVE  ClientOf[inFlight'[d]] = d /\ calls'[inFlight'[d]].pc = "recovering"
      BY <3>1, <3>2, <3>3, <2>2, <1>t DEF LoginsInv
    <3>4. ASSUME NEW q \in logins'
          PROVE  q \in Requests /\ inFlight'[ClientOf[q]] = q
      <4>1. CASE q = r
        BY <4>1, <3>2
      <4>2. CASE q \in logins
        <5>1. q \in Requests /\ ClientOf[q] \in Clients /\ inFlight[ClientOf[q]] = q
          BY <4>2, StarterWaits
        <5>2. ClientOf[q] # c
          BY <5>1, <2>3, BreakerAssumption
        <5>3. QED
          BY <5>1, <5>2, <3>1 DEF LoginsInv
      <4>3. QED
        BY <3>1, <3>4, <4>1, <4>2
    <3>5. QED
      BY <3>2, <3>3, <3>4 DEF LoginsInv
  <2>4. CASE inFlight[c] # None
    <3>1. UNCHANGED <<inFlight, logins>>
      BY <1>4, <2>4 DEF Recover
    <3>2. QED
      BY <3>1, <2>2, LoginsKept
  <2>5. QED
    BY <2>3, <2>4
<1>5. ASSUME NEW r \in Requests, LoginSettles(r)
      PROVE  LoginsInv'
  <2>1. r \in logins
    BY <1>5 DEF LoginSettles, LoginSucceeds, LoginRejected, LoginLost, LoginFails
  <2>2. /\ inFlight' = [inFlight EXCEPT ![ClientOf[r]] = None]
        /\ logins' = logins \ {r}
        /\ \A q \in Requests : q \notin Waiting(ClientOf[r]) => calls'[q] = calls[q]
    BY <1>5 DEF LoginSettles, LoginSucceeds, LoginRejected, LoginLost, LoginFails
  <2>3. QED
    BY <2>1, <2>2, LoginEnds
<1>6. CASE Tick \/ UNCHANGED vars
  BY <1>6, LoginsKept DEF Tick, vars
<1>7. QED
  BY <1>1, <1>2, <1>3, <1>4, <1>5, <1>6 DEF Next

\* Whoever waits, waits for a login the service has.
WaitersInv == \A r \in Requests : calls[r].pc = "recovering" => inFlight[ClientOf[r]] \in logins

LEMMA WaitersKept ==
  ASSUME WaitersInv, UNCHANGED <<inFlight, logins>>,
         \A q \in Requests : calls'[q].pc = "recovering" => calls[q].pc = "recovering"
  PROVE  WaitersInv'
BY DEF WaitersInv

LEMMA WaitersStep ==
  ASSUME CallsInv, LoginsInv, WaitersInv, [Next]_vars
  PROVE  WaitersInv'
<1>p. calls \in [Requests -> Call] /\ \A r \in Requests : calls[r] \in Call
  BY DEF CallsInv
<1>2. ASSUME NEW r \in Requests, NEW read \in BOOLEAN, Begin(r, read)
      PROVE  WaitersInv'
  <2>1. calls'[r].pc # "recovering" /\ \A q \in Requests \ {r} : calls'[q] = calls[q]
    <3>1. calls' = [calls EXCEPT ![r] = Sent([Idle EXCEPT !.read = read], TRUE)]
      BY <1>2 DEF Begin
    <3>2. Sent([Idle EXCEPT !.read = read], TRUE).pc = "asking"
      BY DEF Sent, Idle
    <3>3. QED
      BY <1>p, <3>1, <3>2, Zenon
  <2>2. QED
    BY <1>2, <2>1, WaitersKept DEF Begin, loginVars
<1>3. ASSUME NEW r \in Requests, Settles(r) \/ LockedOut(r)
      PROVE  WaitersInv'
  <2>1. calls' = [calls EXCEPT ![r] = Idle] /\ UNCHANGED <<inFlight, logins>>
    BY <1>3 DEF Settles, Answered, NotFound, Failed, LockedOut, loginVars
  <2>2. Idle.pc = "idle"
    BY DEF Idle
  <2>3. \A q \in Requests : calls'[q].pc = "recovering" => calls[q].pc = "recovering"
    BY <1>p, <2>1, <2>2, Zenon
  <2>4. QED
    BY <2>1, <2>3, WaitersKept
<1>4. ASSUME NEW r \in Requests, TimesOut(r) \/ Handshake(r)
      PROVE  WaitersInv'
  <2>1. calls[r].pc = "asking" /\ UNCHANGED <<inFlight, logins>>
    BY <1>4 DEF TimesOut, Handshake, Refused, loginVars
  <2>2. \A q \in Requests \ {r} : calls'[q] = calls[q]
    BY <1>4, <1>p DEF TimesOut, Handshake
  <2>3. calls'[r].pc = "asking"
    <3>1. \A x \in Call : Sent([x EXCEPT !.attempt = 2], TRUE).pc = "asking"
      BY DEF Sent, Call
    <3>2. \A x \in Call : Sent([x EXCEPT !.heard = @ - 1], FALSE).pc = "asking"
      BY DEF Sent, Call
    <3>3. CASE TimesOut(r)
      BY <1>p, <3>1, <3>3 DEF TimesOut
    <3>4. CASE Handshake(r)
      BY <1>p, <3>2, <3>4 DEF Handshake
    <3>5. QED
      BY <1>4, <3>3, <3>4
  <2>4. QED
    BY <2>1, <2>2, <2>3, WaitersKept
<1>5. ASSUME NEW r \in Requests, Recover(r)
      PROVE  WaitersInv'
  <2> DEFINE c == ClientOf[r]
  <2>1. c \in Clients /\ \A q \in Requests \ {r} : calls'[q] = calls[q]
    BY <1>5, <1>p, ClientsAssumption DEF Recover
  <2>2. CASE inFlight[c] = None
    <3>1. inFlight' = [inFlight EXCEPT ![c] = r] /\ logins' = logins \cup {r}
      BY <1>5, <2>2 DEF Recover
    <3>2. inFlight'[c] = r /\ \A d \in Clients \ {c} : inFlight'[d] = inFlight[d]
      BY <2>1, <3>1 DEF LoginsInv
    <3>3. QED
      BY <2>1, <3>1, <3>2, ClientsAssumption DEF WaitersInv
  <2>3. CASE inFlight[c] # None
    <3>1. UNCHANGED <<inFlight, logins>>
      BY <1>5, <2>3 DEF Recover
    <3>2. inFlight[c] \in Requests /\ ClientOf[inFlight[c]] = c /\ calls[inFlight[c]].pc = "recovering"
      BY <2>1, <2>3 DEF LoginsInv
    <3>3. inFlight[c] \in logins
      BY <3>2 DEF WaitersInv
    <3>4. QED
      BY <2>1, <3>1, <3>3 DEF WaitersInv
  <2>4. QED
    BY <2>2, <2>3
<1>6. ASSUME NEW r \in Requests, LoginSettles(r)
      PROVE  WaitersInv'
  <2> DEFINE c == ClientOf[r]
  <2>1. r \in logins /\ c \in Clients
    BY <1>6, ClientsAssumption DEF LoginSettles, LoginSucceeds, LoginRejected, LoginLost, LoginFails
  <2>2. inFlight' = [inFlight EXCEPT ![c] = None] /\ logins' = logins \ {r}
    BY <1>6 DEF LoginSettles, LoginSucceeds, LoginRejected, LoginLost, LoginFails
  <2>3. \A q \in Requests \ Waiting(c) : calls'[q] = calls[q]
    BY <1>6 DEF LoginSettles, LoginSucceeds, LoginRejected, LoginLost, LoginFails
  <2>4. \A q \in Waiting(c) : calls'[q].pc # "recovering"
    <3>1. \A q \in Requests : Sent(calls[q], FALSE).pc = "asking"
      BY <1>p DEF Sent, Call
    <3>2. Idle.pc = "idle"
      BY DEF Idle
    <3>3. \A q \in Waiting(c) : calls'[q] = Sent(calls[q], FALSE) \/ calls'[q] = Idle
      <4>1. Waiting(c) \subseteq Requests
        BY DEF Waiting
      <4>2. QED
        BY <1>6, <4>1 DEF LoginSettles, LoginSucceeds, LoginRejected, LoginLost, LoginFails
    <3>4. QED
      BY <3>1, <3>2, <3>3, Zenon DEF Waiting
  <2>5. ASSUME NEW q \in Requests, calls'[q].pc = "recovering"
        PROVE  inFlight'[ClientOf[q]] \in logins'
    <3>1. q \notin Waiting(c) /\ calls[q].pc = "recovering"
      BY <2>3, <2>4, <2>5
    <3>2. ClientOf[q] \in Clients /\ ClientOf[q] # c
      BY <3>1, ClientsAssumption DEF Waiting
    <3>3. inFlight'[ClientOf[q]] = inFlight[ClientOf[q]] /\ inFlight[ClientOf[q]] \in logins
      BY <2>2, <3>1, <3>2 DEF WaitersInv, LoginsInv
    <3>4. inFlight[ClientOf[q]] # r
      <4>1. inFlight[c] = r /\ ClientOf[r] = c
        BY <2>1 DEF LoginsInv
      <4>2. inFlight[ClientOf[q]] \in Requests
        BY <3>3 DEF LoginsInv
      <4>3. ClientOf[inFlight[ClientOf[q]]] = ClientOf[q]
        BY <3>2, <4>2, BreakerAssumption DEF LoginsInv
      <4>4. QED
        BY <3>2, <4>3
    <3>5. QED
      BY <2>2, <3>3, <3>4
  <2>6. QED
    BY <2>5 DEF WaitersInv
<1>7. CASE Tick \/ UNCHANGED vars
  BY <1>7, WaitersKept DEF Tick, vars
<1>8. QED
  BY <1>2, <1>3, <1>4, <1>5, <1>6, <1>7 DEF Next

(***************************************************************************)
(* Wrong passwords and the breaker.                                        *)
(***************************************************************************)
CallsOf(c) == {r \in Requests : ClientOf[r] = c}
Active(c) == {r \in CallsOf(c) : calls[r].pc # "idle"}

(* While the breaker is closed each strike is one of the failures it       *)
(* counts.  While it is open nothing is admitted: each further strike ends *)
(* a call, and there are no more of those than there were.                 *)
StrikesOf(c) ==
  /\ breaker[c].cooling = NotOpen =>
       strikes[c] <= breaker[c].failures /\ breaker[c].failures < Threshold
  /\ strikes[c] + Cardinality(Active(c)) < Threshold + Cardinality(CallsOf(c))

StrikesInv ==
  /\ strikes \in [Clients -> Nat]
  /\ \A c \in Clients : StrikesOf(c)

LEMMA ActiveCount ==
  ASSUME NEW c \in Clients
  PROVE  /\ IsFiniteSet(Active(c))
         /\ Cardinality(Active(c)) \in Nat
         /\ Cardinality(CallsOf(c)) \in Nat
         /\ Cardinality(Active(c)) <= Cardinality(CallsOf(c))
<1>1. Active(c) \subseteq CallsOf(c) /\ CallsOf(c) \subseteq Requests
  BY DEF Active, CallsOf
<1>2. IsFiniteSet(CallsOf(c))
  BY <1>1, ClientsAssumption, FS_Subset
<1>3. QED
  BY <1>1, <1>2, FS_Subset, FS_CardinalityType

LEMMA ActiveCountNext ==
  ASSUME NEW c \in Clients
  PROVE  /\ IsFiniteSet(Active(c)')
         /\ Cardinality(Active(c)') \in Nat
         /\ Cardinality(Active(c)') <= Cardinality(CallsOf(c))
<1>1. Active(c)' \subseteq CallsOf(c) /\ CallsOf(c) \subseteq Requests
  BY DEF Active, CallsOf
<1>2. IsFiniteSet(CallsOf(c))
  BY <1>1, ClientsAssumption, FS_Subset
<1>3. QED
  BY <1>1, <1>2, FS_Subset, FS_CardinalityType

\* A breaker that is closed after a step, with no more strikes than failures.
LEMMA StrikesWhenClosed ==
  ASSUME NEW c \in Clients, strikes'[c] \in Nat, breaker'[c].failures \in Nat,
         strikes'[c] <= breaker'[c].failures, breaker'[c].failures < Threshold
  PROVE  StrikesOf(c)'
<1>1. CallsOf(c)' = CallsOf(c)
  BY DEF CallsOf
<1>2. strikes'[c] + Cardinality(Active(c)') < Threshold + Cardinality(CallsOf(c))
  BY ActiveCount, ActiveCountNext, BreakerAssumption
<1>3. QED
  BY <1>1, <1>2 DEF StrikesOf

\* No new strike, no new call, and the breaker, if it is closed now, was before.
LEMMA StrikesKept ==
  ASSUME NEW c \in Clients, StrikesOf(c), strikes[c] \in Nat,
         breaker[c].failures \in Nat, breaker'[c].failures \in Nat,
         strikes'[c] = strikes[c],
         Active(c)' \subseteq Active(c),
         breaker'[c].cooling = NotOpen =>
           /\ breaker[c].cooling = NotOpen
           /\ breaker[c].failures <= breaker'[c].failures
           /\ breaker'[c].failures < Threshold
  PROVE  StrikesOf(c)'
<1>1. Cardinality(Active(c)') <= Cardinality(Active(c))
  BY ActiveCount, FS_Subset
<1>2. strikes'[c] + Cardinality(Active(c)') < Threshold + Cardinality(CallsOf(c))
  BY <1>1, ActiveCount, ActiveCountNext, BreakerAssumption DEF StrikesOf
<1>3. CallsOf(c)' = CallsOf(c)
  BY DEF CallsOf
<1>4. breaker'[c].cooling = NotOpen => strikes'[c] <= breaker'[c].failures
  BY BreakerAssumption DEF StrikesOf
<1>5. QED
  BY <1>2, <1>3, <1>4 DEF StrikesOf

\* One strike, at least one failure, and one call less at the least.
LEMMA StrikesCounted ==
  ASSUME NEW c \in Clients, StrikesOf(c), strikes[c] \in Nat, NEW n \in Nat \ {0},
         breaker[c].failures \in Nat,
         breaker'[c].failures = breaker[c].failures + n,
         strikes'[c] = strikes[c] + 1,
         NEW r \in Active(c), Active(c)' \subseteq Active(c) \ {r},
         breaker'[c].cooling = NotOpen =>
           breaker[c].cooling = NotOpen /\ breaker'[c].failures < Threshold
  PROVE  StrikesOf(c)'
<1>1. Cardinality(Active(c)') <= Cardinality(Active(c)) - 1
  <2>1. /\ IsFiniteSet(Active(c) \ {r})
        /\ Cardinality(Active(c) \ {r}) = Cardinality(Active(c)) - 1
    BY ActiveCount, FS_RemoveElement
  <2>2. Cardinality(Active(c)') <= Cardinality(Active(c) \ {r})
    BY <2>1, FS_Subset
  <2>3. QED
    BY <2>1, <2>2
<1>2. strikes'[c] + Cardinality(Active(c)') < Threshold + Cardinality(CallsOf(c))
  BY <1>1, ActiveCount, ActiveCountNext, BreakerAssumption DEF StrikesOf
<1>3. CallsOf(c)' = CallsOf(c)
  BY DEF CallsOf
<1>4. breaker'[c].cooling = NotOpen => strikes'[c] <= breaker'[c].failures
  BY BreakerAssumption DEF StrikesOf
<1>5. QED
  BY <1>2, <1>3, <1>4 DEF StrikesOf

LEMMA StrikesInit == Init => StrikesInv
<1> SUFFICES ASSUME Init PROVE StrikesInv
  OBVIOUS
<1>1. ASSUME NEW c \in Clients
      PROVE  /\ strikes[c] = 0 /\ breaker[c].failures = 0
             /\ Cardinality(Active(c)) < Threshold + Cardinality(CallsOf(c))
  <2>1. strikes[c] = 0 /\ breaker[c].failures = 0
    BY DEF Init
  <2>2. QED
    BY <2>1, ActiveCount, BreakerAssumption
<1>2. strikes \in [Clients -> Nat]
  BY DEF Init
<1>3. QED
  BY <1>1, <1>2, ActiveCount, BreakerAssumption DEF StrikesInv, StrikesOf

\* A step of one adapter is nothing to another.
LEMMA OthersKept ==
  ASSUME BreakersInv, StrikesInv, NEW c \in Clients, NEW d \in Clients \ {c},
         breaker'[d] = breaker[d], strikes'[d] = strikes[d],
         \A q \in Requests : ClientOf[q] # c => calls'[q] = calls[q]
  PROVE  StrikesOf(d)'
<1>1. Active(d)' \subseteq Active(d)
  BY DEF Active, CallsOf
<1>2. StrikesOf(d) /\ strikes[d] \in Nat /\ breaker[d].failures \in Nat
  BY DEF StrikesInv, BreakersInv, Breaker
<1>3. breaker[d].cooling = NotOpen => breaker[d].failures < Threshold
  BY <1>2 DEF StrikesOf
<1>4. QED
  BY <1>1, <1>2, <1>3, StrikesKept

\* n failures of one adapter, with no strike among them, end some of its calls.
LEMMA StrikesWithFailures ==
  ASSUME BreakersInv, StrikesInv, NEW c \in Clients, NEW n \in Nat, recordFailures(c, n),
         UNCHANGED strikes, Active(c)' \subseteq Active(c),
         \A q \in Requests : ClientOf[q] # c => calls'[q] = calls[q]
  PROVE  StrikesInv'
<1>1. StrikesOf(c) /\ strikes[c] \in Nat /\ breaker[c].failures \in Nat /\ Threshold \in Nat
  BY BreakerAssumption DEF StrikesInv, BreakersInv, Breaker
<1>2. /\ breaker'[c].failures = breaker[c].failures + n
      /\ breaker'[c].cooling =
           IF breaker[c].failures + n >= Threshold /\ breaker[c].cooling = NotOpen
             THEN Cooldown ELSE breaker[c].cooling
      /\ \A d \in Clients \ {c} : breaker'[d] = breaker[d]
  BY FailuresAre DEF BreakersInv
<1>3. breaker'[c].cooling = NotOpen =>
        /\ breaker[c].cooling = NotOpen
        /\ breaker[c].failures <= breaker'[c].failures
        /\ breaker'[c].failures < Threshold
  BY <1>1, <1>2, BreakerAssumption DEF StrikesOf
<1>4. StrikesOf(c)'
  BY <1>1, <1>2, <1>3, StrikesKept
<1>5. ASSUME NEW d \in Clients \ {c}
      PROVE  StrikesOf(d)'
  BY <1>2, OthersKept
<1>6. QED
  BY <1>4, <1>5 DEF StrikesInv

\* An answer of any use.
LEMMA StrikesForgotten ==
  ASSUME BreakersInv, StrikesInv, NEW c \in Clients, recordSuccess(c),
         \A q \in Requests : ClientOf[q] # c => calls'[q] = calls[q]
  PROVE  StrikesInv'
<1> DEFINE closed == [failures |-> 0, cooling |-> NotOpen]
<1>1. closed.failures = 0
  OBVIOUS
<1>2. breaker' = [breaker EXCEPT ![c] = closed] /\ strikes' = [strikes EXCEPT ![c] = 0]
  BY DEF recordSuccess
<1> HIDE DEF closed
<1>3. /\ breaker'[c].failures = 0 /\ strikes'[c] = 0
      /\ \A d \in Clients \ {c} : breaker'[d] = breaker[d] /\ strikes'[d] = strikes[d]
  BY <1>1, <1>2 DEF BreakersInv, StrikesInv
<1>4. StrikesOf(c)'
  BY <1>3, StrikesWhenClosed, BreakerAssumption
<1>5. ASSUME NEW d \in Clients \ {c}
      PROVE  StrikesOf(d)'
  BY <1>3, OthersKept
<1>6. strikes' \in [Clients -> Nat]
  BY <1>2 DEF StrikesInv
<1>7. QED
  BY <1>4, <1>5, <1>6 DEF StrikesInv

\* A step that leaves breakers and strikes alone, and starts no call.
LEMMA StrikesUntouched ==
  ASSUME BreakersInv, StrikesInv, UNCHANGED <<breaker, strikes>>,
         \A q \in Requests : calls[q].pc = "idle" => calls'[q].pc = "idle"
  PROVE  StrikesInv'
<1>1. ASSUME NEW d \in Clients
      PROVE  StrikesOf(d)'
  <2>1. Active(d)' \subseteq Active(d)
    BY DEF Active, CallsOf
  <2>2. StrikesOf(d) /\ strikes[d] \in Nat /\ breaker[d].failures \in Nat
    BY DEF StrikesInv, BreakersInv, Breaker
  <2>3. breaker[d].cooling = NotOpen => breaker[d].failures < Threshold
    BY <2>2 DEF StrikesOf
  <2>4. QED
    BY <2>1, <2>2, <2>3, StrikesKept
<1>2. QED
  BY <1>1 DEF StrikesInv

LEMMA StrikesStep ==
  ASSUME BreakersInv, CallsInv, LoginsInv, StrikesInv, [Next]_vars
  PROVE  StrikesInv'
<1>t. /\ \A r \in Requests : ClientOf[r] \in Clients
      /\ \A c \in Clients : strikes[c] \in Nat /\ breaker[c].failures \in Nat
      /\ Threshold \in Nat
  BY ClientsAssumption, BreakerAssumption DEF StrikesInv, BreakersInv, Breaker
<1>1. ASSUME NEW r \in Requests, NEW read \in BOOLEAN, Begin(r, read)
      PROVE  StrikesInv'
  <2> DEFINE c == ClientOf[r]
             trial == [failures |-> Threshold - 1, cooling |-> NotOpen]
  <2>0. \A q \in Requests : ClientOf[q] # c => calls'[q] = calls[q]
    <3>1. PICK x : calls' = [calls EXCEPT ![r] = x]
      BY <1>1, Zenon DEF Begin
    <3>2. QED
      BY <3>1
  <2>1. CASE breaker[c].cooling = 0
    <3>1. /\ breaker' = [breaker EXCEPT ![c] = trial]
          /\ strikes' = [strikes EXCEPT ![c] = 0]
      BY <1>1, <2>1 DEF Begin
    <3>2. trial.failures = Threshold - 1
      OBVIOUS
    <3> HIDE DEF trial
    <3>3. /\ breaker'[c].failures = Threshold - 1 /\ strikes'[c] = 0
          /\ \A d \in Clients \ {c} : breaker'[d] = breaker[d] /\ strikes'[d] = strikes[d]
      BY <3>1, <3>2, <1>t DEF BreakersInv, StrikesInv
    <3>4. StrikesOf(c)'
      BY <3>3, <1>t, StrikesWhenClosed, BreakerAssumption
    <3>5. ASSUME NEW d \in Clients \ {c}
          PROVE  StrikesOf(d)'
      BY <2>0, <3>3, <1>t, OthersKept
    <3>6. strikes' \in [Clients -> Nat]
      BY <3>1 DEF StrikesInv
    <3>7. QED
      BY <3>4, <3>5, <3>6 DEF StrikesInv
  <2>2. CASE breaker[c].cooling # 0
    <3>1. UNCHANGED <<breaker, strikes>> /\ breaker[c].cooling = NotOpen
      BY <1>1, <2>2 DEF Begin, Admitted
    <3>2. StrikesOf(c)'
      BY <3>1, <1>t, StrikesWhenClosed DEF StrikesInv, StrikesOf
    <3>3. ASSUME NEW d \in Clients \ {c}
          PROVE  StrikesOf(d)'
      BY <2>0, <3>1, <1>t, OthersKept
    <3>4. QED
      BY <3>1, <3>2, <3>3 DEF StrikesInv
  <2>3. QED
    BY <2>1, <2>2
<1>2. ASSUME NEW r \in Requests, Answered(r) \/ NotFound(r)
      PROVE  StrikesInv'
  <2>1. recordSuccess(ClientOf[r]) /\ calls' = [calls EXCEPT ![r] = Idle]
    BY <1>2 DEF Answered, NotFound, recordNotFound
  <2>2. QED
    BY <2>1, <1>t, StrikesForgotten
<1>3. ASSUME NEW r \in Requests, Failed(r) \/ LockedOut(r)
      PROVE  StrikesInv'
  <2> DEFINE c == ClientOf[r]
  <2>1. /\ recordFailures(c, 1) /\ UNCHANGED strikes
        /\ calls' = [calls EXCEPT ![r] = Idle]
    BY <1>3 DEF Failed, LockedOut
  <2>2. Active(c)' \subseteq Active(c)
    BY <2>1 DEF Active, CallsOf, Idle
  <2>3. \A q \in Requests : ClientOf[q] # c => calls'[q] = calls[q]
    BY <2>1
  <2>4. QED
    BY <2>1, <2>2, <2>3, <1>t, StrikesWithFailures
<1>4. ASSUME NEW r \in Requests, LoginLost(r)
      PROVE  StrikesInv'
  <2> DEFINE c == ClientOf[r]
             n == Cardinality(Waiting(c))
  <2>1. /\ recordFailures(c, n) /\ UNCHANGED strikes
        /\ calls' = [q \in Requests |-> IF q \in Waiting(c) THEN Idle ELSE calls[q]]
    BY <1>4 DEF LoginLost, LoginFails
  <2>2. Active(c)' \subseteq Active(c)
    BY <2>1 DEF Active, CallsOf, Idle
  <2>3. \A q \in Requests : ClientOf[q] # c => calls'[q] = calls[q]
    BY <2>1 DEF Waiting
  <2>4. n \in Nat
    BY <1>t, WaitingFinite
  <2> HIDE DEF n
  <2>5. QED
    BY <2>1, <2>2, <2>3, <2>4, <1>t, StrikesWithFailures
<1>5. ASSUME NEW r \in Requests, LoginRejected(r)
      PROVE  StrikesInv'
  <2> DEFINE c == ClientOf[r]
             n == Cardinality(Waiting(c))
  <2>1. /\ recordFailures(c, n) /\ strikes' = [strikes EXCEPT ![c] = @ + 1]
        /\ calls' = [q \in Requests |-> IF q \in Waiting(c) THEN Idle ELSE calls[q]]
        /\ r \in logins
    BY <1>5 DEF LoginRejected, LoginFails
  <2>2. c \in Clients /\ r \in Waiting(c)
    BY <2>1, StarterWaits
  <2>3. n \in Nat \ {0}
    BY <2>2, WaitingFinite, FS_EmptySet
  <2>4. r \in Active(c) /\ Active(c)' \subseteq Active(c) \ {r}
    BY <2>1, <2>2 DEF Active, CallsOf, Idle, Waiting
  <2>5. \A q \in Requests : ClientOf[q] # c => calls'[q] = calls[q]
    BY <2>1 DEF Waiting
  <2> HIDE DEF n
  <2>6. /\ breaker'[c].failures = breaker[c].failures + n
        /\ breaker'[c].cooling =
             IF breaker[c].failures + n >= Threshold /\ breaker[c].cooling = NotOpen
               THEN Cooldown ELSE breaker[c].cooling
        /\ \A d \in Clients \ {c} : breaker'[d] = breaker[d]
    BY <2>1, <2>2, <2>3, FailuresAre DEF BreakersInv
  <2>7. /\ strikes'[c] = strikes[c] + 1 /\ strikes' \in [Clients -> Nat]
        /\ \A d \in Clients \ {c} : strikes'[d] = strikes[d]
    BY <2>1, <2>2 DEF StrikesInv
  <2>8. breaker'[c].cooling = NotOpen =>
          breaker[c].cooling = NotOpen /\ breaker'[c].failures < Threshold
    BY <2>2, <2>3, <2>6, <1>t, BreakerAssumption
  <2>9. StrikesOf(c)'
    BY <2>2, <2>3, <2>4, <2>6, <2>7, <2>8, <1>t, StrikesCounted DEF StrikesInv
  <2>10. ASSUME NEW d \in Clients \ {c}
         PROVE  StrikesOf(d)'
    BY <2>2, <2>5, <2>6, <2>7, OthersKept
  <2>11. QED
    BY <2>7, <2>9, <2>10 DEF StrikesInv
<1>6. ASSUME NEW r \in Requests, TimesOut(r) \/ Handshake(r) \/ Recover(r)
      PROVE  StrikesInv'
  <2>1. UNCHANGED <<breaker, strikes>> /\ calls[r].pc = "asking"
    BY <1>6 DEF TimesOut, Handshake, Recover, Refused, breakerVars
  <2>2. \A q \in Requests \ {r} : calls'[q] = calls[q]
    <3>1. PICK x : calls' = [calls EXCEPT ![r] = x]
      BY <1>6, Zenon DEF TimesOut, Handshake, Recover
    <3>2. QED
      BY <3>1
  <2>3. QED
    BY <2>1, <2>2, StrikesUntouched
<1>7. ASSUME NEW r \in Requests, LoginSucceeds(r)
      PROVE  StrikesInv'
  <2>1. /\ UNCHANGED <<breaker, strikes>>
        /\ \A q \in Requests : calls[q].pc = "idle" => calls'[q] = calls[q]
    BY <1>7 DEF LoginSucceeds, Waiting, breakerVars
  <2>2. QED
    BY <2>1, StrikesUntouched
<1>8. CASE Tick
  <2>1. UNCHANGED <<calls, strikes>>
    BY <1>8 DEF Tick
  <2>2. ASSUME NEW d \in Clients
        PROVE  /\ breaker'[d].failures = breaker[d].failures
               /\ breaker'[d].cooling = NotOpen => breaker[d].cooling = NotOpen
    <3>1. CASE breaker[d].cooling \in {NotOpen, 0}
      BY <1>8, <3>1 DEF Tick
    <3>2. CASE breaker[d].cooling \notin {NotOpen, 0}
      <4>1. breaker'[d] = [breaker[d] EXCEPT !.cooling = breaker[d].cooling - 1]
        BY <1>8, <3>2 DEF Tick
      <4>2. breaker[d] \in Breaker /\ breaker[d].cooling - 1 \in Nat
        BY <3>2 DEF BreakersInv, Breaker
      <4>3. QED
        BY <4>1, <4>2, BreakerAssumption DEF Breaker
    <3>3. QED
      BY <3>1, <3>2
  <2>3. ASSUME NEW d \in Clients
        PROVE  StrikesOf(d)'
    <3>1. Active(d)' = Active(d)
      BY <2>1 DEF Active, CallsOf
    <3>2. StrikesOf(d)
      BY DEF StrikesInv
    <3>3. breaker[d].cooling = NotOpen => breaker[d].failures < Threshold
      BY <3>2 DEF StrikesOf
    <3>4. QED
      BY <2>1, <2>2, <3>1, <3>2, <3>3, <1>t, StrikesKept
  <2>4. QED
    BY <2>1, <2>3 DEF StrikesInv
<1>9. CASE UNCHANGED vars
  BY <1>9, StrikesUntouched DEF vars
<1>10. QED
  BY <1>1, <1>2, <1>3, <1>4, <1>5, <1>6, <1>7, <1>8, <1>9 DEF Next, Settles, LoginSettles

(***************************************************************************)
(* Wrong passwords and the lockout.                                        *)
(***************************************************************************)
LoggingIn == {c \in Clients : inFlight[c] # None}
ThatLogIn == {c \in Clients : StrategyOf[c] = "login"}

(* Within a lockout window no login is started: every strike there was and *)
(* every one there may still be belongs to another adapter.                *)
LockoutInv ==
  /\ lockout \in 0 .. Lockout
  /\ struck \in Nat
  /\ lockout = 0 => struck = 0
  /\ LoggingIn \subseteq ThatLogIn
  /\ struck + Cardinality(LoggingIn) <= Cardinality(ThatLogIn)

LEMMA LoginsCountable ==
  /\ IsFiniteSet(LoggingIn) /\ Cardinality(LoggingIn) \in Nat
  /\ IsFiniteSet(ThatLogIn) /\ Cardinality(ThatLogIn) \in Nat
<1>1. LoggingIn \subseteq Clients /\ ThatLogIn \subseteq Clients
  BY DEF LoggingIn, ThatLogIn
<1>2. QED
  BY <1>1, ClientsAssumption, FS_Subset, FS_CardinalityType

LEMMA LockoutInit == Init => LockoutInv
<1> SUFFICES ASSUME Init PROVE LockoutInv
  OBVIOUS
<1>1. LoggingIn = {} /\ lockout = 0 /\ struck = 0
  BY DEF Init, LoggingIn
<1>2. QED
  BY <1>1, LoginsCountable, FS_EmptySet, BreakerAssumption DEF LockoutInv

\* The end of a login leaves one fewer in flight.
LEMMA OneLoginLess ==
  ASSUME LoginsInv, NEW r \in logins, inFlight' = [inFlight EXCEPT ![ClientOf[r]] = None]
  PROVE  /\ LoggingIn' \subseteq LoggingIn
         /\ Cardinality(LoggingIn') = Cardinality(LoggingIn) - 1
<1>1. ClientOf[r] \in LoggingIn /\ LoggingIn' = LoggingIn \ {ClientOf[r]}
  <2>1. ClientOf[r] \in Clients /\ inFlight[ClientOf[r]] = r /\ r \in Requests
    BY StarterWaits
  <2>2. \A c \in Clients : inFlight'[c] = IF c = ClientOf[r] THEN None ELSE inFlight[c]
    BY DEF LoginsInv
  <2>3. QED
    BY <2>1, <2>2, BreakerAssumption DEF LoggingIn
<1>2. QED
  BY <1>1, LoginsCountable, FS_RemoveElement

LEMMA LockoutKept ==
  ASSUME LockoutInv, UNCHANGED <<lockout, struck, inFlight>>
  PROVE  LockoutInv'
  BY DEF LockoutInv, LoggingIn, ThatLogIn

LEMMA LockoutStep ==
  ASSUME LoginsInv, LockoutInv, [Next]_vars
  PROVE  LockoutInv'
<1>t. /\ lockout \in Nat /\ Lockout \in Nat /\ struck \in Nat
      /\ ThatLogIn' = ThatLogIn
  BY BreakerAssumption DEF LockoutInv, ThatLogIn
<1>1. ASSUME NEW r \in Requests, NEW read \in BOOLEAN, Begin(r, read)
      PROVE  LockoutInv'
  BY <1>1, LockoutKept DEF Begin, loginVars
<1>2. ASSUME NEW r \in Requests,
             Settles(r) \/ LockedOut(r) \/ TimesOut(r) \/ Handshake(r)
      PROVE  LockoutInv'
  BY <1>2, LockoutKept
     DEF Settles, Answered, NotFound, Failed, LockedOut, TimesOut, Handshake, loginVars
<1>3. ASSUME NEW r \in Requests, Recover(r)
      PROVE  LockoutInv'
  <2> DEFINE c == ClientOf[r]
  <2>1. CASE inFlight[c] = None
    <3>1. /\ lockout = 0 /\ UNCHANGED <<lockout, struck>>
          /\ inFlight' = [inFlight EXCEPT ![c] = r]
          /\ StrategyOf[c] = "login"
      BY <1>3, <2>1 DEF Recover, Refused, MayLogIn
    <3>2. LoggingIn' \subseteq ThatLogIn
      BY <3>1, ClientsAssumption DEF LoggingIn, ThatLogIn, LoginsInv, LockoutInv
    <3>3. /\ Cardinality(LoggingIn') \in Nat
          /\ Cardinality(LoggingIn') <= Cardinality(ThatLogIn)
      BY <3>2, LoginsCountable, FS_Subset, FS_CardinalityType
    <3>4. struck' = 0
      BY <3>1 DEF LockoutInv
    <3>5. QED
      BY <1>t, <3>1, <3>2, <3>3, <3>4 DEF LockoutInv
  <2>2. CASE inFlight[c] # None
    BY <1>3, <2>2, LockoutKept DEF Recover
  <2>3. QED
    BY <2>1, <2>2
<1>4. ASSUME NEW r \in Requests, LoginSettles(r)
      PROVE  LockoutInv'
  <2>1. r \in logins /\ inFlight' = [inFlight EXCEPT ![ClientOf[r]] = None]
    BY <1>4 DEF LoginSettles, LoginSucceeds, LoginRejected, LoginLost, LoginFails
  <2>2. /\ LoggingIn' \subseteq LoggingIn
        /\ Cardinality(LoggingIn') = Cardinality(LoggingIn) - 1
    BY <2>1, OneLoginLess
  <2>3. \/ UNCHANGED <<lockout, struck>>
        \/ lockout' = Lockout /\ struck' = IF Lockout = 0 THEN 0 ELSE struck + 1
    BY <1>4 DEF LoginSettles, LoginSucceeds, LoginRejected, LoginLost
  <2>4. QED
    BY <1>t, <2>2, <2>3, LoginsCountable DEF LockoutInv
<1>5. CASE Tick
  <2>1. /\ lockout' = IF lockout = 0 THEN 0 ELSE lockout - 1
        /\ struck' = IF lockout <= 1 THEN 0 ELSE struck
        /\ LoggingIn' = LoggingIn
    BY <1>5 DEF Tick, LoggingIn
  <2>2. QED
    BY <1>t, <2>1, LoginsCountable DEF LockoutInv
<1>6. CASE UNCHANGED vars
  BY <1>6, LockoutKept DEF vars
<1>7. QED
  BY <1>1, <1>2, <1>3, <1>4, <1>5, <1>6 DEF Next

(***************************************************************************)
(* The theorems.                                                           *)
(***************************************************************************)
IInv ==
  /\ CallsInv
  /\ BreakersInv
  /\ LoginsInv
  /\ WaitersInv
  /\ StrikesInv
  /\ LockoutInv
  /\ trials \in [Clients -> SUBSET Requests]

LEMMA TrialsStep ==
  ASSUME trials \in [Clients -> SUBSET Requests], [Next]_vars
  PROVE  trials' \in [Clients -> SUBSET Requests]
<1>1. ASSUME NEW r \in Requests, NEW read \in BOOLEAN, Begin(r, read)
      PROVE  trials' \in [Clients -> SUBSET Requests]
  <2> DEFINE c == ClientOf[r]
  <2>1. \/ trials' = [trials EXCEPT ![c] = {r}]
        \/ trials' = [trials EXCEPT ![c] = IF @ = {} THEN {} ELSE @ \cup {r}]
    BY <1>1 DEF Begin
  <2>2. QED
    BY <2>1
<1>2. ASSUME NEW r \in Requests, Settles(r) \/ LockedOut(r) \/ LoginRejected(r) \/ LoginLost(r)
      PROVE  trials' \in [Clients -> SUBSET Requests]
  <2>1. trials' = [trials EXCEPT ![ClientOf[r]] = {}]
    BY <1>2 DEF Settles, Answered, NotFound, Failed, LockedOut, LoginRejected, LoginLost,
                LoginFails, recordNotFound, recordSuccess, recordFailures
  <2>2. QED
    BY <2>1
<1>3. ASSUME NEW r \in Requests, TimesOut(r) \/ Handshake(r) \/ Recover(r) \/ LoginSucceeds(r)
      PROVE  trials' \in [Clients -> SUBSET Requests]
  BY <1>3 DEF TimesOut, Handshake, Recover, LoginSucceeds, breakerVars
<1>4. CASE Tick \/ UNCHANGED vars
  BY <1>4 DEF Tick, vars
<1>5. QED
  BY <1>1, <1>2, <1>3, <1>4 DEF Next, LoginSettles

LEMMA LoginsInit == Init => LoginsInv /\ WaitersInv
  BY DEF Init, LoginsInv, WaitersInv, Idle

LEMMA Invariance == Spec => []IInv
<1>1. Init => IInv
  BY CallsInit, BreakersInit, LoginsInit, StrikesInit, LockoutInit DEF IInv, Init
<1>2. IInv /\ [Next]_vars => IInv'
  BY CallsStep, BreakersStep, LoginsStep, WaitersStep, StrikesStep, LockoutStep, TrialsStep DEF IInv
<1>3. QED
  BY <1>1, <1>2, PTL DEF Spec

\* core/http.ts, core/auth.ts: every variable keeps its type.
THEOREM TypeCorrect == Spec => []TypeOK
<1>1. IInv => TypeOK
  BY DEF IInv, CallsInv, BreakersInv, LoginsInv, StrikesInv, LockoutInv, TypeOK
<1>2. QED
  BY <1>1, Invariance, PTL

(* core/http.ts, "Writes never auto-retry": whatever is refused, recovered *)
(* or timed out on the way, no write is sent twice to a service that did   *)
(* not turn it away, for any number of calls that share sessions.          *)
THEOREM WritesAreSentOnce == Spec => []WritesSentOnce
<1>1. ASSUME CallsInv, NEW r \in Requests
      PROVE  /\ calls[r].heard <= (IF calls[r].read THEN 2 ELSE 1)
             /\ calls[r].sent <= 2 * calls[r].attempt
  <2>1. calls[r] \in Call /\ Orderly(calls[r])
    BY <1>1 DEF CallsInv
  <2>2. /\ calls[r].heard \in Nat /\ calls[r].sent \in Nat /\ calls[r].attempt \in 1 .. 2
        /\ calls[r].pc \in {"idle", "asking", "recovering"}
    BY <2>1 DEF Call
  <2>3. calls[r].heard <= calls[r].attempt /\ calls[r].sent <= 2 * calls[r].attempt
    <3>1. Idle.heard = 0 /\ Idle.sent = 0 /\ Idle.attempt = 1
      BY Zenon DEF Idle
    <3>2. QED
      BY <2>1, <2>2, <3>1 DEF Orderly
  <2>4. calls[r].attempt = 2 => calls[r].read
    BY <2>1 DEF Orderly
  <2>5. QED
    BY <2>2, <2>3, <2>4
<1>2. IInv => WritesSentOnce
  BY <1>1 DEF IInv, WritesSentOnce
<1>3. QED
  BY <1>2, Invariance, PTL

(* core/http.ts on the breaker: it opens on an unbroken run of failures,   *)
(* whatever answers other adapters had and however many calls fail at once. *)
THEOREM BreakerOpensOnlyWhenUnwell == Spec => []OpenOnlyWhenUnwell
<1>1. IInv => OpenOnlyWhenUnwell
  BY DEF IInv, BreakersInv, OpenOnlyWhenUnwell
<1>2. QED
  BY <1>1, Invariance, PTL

(* core/auth.ts: between two cooldowns a wrong password is presented fewer *)
(* times than the threshold and the calls of the adapter add up to.        *)
THEOREM WrongPasswordsAreBounded == Spec => []WrongPasswordBounded
<1>1. ASSUME StrikesInv, NEW c \in Clients
      PROVE  strikes[c] < Threshold + Cardinality(CallsOf(c))
  <2>1. StrikesOf(c) /\ strikes[c] \in Nat
    BY <1>1 DEF StrikesInv
  <2>2. QED
    BY <2>1, ActiveCount, BreakerAssumption DEF StrikesOf
<1>2. IInv => WrongPasswordBounded
  BY <1>1 DEF IInv, WrongPasswordBounded, CallsOf
<1>3. QED
  BY <1>2, Invariance, PTL

(* core/auth.ts on Grimmory: a lockout window sees at most one rejected    *)
(* login of each adapter that logs in, however long the window is and      *)
(* however many adapters the account has.                                  *)
THEOREM OneStrikePerAdapter == Spec => []OneStrikeEach
<1>1. ASSUME LockoutInv
      PROVE  struck <= Cardinality(ThatLogIn)
  BY <1>1, LoginsCountable DEF LockoutInv
<1>2. IInv => OneStrikeEach
  BY <1>1 DEF IInv, OneStrikeEach, ThatLogIn
<1>3. QED
  BY <1>2, Invariance, PTL

(* A call that waits for a session is always waiting for a login that is   *)
(* under way and will wake it: however many share one, none is left behind *)
(* by the end of it.                                                       *)
THEOREM WaitersAreServed == Spec => []NobodyWaitsInVain
<1>1. IInv => NobodyWaitsInVain
  BY DEF IInv, LoginsInv, WaitersInv, NobodyWaitsInVain
<1>2. QED
  BY <1>1, Invariance, PTL

=============================================================================
