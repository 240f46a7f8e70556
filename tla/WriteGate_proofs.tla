-------------------------- MODULE WriteGate_proofs --------------------------
(***************************************************************************)
(* Theorems about WriteGate, for any number of calls, intents and tokens,  *)
(* any lifetime and any capacity of the set of spent tokens.               *)
(***************************************************************************)
EXTENDS WriteGate, FiniteSetTheorems, TLAPS

(***************************************************************************)
(* The token component on its own.                                         *)
(***************************************************************************)

(* A token that verifies is one of this process's own, for this very       *)
(* intent, inside its life, and not among those the sweep left behind.     *)
LEMMA VerifyOk ==
  ASSUME NEW p \in Token \cup {Malformed}, NEW intent \in Intents,
         verify(p, intent) = "ok"
  PROVE  /\ p \in Token
         /\ p.boot = boot
         /\ ~(p.issuedAt > now) /\ ~(now > deadAt(p))
         /\ p.intent = intent
         /\ p \notin Remembered
  BY MalformedAssumption DEF verify

LEMMA RememberedFinite ==
  ASSUME TokensTypeOK
  PROVE  /\ Alive \subseteq DOMAIN consumed
         /\ Remembered \subseteq Alive
         /\ IsFiniteSet(Remembered)
         /\ Cardinality(Remembered) \in Nat
         /\ \A t : Place(t) \in Nat
<1>1. Alive \subseteq DOMAIN consumed /\ Remembered \subseteq Alive
  BY DEF Alive, Remembered
<1>2. IsFiniteSet(Remembered)
  BY <1>1, FS_Subset DEF TokensTypeOK
<1>3. Cardinality(Remembered) \in Nat
  BY <1>2, FS_CardinalityType
<1>4. ASSUME NEW t PROVE Place(t) \in Nat
  <2>1. {u \in Remembered : consumed[u] < consumed[t]} \subseteq Remembered
    OBVIOUS
  <2>2. IsFiniteSet({u \in Remembered : consumed[u] < consumed[t]})
    BY <1>2, <2>1, FS_Subset
  <2>3. QED
    BY <2>2, FS_CardinalityType DEF Place
<1>5. QED
  BY <1>1, <1>2, <1>3, <1>4

\* Verifying keeps the map of spent tokens a finite map from tokens to places.
LEMMA ConsumeType ==
  ASSUME TokensTypeOK, NEW p \in Token \cup {Malformed}, NEW intent \in Intents,
         verifyAndConsume(p, intent)
  PROVE  TokensTypeOK'
<1>1. /\ Remembered \in SUBSET Token
      /\ Alive \in SUBSET Token
      /\ IsFiniteSet(Remembered)
      /\ Cardinality(Remembered) \in Nat
      /\ \A t : Place(t) \in Nat
  BY RememberedFinite DEF TokensTypeOK
<1>2. CASE verify(p, intent) = "ok"
  <2>1. p \in Token
    BY <1>2, VerifyOk
  <2>2. consumed' = [t \in Remembered \cup {p} |->
                       IF t = p THEN Cardinality(Remembered) ELSE Place(t)]
    BY <1>2 DEF verifyAndConsume
  <2>3. DOMAIN consumed' = Remembered \cup {p}
    BY <2>2
  <2>4. IsFiniteSet(Remembered \cup {p})
    BY <1>1, FS_AddElement
  <2>5. consumed' \in [DOMAIN consumed' -> Nat]
    BY <1>1, <2>2, <2>3
  <2>6. QED
    BY <1>1, <2>1, <2>3, <2>4, <2>5 DEF TokensTypeOK, verifyAndConsume
<1>3. CASE verify(p, intent) # "ok"
  <2>1. consumed' = [t \in Remembered |-> Place(t)]
    BY <1>3 DEF verifyAndConsume
  <2>2. DOMAIN consumed' = Remembered
    BY <2>1
  <2>3. consumed' \in [DOMAIN consumed' -> Nat]
    BY <1>1, <2>1, <2>2
  <2>4. QED
    BY <1>1, <2>2, <2>3 DEF TokensTypeOK, verifyAndConsume
<1>4. QED
  BY <1>2, <1>3

(* The sweep forgets a token only because its time has come, or for want   *)
(* of room.                                                                *)
LEMMA ForgetsOnlyTheDead ==
  ASSUME TokensTypeOK, NEW p, NEW intent, NEW t \in DOMAIN consumed,
         verifyAndConsume(p, intent)
  PROVE  t \in DOMAIN consumed' \/ t \in evicted' \/ ~(deadAt(t) > now)
<1>1. Remembered \subseteq DOMAIN consumed'
  BY DEF verifyAndConsume
<1>2. CASE t \in Remembered
  BY <1>1, <1>2
<1>3. CASE t \in Alive \ Remembered
  BY <1>3 DEF verifyAndConsume
<1>4. CASE t \notin Alive
  BY <1>4 DEF Alive
<1>5. QED
  BY <1>2, <1>3, <1>4

(***************************************************************************)
(* The type invariant.                                                     *)
(***************************************************************************)

LEMMA IdleCall == Idle \in Call
  BY NoTokenAssumption DEF Idle, Call

LEMMA IssuedToken ==
  ASSUME TokensTypeOK, NEW intent \in Intents
  PROVE  issue(intent) \in Token
  BY DEF issue, Token, TokensTypeOK

\* The call that moves is the only one that changes, and stays a call.
LEMMA CallUpdate ==
  ASSUME calls \in [Calls -> Call], NEW c \in Calls, NEW x \in Call
  PROVE  [calls EXCEPT ![c] = x] \in [Calls -> Call]
  OBVIOUS

\* A row is appended, settled or not.
LEMMA RecordType ==
  ASSUME trail \in Seq(Row), unsettled \in SUBSET Nat,
         NEW intent \in Intents, NEW outcome \in Outcome, Record(intent, outcome)
  PROVE  trail' \in Seq(Row) /\ unsettled' \in SUBSET Nat
<1>1. begin(intent) \in Row /\ [begin(intent) EXCEPT !.outcome = outcome] \in Row
  BY DEF begin, Row, Outcome
<1>2. Len(trail) + 1 \in Nat
  OBVIOUS
<1>3. trail' \in Seq(Row)
  <2>1. PICK row \in Row : trail' = Append(trail, row)
    BY <1>1 DEF Record
  <2>2. QED
    BY <2>1
<1>4. unsettled' \in SUBSET Nat
  BY <1>2 DEF Record
<1>5. QED
  BY <1>3, <1>4

LEMMA SettleType ==
  ASSUME trail \in Seq(Row), unsettled \in SUBSET Nat,
         NEW row \in Nat, NEW outcome \in Outcome, settle(row, outcome)
  PROVE  trail' \in Seq(Row) /\ unsettled' \in SUBSET Nat
<1>1. CASE trail' = [trail EXCEPT ![row].outcome = outcome] /\ UNCHANGED unsettled
  <2>1. /\ Len(trail) \in Nat
        /\ DOMAIN trail = 1 .. Len(trail)
        /\ \A r \in 1 .. Len(trail) : trail[r] \in Row
    OBVIOUS
  <2>2. \A r \in 1 .. Len(trail) : [trail[r] EXCEPT !.outcome = outcome] \in Row
    BY <2>1 DEF Row
  <2>3. trail' = [trail EXCEPT ![row] = [trail[row] EXCEPT !.outcome = outcome]]
    BY <1>1
  <2>4. DOMAIN trail' = 1 .. Len(trail)
    BY <2>1, <2>3
  <2>5. \A r \in 1 .. Len(trail) : trail'[r] \in Row
    BY <2>1, <2>2, <2>3
  <2>6. trail' = [r \in 1 .. Len(trail) |-> trail'[r]]
    BY <2>1, <2>3, <2>4
  <2>7. trail' \in [1 .. Len(trail) -> Row]
    BY <2>5, <2>6
  <2>8. trail' \in Seq(Row)
    BY <2>1, <2>7
  <2>9. QED
    BY <1>1, <2>8
<1>2. CASE unsettled' = unsettled \cup {row} /\ UNCHANGED trail
  BY <1>2
<1>3. QED
  BY <1>1, <1>2 DEF settle

LEMMA TypeInit == Init => TypeOK
<1> SUFFICES ASSUME Init PROVE TypeOK
  OBVIOUS
<1>1. TokensTypeOK
  BY FS_EmptySet DEF Init, TokensInit, TokensTypeOK
<1>2. calls \in [Calls -> Call]
  BY IdleCall DEF Init
<1>3. trail \in Seq(Row)
  BY DEF Init
<1>4. QED
  BY <1>1, <1>2, <1>3 DEF Init, TypeOK

LEMMA TypeStep ==
  ASSUME TypeOK, [Next]_vars
  PROVE  TypeOK'
<1> USE DEF TypeOK
<1>1. ASSUME NEW c \in Calls, NEW ceiling \in Ceilings, NEW grant \in Grant,
             NEW presented \in offered \cup {Malformed, NoToken},
             Arrive(c, ceiling, grant, presented)
      PROVE  TypeOK'
  <2>1. [Idle EXCEPT !.pc = "planning", !.presented = presented,
           !.may = {tier \in Tiers : Permitted(tier, ceiling, grant)}] \in Call
    BY NoTokenAssumption DEF Idle, Call
  <2>2. QED
    BY <1>1, <2>1, CallUpdate DEF Arrive, tokenVars, serviceVars, TokensTypeOK
<1>2. ASSUME NEW c \in Calls, PlanThrows(c)
      PROVE  TypeOK'
  BY <1>2, IdleCall, CallUpdate DEF PlanThrows, tokenVars, serviceVars, TokensTypeOK
<1>3. ASSUME NEW c \in Calls, NEW intent \in Intents,
             NothingToDo(c, intent) \/ Deny(c, intent)
      PROVE  TypeOK'
  <2>1. trail' \in Seq(Row) /\ unsettled' \in SUBSET Nat
    BY <1>3, RecordType DEF NothingToDo, Deny, Outcome
  <2>2. QED
    BY <1>3, <2>1, IdleCall, CallUpdate
    DEF NothingToDo, Deny, tokenVars, serviceVars, TokensTypeOK
<1>4. ASSUME NEW c \in Calls, NEW intent \in Intents, DryRun(c, intent)
      PROVE  TypeOK'
  <2>1. trail' \in Seq(Row) /\ unsettled' \in SUBSET Nat
    BY <1>4, RecordType DEF DryRun, Outcome
  <2>2. [Idle EXCEPT !.pc = "advising"] \in Call
    BY NoTokenAssumption DEF Idle, Call
  <2>3. QED
    BY <1>4, <2>1, <2>2, CallUpdate DEF DryRun, tokenVars, serviceVars, TokensTypeOK
<1>5. ASSUME NEW c \in Calls, NEW intent \in Intents, Preview(c, intent)
      PROVE  TypeOK'
  <2>1. trail' \in Seq(Row) /\ unsettled' \in SUBSET Nat
    BY <1>5, RecordType DEF Preview, Outcome
  <2>2. [Idle EXCEPT !.pc = "advising", !.reply = issue(intent)] \in Call
    BY NoTokenAssumption, IssuedToken DEF Idle, Call
  <2>3. QED
    BY <1>5, <2>1, <2>2, CallUpdate DEF Preview, tokenVars, serviceVars, TokensTypeOK
<1>6. ASSUME NEW c \in Calls, NEW intent \in Intents, Presents(c, intent),
             verifyAndConsume(calls[c].presented, intent)
      PROVE  TokensTypeOK'
  <2>1. calls[c].presented \in Token \cup {Malformed}
    BY <1>6 DEF Presents, Call
  <2>2. QED
    BY <1>6, <2>1, ConsumeType
<1>7. ASSUME NEW c \in Calls, NEW intent \in Intents, RefuseSpent(c, intent)
      PROVE  TypeOK'
  <2>1. trail' \in Seq(Row) /\ unsettled' \in SUBSET Nat
    BY <1>7, RecordType DEF RefuseSpent, Outcome
  <2>2. TokensTypeOK'
    BY <1>6, <1>7 DEF RefuseSpent
  <2>3. QED
    BY <1>7, <2>1, <2>2, IdleCall, CallUpdate DEF RefuseSpent, serviceVars
<1>8. ASSUME NEW c \in Calls, NEW intent \in Intents, RefuseToken(c, intent)
      PROVE  TypeOK'
  <2>1. trail' \in Seq(Row) /\ unsettled' \in SUBSET Nat
    BY <1>8, RecordType DEF RefuseToken, Outcome
  <2>2. TokensTypeOK'
    BY <1>6, <1>8 DEF RefuseToken
  <2>3. [Idle EXCEPT !.pc = "advising", !.reply = issue(intent)] \in Call
    BY NoTokenAssumption, IssuedToken DEF Idle, Call
  <2>4. QED
    BY <1>8, <2>1, <2>2, <2>3, CallUpdate DEF RefuseToken, serviceVars
<1>9. ASSUME NEW c \in Calls, NEW intent \in Intents, Accept(c, intent)
      PROVE  TypeOK'
  <2>1. TokensTypeOK'
    BY <1>6, <1>9 DEF Accept
  <2>2. begin(intent) \in Row /\ Len(trail) + 1 \in Nat
    BY DEF begin, Row, Outcome
  <2>3. trail' \in Seq(Row) /\ inflight' \in SUBSET Nat
    BY <1>9, <2>2 DEF Accept
  <2>4. [Idle EXCEPT !.pc = "applying", !.row = Len(trail) + 1] \in Call
    BY <2>2, NoTokenAssumption DEF Idle, Call
  <2>5. calls' \in [Calls -> Call]
    BY <1>9, <2>4, CallUpdate DEF Accept
  <2>6. calls[c].presented \in Token /\ calls[c].may \in SUBSET Tiers
    BY <1>9, VerifyOk DEF Accept, Presents, Call
  <2>7. authorised' \in SUBSET Authorisation
    BY <1>9, <2>2, <2>6 DEF Accept, Authorisation, TokensTypeOK
  <2>8. QED
    BY <1>9, <2>1, <2>3, <2>5, <2>7 DEF Accept
<1>10. ASSUME NEW c \in Calls, NEW intent \in Intents, Unrecorded(c, intent)
       PROVE  TypeOK'
  <2>1. TokensTypeOK'
    <3>1. CASE UNCHANGED tokenVars
      BY <3>1 DEF tokenVars, TokensTypeOK
    <3>2. CASE Presents(c, intent) /\ verifyAndConsume(calls[c].presented, intent)
      BY <3>2, <1>6
    <3>3. QED
      BY <1>10, <3>1, <3>2 DEF Unrecorded
  <2>2. QED
    BY <1>10, <2>1, IdleCall, CallUpdate DEF Unrecorded, serviceVars
<1>11. ASSUME NEW c \in Calls, Advised(c)
       PROVE  TypeOK'
  <2>1. calls[c].reply \in Token \cup {NoToken}
    BY DEF Call
  <2>2. QED
    BY <1>11, <2>1, IdleCall, CallUpdate DEF Advised, tokenVars, serviceVars, TokensTypeOK
<1>12. ASSUME NEW c \in Calls, Return(c)
       PROVE  TypeOK'
  <2>1. calls[c].row \in Nat
    BY DEF Call
  <2>2. trail' \in Seq(Row) /\ unsettled' \in SUBSET Nat
    BY <1>12, <2>1, SettleType DEF Return, ApplyReturns, ApplyThrows, Outcome
  <2>3. QED
    BY <1>12, <2>2, IdleCall, CallUpdate
    DEF Return, ApplyReturns, ApplyThrows, tokenVars, serviceVars, TokensTypeOK
<1>13. ASSUME NEW row \in inflight, Land(row)
       PROVE  TypeOK'
  BY <1>13 DEF Land, tokenVars, callVars, TokensTypeOK
<1>14. CASE LoadLibrary \/ LibraryExpires
  BY <1>14 DEF LoadLibrary, LibraryExpires, tokenVars, callVars, serviceVars, TokensTypeOK
<1>15. CASE Crash
  <2>1. TokensTypeOK'
    BY <1>15, FS_EmptySet DEF Crash, NewProcess, TokensTypeOK
  <2>2. \A c \in Calls : calls[c].row \in Nat
    BY DEF Call
  <2>3. QED
    BY <1>15, <2>1, <2>2, IdleCall DEF Crash, serviceVars
<1>16. CASE Tick
  BY <1>16 DEF Tick, callVars, serviceVars, TokensTypeOK
<1>17. CASE UNCHANGED vars
  BY <1>17 DEF vars, tokenVars, callVars, serviceVars, TokensTypeOK
<1>18. QED
  BY <1>1, <1>2, <1>3, <1>4, <1>5, <1>7, <1>8, <1>9, <1>10, <1>11, <1>12, <1>13,
     <1>14, <1>15, <1>16, <1>17
  DEF Next, Resolve

(* Every variable of the gate keeps its type.                              *)
THEOREM TypeCorrect == Spec => []TypeOK
<1>1. Init => TypeOK
  BY TypeInit
<1>2. TypeOK /\ [Next]_vars => TypeOK'
  BY TypeStep
<1>3. QED
  BY <1>1, <1>2, PTL DEF Spec

(***************************************************************************)
(* Single use.  What makes SingleUse inductive: a token this process let a *)
(* write through is still remembered, unless its time has come or it was   *)
(* dropped for want of room.                                               *)
(***************************************************************************)
SpentRemembered ==
  \A a \in authorised :
    /\ ~(a.token.boot > boot)
    /\ a.token.boot = boot =>
         \/ a.token \in DOMAIN consumed
         \/ a.token \in evicted
         \/ ~(deadAt(a.token) > now)

\* Of all steps, only these four kinds touch the tokens or the authorisations.
LEMMA TokenStep ==
  ASSUME [Next]_vars
  PROVE  \/ /\ UNCHANGED <<authorised, boot, consumed, evicted>>
            /\ now' \in {now, now + 1}
         \/ /\ UNCHANGED authorised
            /\ \E c \in Calls, intent \in Intents :
                 Presents(c, intent) /\ verifyAndConsume(calls[c].presented, intent)
         \/ Crash
         \/ \E c \in Calls, intent \in Intents : Accept(c, intent)
<1> DEFINE Quiet == /\ UNCHANGED <<authorised, boot, consumed, evicted>>
                    /\ now' \in {now, now + 1}
           Verified == /\ UNCHANGED authorised
                       /\ \E c \in Calls, intent \in Intents :
                            /\ Presents(c, intent)
                            /\ verifyAndConsume(calls[c].presented, intent)
<1>1. ASSUME NEW c \in Calls, NEW ceiling \in Ceilings, NEW grant \in Grant,
             NEW presented \in offered \cup {Malformed, NoToken},
             Arrive(c, ceiling, grant, presented)
      PROVE  Quiet
  BY <1>1 DEF Arrive, tokenVars
<1>2. ASSUME NEW c \in Calls, PlanThrows(c) \/ Advised(c) \/ Return(c)
      PROVE  Quiet
  BY <1>2 DEF PlanThrows, Advised, Return, ApplyReturns, ApplyThrows, tokenVars
<1>3. ASSUME NEW c \in Calls, NEW intent \in Intents,
             NothingToDo(c, intent) \/ DryRun(c, intent) \/ Deny(c, intent)
               \/ Preview(c, intent)
      PROVE  Quiet
  BY <1>3 DEF NothingToDo, DryRun, Deny, Preview, tokenVars
<1>4. ASSUME NEW c \in Calls, NEW intent \in Intents,
             RefuseSpent(c, intent) \/ RefuseToken(c, intent)
      PROVE  Verified
  BY <1>4 DEF RefuseSpent, RefuseToken
<1>5. ASSUME NEW c \in Calls, NEW intent \in Intents, Unrecorded(c, intent)
      PROVE  Quiet \/ Verified
  <2>1. UNCHANGED authorised
    BY <1>5 DEF Unrecorded
  <2>2. CASE UNCHANGED tokenVars
    BY <2>1, <2>2 DEF tokenVars
  <2>3. CASE Presents(c, intent) /\ verifyAndConsume(calls[c].presented, intent)
    BY <2>1, <2>3
  <2>4. QED
    BY <1>5, <2>2, <2>3 DEF Unrecorded
<1>6. ASSUME (\E row \in inflight : Land(row)) \/ LoadLibrary \/ LibraryExpires
      PROVE  Quiet
  BY <1>6 DEF Land, LoadLibrary, LibraryExpires, tokenVars
<1>7. ASSUME Tick
      PROVE  Quiet
  BY <1>7 DEF Tick
<1>8. ASSUME UNCHANGED vars
      PROVE  Quiet
  BY <1>8 DEF vars, tokenVars
<1> HIDE DEF Quiet, Verified
<1>9. Quiet \/ Verified \/ Crash \/ \E c \in Calls, intent \in Intents : Accept(c, intent)
  BY <1>1, <1>2, <1>3, <1>4, <1>5, <1>6, <1>7, <1>8 DEF Next, Resolve
<1>10. QED
  BY <1>9 DEF Quiet, Verified

\* What verification leaves of an earlier authorisation of this process.
LEMMA SpentAfterVerify ==
  ASSUME TypeOK, SpentRemembered, NEW p, NEW intent, verifyAndConsume(p, intent),
         NEW a \in authorised, a.token.boot = boot
  PROVE  a.token \in DOMAIN consumed' \/ a.token \in evicted' \/ ~(deadAt(a.token) > now)
<1>1. CASE a.token \in DOMAIN consumed
  BY <1>1, ForgetsOnlyTheDead DEF TypeOK
<1>2. CASE a.token \in evicted
  BY <1>2 DEF verifyAndConsume
<1>3. QED
  BY <1>1, <1>2 DEF SpentRemembered

LEMMA SingleUseStep ==
  ASSUME TypeOK, TypeOK', SpentRemembered, SingleUse, [Next]_vars
  PROVE  SpentRemembered' /\ SingleUse'
<1>t. /\ now \in Nat /\ boot \in Nat
      /\ \A a \in authorised : a.token \in Token /\ deadAt(a.token) \in Nat
  BY TTLAssumption DEF TypeOK, TokensTypeOK, Authorisation, Token, deadAt
<1>1. CASE /\ UNCHANGED <<authorised, boot, consumed, evicted>>
           /\ now' \in {now, now + 1}
  BY <1>1, <1>t DEF SpentRemembered, SingleUse, deadAt
<1>2. CASE /\ UNCHANGED authorised
           /\ \E c \in Calls, intent \in Intents :
                Presents(c, intent) /\ verifyAndConsume(calls[c].presented, intent)
  <2>1. PICK c \in Calls, intent \in Intents :
          verifyAndConsume(calls[c].presented, intent)
    BY <1>2
  <2>2. UNCHANGED <<authorised, now, boot>> /\ evicted \subseteq evicted'
    BY <1>2, <2>1 DEF verifyAndConsume
  <2>3. SpentRemembered'
    BY <2>1, <2>2, SpentAfterVerify DEF SpentRemembered, deadAt
  <2>4. SingleUse'
    BY <2>2 DEF SingleUse, deadAt
  <2>5. QED
    BY <2>3, <2>4
<1>3. CASE Crash
  <2>1. UNCHANGED <<authorised, now, evicted>> /\ boot' = boot + 1
    BY <1>3 DEF Crash, NewProcess
  <2>2. \A a \in authorised : ~(a.token.boot > boot) /\ a.token.boot \in Nat
    BY <1>t DEF SpentRemembered, Token
  <2>3. SpentRemembered'
    BY <1>t, <2>1, <2>2 DEF SpentRemembered
  <2>4. SingleUse'
    BY <2>1 DEF SingleUse, deadAt
  <2>5. QED
    BY <2>3, <2>4
<1>4. CASE \E c \in Calls, intent \in Intents : Accept(c, intent)
  <2>1. PICK c \in Calls, intent \in Intents : Accept(c, intent)
    BY <1>4
  <2> DEFINE p == calls[c].presented
             new == [row |-> Len(trail) + 1, token |-> p, at |-> now,
                     may |-> calls[c].may]
  <2>2. /\ verify(p, intent) = "ok"
        /\ verifyAndConsume(p, intent)
        /\ authorised' = authorised \cup {new}
        /\ UNCHANGED <<now, boot>>
    BY <2>1 DEF Accept, verifyAndConsume
  <2>3. p \in Token \cup {Malformed}
    BY <2>1 DEF Accept, Presents, TypeOK, Call
  <2>4. /\ p \in Token /\ p.boot = boot
        /\ ~(now > deadAt(p)) /\ p \notin Remembered
    BY <2>2, <2>3, VerifyOk
  <2>5. deadAt(p) \in Nat
    BY <2>4, TTLAssumption DEF Token, deadAt
  <2>6. p \in DOMAIN consumed' /\ evicted \subseteq evicted'
    BY <2>2 DEF verifyAndConsume
  <2>7. SpentRemembered'
    <3>1. ASSUME NEW a \in authorised
          PROVE  /\ ~(a.token.boot > boot)
                 /\ a.token.boot = boot =>
                      \/ a.token \in DOMAIN consumed'
                      \/ a.token \in evicted'
                      \/ ~(deadAt(a.token) > now)
      BY <2>2, SpentAfterVerify DEF SpentRemembered
    <3>2. ~(p.boot > boot)
      BY <2>4, <1>t
    <3>3. QED
      BY <2>2, <2>6, <3>1, <3>2 DEF SpentRemembered, deadAt
  \* An earlier write on this token was forgotten, and there are two reasons for that.
  <2>8. ASSUME NEW a \in authorised, a.token = p
        PROVE  p \in evicted' \/ deadAt(p) = now
    <3>1. CASE p \in DOMAIN consumed
      <4>1. p \in Alive => p \in evicted'
        BY <2>2, <2>4 DEF verifyAndConsume
      <4>2. p \notin Alive => ~(deadAt(p) > now)
        BY <3>1 DEF Alive
      <4>3. QED
        BY <4>1, <4>2, <2>4, <2>5, <1>t
    <3>2. CASE p \in evicted
      BY <3>2, <2>6
    <3>3. CASE ~(deadAt(p) > now)
      BY <3>3, <2>4, <2>5, <1>t
    <3>4. QED
      BY <2>4, <2>8, <3>1, <3>2, <3>3 DEF SpentRemembered
  <2>9. SingleUse'
    <3>1. ASSUME NEW a \in authorised', NEW b \in authorised',
                 a.token = b.token, a.row # b.row
          PROVE  a.token \in evicted' \/ deadAt(a.token) \in {a.at, b.at}
      <4>1. CASE a \in authorised /\ b \in authorised
        BY <3>1, <4>1, <2>6 DEF SingleUse
      <4>2. CASE a \in authorised /\ b = new
        BY <3>1, <4>2, <2>8
      <4>3. CASE a = new /\ b \in authorised
        BY <3>1, <4>3, <2>8
      <4>4. CASE a = new /\ b = new
        BY <3>1, <4>4
      <4>5. QED
        BY <2>2, <4>1, <4>2, <4>3, <4>4
    <3>2. QED
      BY <3>1 DEF SingleUse, deadAt
  <2>10. QED
    BY <2>7, <2>9
<1>5. QED
  BY <1>1, <1>2, <1>3, <1>4, TokenStep

(* core/confirm.ts: no two writes run on one token, whatever the number of *)
(* concurrent calls, except at the last moment of its life or after the    *)
(* set of spent tokens overflowed.                                         *)
THEOREM TokensAreSingleUse == Spec => []SingleUse
<1>1. Init => SpentRemembered /\ SingleUse
  BY DEF Init, SpentRemembered, SingleUse
<1>2. TypeOK /\ TypeOK' /\ SpentRemembered /\ SingleUse /\ [Next]_vars
        => SpentRemembered' /\ SingleUse'
  BY SingleUseStep
<1>3. QED
  BY <1>1, <1>2, TypeCorrect, PTL DEF Spec

(***************************************************************************)
(* A spent token earns no fresh one.  A request in planning has no answer  *)
(* yet, and a token that let a write through was not issued in the future. *)
(***************************************************************************)
NoAnswerYet == \A c \in Calls : calls[c].pc = "planning" => calls[c].reply = NoToken

IssuedInThePast == \A a \in authorised : ~(a.token.issuedAt > now)

\* What becomes of the requests in planning, in any step.
LEMMA PlanningStep ==
  ASSUME TypeOK, NoAnswerYet, [Next]_vars, NEW c \in Calls
  PROVE  \/ calls'[c] = calls[c]
         \/ calls'[c].reply = NoToken
         \/ calls'[c].pc # "planning" /\ \E intent \in Intents :
              /\ Preview(c, intent) \/ RefuseToken(c, intent)
              /\ calls'[c].reply.intent = intent
<1>c. calls \in [Calls -> Call]
  BY DEF TypeOK
<1> DEFINE Outcomes ==
      \/ calls'[c] = calls[c]
      \/ calls'[c].reply = NoToken
      \/ calls'[c].pc # "planning" /\ \E intent \in Intents :
              /\ Preview(c, intent) \/ RefuseToken(c, intent)
              /\ calls'[c].reply.intent = intent
<1>o. ASSUME NEW d \in Calls, NEW x, calls' = [calls EXCEPT ![d] = x], x.reply = NoToken
      PROVE  Outcomes
  BY <1>c, <1>o
<1>i. Idle.reply = NoToken
  BY DEF Idle
<1>1. ASSUME NEW d \in Calls, NEW ceiling \in Ceilings, NEW grant \in Grant,
             NEW presented \in offered \cup {Malformed, NoToken},
             Arrive(d, ceiling, grant, presented)
      PROVE  Outcomes
  <2> DEFINE x == [Idle EXCEPT !.pc = "planning", !.presented = presented,
                               !.may = {tier \in Tiers : Permitted(tier, ceiling, grant)}]
  <2>1. x.reply = NoToken /\ calls' = [calls EXCEPT ![d] = x]
    BY <1>1 DEF Arrive, Idle
  <2> HIDE DEF x
  <2>2. QED
    BY <1>o, <2>1
<1>2. ASSUME NEW d \in Calls,
             \/ PlanThrows(d) \/ Return(d) \/ Advised(d)
             \/ \E intent \in Intents : \/ NothingToDo(d, intent) \/ Deny(d, intent)
                                       \/ RefuseSpent(d, intent) \/ Unrecorded(d, intent)
      PROVE  Outcomes
  <2>1. calls' = [calls EXCEPT ![d] = Idle]
    BY <1>2 DEF PlanThrows, Return, ApplyReturns, ApplyThrows, Advised, NothingToDo, Deny,
                RefuseSpent, Unrecorded
  <2>2. QED
    BY <1>i, <1>o, <2>1
<1>3. ASSUME NEW d \in Calls, NEW intent \in Intents, DryRun(d, intent) \/ Accept(d, intent)
      PROVE  Outcomes
  <2>1. PICK x : calls' = [calls EXCEPT ![d] = x] /\ x.reply = NoToken
    <3>1. [Idle EXCEPT !.pc = "advising"].reply = NoToken
      BY DEF Idle
    <3>2. [Idle EXCEPT !.pc = "applying", !.row = Len(trail) + 1].reply = NoToken
      BY DEF Idle
    <3>3. QED
      BY <1>3, <3>1, <3>2 DEF DryRun, Accept
  <2>2. QED
    BY <1>o, <2>1
<1>4. ASSUME NEW d \in Calls, NEW intent \in Intents,
             Preview(d, intent) \/ RefuseToken(d, intent)
      PROVE  Outcomes
  <2> DEFINE x == [Idle EXCEPT !.pc = "advising", !.reply = issue(intent)]
  <2>1. x.pc = "advising" /\ x.reply.intent = intent
    BY DEF Idle, issue
  <2>2. calls' = [calls EXCEPT ![d] = x]
    BY <1>4 DEF Preview, RefuseToken
  <2> HIDE DEF x
  <2>3. CASE d = c
    <3>1. calls'[c] = x
      BY <1>c, <2>2, <2>3
    <3>2. QED
      BY <1>4, <2>1, <2>3, <3>1
  <2>4. CASE d # c
    BY <1>c, <2>2, <2>4
  <2>5. QED
    BY <2>3, <2>4
<1>5. ASSUME (\E row \in inflight : Land(row)) \/ LoadLibrary \/ LibraryExpires \/ Tick
               \/ UNCHANGED vars
      PROVE  Outcomes
  BY <1>5 DEF Land, LoadLibrary, LibraryExpires, Tick, vars, callVars
<1>6. ASSUME Crash
      PROVE  Outcomes
  BY <1>c, <1>6, <1>i DEF Crash
<1> HIDE DEF Outcomes
<1>7. ASSUME NEW d \in Calls, Resolve(d)
      PROVE  Outcomes
  BY <1>2, <1>3, <1>4, <1>7 DEF Resolve
<1>8. Outcomes
  BY <1>1, <1>2, <1>5, <1>6, <1>7 DEF Next
<1>9. QED
  BY <1>8 DEF Outcomes

LEMMA NoAnswerStep ==
  ASSUME TypeOK, NoAnswerYet, [Next]_vars
  PROVE  NoAnswerYet'
  BY PlanningStep DEF NoAnswerYet

LEMMA IssuedStep ==
  ASSUME TypeOK, TypeOK', IssuedInThePast, [Next]_vars
  PROVE  IssuedInThePast'
<1>t. /\ now \in Nat /\ now' \in Nat
      /\ \A a \in authorised : a.token.issuedAt \in Nat
  BY DEF TypeOK, TokensTypeOK, Authorisation, Token
<1>1. CASE \E c \in Calls, intent \in Intents : Accept(c, intent)
  <2>1. PICK c \in Calls, intent \in Intents : Accept(c, intent)
    BY <1>1
  <2>2. calls[c].presented \in Token \cup {Malformed}
    BY <2>1 DEF Accept, Presents, TypeOK, Call
  <2>3. ~(calls[c].presented.issuedAt > now)
    BY <2>1, <2>2, VerifyOk DEF Accept
  <2>4. authorised' = authorised \cup
          {[row |-> Len(trail) + 1, token |-> calls[c].presented, at |-> now,
            may |-> calls[c].may]}
    BY <2>1 DEF Accept
  <2>5. UNCHANGED now
    BY <2>1 DEF Accept, verifyAndConsume
  <2>6. QED
    BY <2>3, <2>4, <2>5 DEF IssuedInThePast
<1>2. CASE UNCHANGED authorised /\ now' \in {now, now + 1}
  BY <1>2, <1>t DEF IssuedInThePast
<1>3. QED
  BY <1>1, <1>2, TokenStep DEF Crash, NewProcess, verifyAndConsume

LEMMA RepeatStep ==
  ASSUME TypeOK, NoAnswerYet, IssuedInThePast, [Next]_vars,
         NEW c \in Calls, NEW a \in authorised,
         calls[c].pc = "planning", calls[c].presented = a.token,
         a.token.boot = boot, now <= deadAt(a.token)
  PROVE  calls'[c].reply = NoToken \/ calls'[c].reply.intent # a.token.intent
<1>1. a.token \in Token /\ a.token # NoToken /\ a.token # Malformed
  BY NoTokenAssumption, MalformedAssumption DEF TypeOK, Authorisation
<1>2. now \in Nat /\ deadAt(a.token) \in Nat /\ ~(now > deadAt(a.token))
  BY <1>1, TTLAssumption DEF TypeOK, TokensTypeOK, Token, deadAt
<1>3. ASSUME NEW intent \in Intents, Preview(c, intent) \/ RefuseToken(c, intent)
      PROVE  intent # a.token.intent
  <2>1. ~Preview(c, intent)
    BY <1>1 DEF Preview
  <2>2. verify(a.token, intent) \in {"malformed", "foreign", "expired", "mismatch"}
    BY <1>3, <2>1 DEF RefuseToken
  <2>3. verify(a.token, intent) = "mismatch"
    BY <1>1, <1>2, <2>2 DEF verify, IssuedInThePast
  <2>4. QED
    BY <1>1, <1>2, <2>3 DEF verify, IssuedInThePast
<1>4. QED
  BY <1>3, PlanningStep DEF NoAnswerYet

(* tools/write.ts: whoever presents a token that already let a write       *)
(* through, while it lives, is not handed a fresh token for that operation, *)
(* in any state the gate can reach.                                        *)
THEOREM SpentEarnsNothing == Spec => NoSecondChance
<1>1. Init => NoAnswerYet /\ IssuedInThePast
  BY DEF Init, NoAnswerYet, IssuedInThePast, Idle
<1>2. TypeOK /\ TypeOK' /\ NoAnswerYet /\ IssuedInThePast /\ [Next]_vars
        => NoAnswerYet' /\ IssuedInThePast'
  BY NoAnswerStep, IssuedStep
<1>3. TypeOK /\ NoAnswerYet /\ IssuedInThePast /\ [Next]_vars
        => [\A c \in Calls, a \in authorised :
              /\ calls[c].pc = "planning"
              /\ calls[c].presented = a.token
              /\ a.token.boot = boot
              /\ now <= deadAt(a.token)
              => calls'[c].reply = NoToken
                 \/ calls'[c].reply.intent # a.token.intent]_vars
  BY RepeatStep
<1>4. QED
  BY <1>1, <1>2, <1>3, TypeCorrect, PTL DEF Spec, NoSecondChance

=============================================================================
