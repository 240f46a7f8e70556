----------------------- MODULE WriteGateTrail_proofs -----------------------
(***************************************************************************)
(* Theorems about the audit trail of WriteGate, for any number of calls    *)
(* and operations and a trail of any length: that the gate implements      *)
(* AuditTrail, that rows linger as `attempted` only where they should, and *)
(* that whatever reached a service was previewed and confirmed.            *)
(***************************************************************************)
EXTENDS WriteGate_proofs

(***************************************************************************)
(* What a step can do to the trail.                                        *)
(***************************************************************************)
sent == inflight \cup landed

\* No call starts or stops applying, and none changes what it applies.
SameApplying ==
  \A c \in Calls :
    calls[c].pc = "applying" \/ calls'[c].pc = "applying" => calls'[c] = calls[c]

TrailAsIs == UNCHANGED <<trail, serviceVars, unsettled>> /\ SameApplying

Noted ==
  /\ \E intent \in Intents, outcome \in {"dry_run", "denied", "unconfirmed"} :
       Record(intent, outcome)
  /\ UNCHANGED serviceVars
  /\ SameApplying

LEMMA TrailStep ==
  ASSUME TypeOK, [Next]_vars
  PROVE  \/ TrailAsIs
         \/ Noted
         \/ \E c \in Calls, intent \in Intents : Accept(c, intent)
         \/ \E c \in Calls : Return(c)
         \/ \E row \in inflight : Land(row)
         \/ Crash
<1> USE DEF TypeOK
<1>i. Idle.pc = "idle"
  BY DEF Idle
<1>s. ASSUME NEW c \in Calls, NEW x, calls' = [calls EXCEPT ![c] = x],
             x.pc # "applying", calls[c].pc # "applying"
      PROVE  SameApplying
  BY <1>s DEF SameApplying
<1>1. ASSUME NEW c \in Calls, NEW ceiling \in Ceilings, NEW grant \in Grant,
             NEW presented \in offered \cup {Malformed, NoToken},
             Arrive(c, ceiling, grant, presented)
      PROVE  TrailAsIs
  <2> DEFINE x == [Idle EXCEPT !.pc = "planning", !.presented = presented,
                               !.may = {tier \in Tiers : Permitted(tier, ceiling, grant)}]
  <2>1. x.pc = "planning"
    BY DEF Idle
  <2>2. calls' = [calls EXCEPT ![c] = x] /\ calls[c].pc = "idle"
    BY <1>1 DEF Arrive
  <2> HIDE DEF x
  <2>3. QED
    BY <1>1, <1>s, <2>1, <2>2 DEF Arrive, TrailAsIs
<1>2. ASSUME NEW c \in Calls,
             PlanThrows(c) \/ Advised(c) \/ \E intent \in Intents : Unrecorded(c, intent)
      PROVE  TrailAsIs
  BY <1>2, <1>i, <1>s DEF PlanThrows, Advised, Unrecorded, TrailAsIs
<1>3. ASSUME NEW c \in Calls, NEW intent \in Intents,
             NothingToDo(c, intent) \/ Deny(c, intent) \/ RefuseSpent(c, intent)
      PROVE  Noted
  BY <1>3, <1>i, <1>s DEF NothingToDo, Deny, RefuseSpent, Presents, Noted
<1>4. ASSUME NEW c \in Calls, NEW intent \in Intents, DryRun(c, intent)
      PROVE  Noted
  <2>1. [Idle EXCEPT !.pc = "advising"].pc = "advising"
    BY DEF Idle
  <2>2. QED
    BY <1>4, <1>s, <2>1 DEF DryRun, Noted
<1>5. ASSUME NEW c \in Calls, NEW intent \in Intents,
             Preview(c, intent) \/ RefuseToken(c, intent)
      PROVE  Noted
  <2>1. [Idle EXCEPT !.pc = "advising", !.reply = issue(intent)].pc = "advising"
    BY DEF Idle
  <2>2. QED
    BY <1>5, <1>s, <2>1 DEF Preview, RefuseToken, Presents, Noted
<1>6. CASE LoadLibrary \/ LibraryExpires \/ Tick \/ UNCHANGED vars
  BY <1>6 DEF LoadLibrary, LibraryExpires, Tick, vars, callVars, TrailAsIs, SameApplying
<1>7. QED
  BY <1>1, <1>2, <1>3, <1>4, <1>5, <1>6 DEF Next, Resolve

\* A row is appended: those before it stay as they are.
LEMMA Appended ==
  ASSUME trail \in Seq(Row), NEW x \in Row, trail' = Append(trail, x)
  PROVE  /\ DOMAIN trail = 1 .. Len(trail) /\ Len(trail) \in Nat
         /\ DOMAIN trail' = 1 .. Len(trail) + 1
         /\ trail'[Len(trail) + 1] = x
         /\ \A r \in DOMAIN trail : trail'[r] = trail[r]
  OBVIOUS

\* A row is settled: only its outcome changes, and no other row.
LEMMA Settled ==
  ASSUME trail \in Seq(Row), NEW row \in DOMAIN trail, NEW outcome \in Outcome,
         trail' = [trail EXCEPT ![row].outcome = outcome]
  PROVE  /\ DOMAIN trail' = DOMAIN trail
         /\ trail'[row].outcome = outcome /\ trail'[row].intent = trail[row].intent
         /\ \A r \in DOMAIN trail \ {row} : trail'[r] = trail[r]
<1>1. trail[row] \in Row
  OBVIOUS
<1>2. trail' = [trail EXCEPT ![row] = [trail[row] EXCEPT !.outcome = outcome]]
  OBVIOUS
<1>3. QED
  BY <1>1, <1>2 DEF Row

LEMMA NewRows ==
  ASSUME NEW intent \in Intents, NEW outcome \in Outcome
  PROVE  /\ begin(intent) \in Row /\ begin(intent).outcome = "attempted"
         /\ begin(intent).intent = intent
         /\ [begin(intent) EXCEPT !.outcome = outcome] \in Row
         /\ [begin(intent) EXCEPT !.outcome = outcome].outcome = outcome
         /\ [begin(intent) EXCEPT !.outcome = outcome].intent = intent
  BY DEF begin, Row, Outcome

(***************************************************************************)
(* Rows and the calls that apply them.                                     *)
(***************************************************************************)

(* A call that applies owns its row: no other call has it, a service does, *)
(* and nothing has been said of its end.                                   *)
RowsInv ==
  /\ sent \subseteq DOMAIN trail
  /\ inflight \cap landed = {}
  /\ \A c \in Calls : calls[c].pc = "applying" =>
       /\ calls[c].row \in sent
       /\ trail[calls[c].row].outcome = "attempted"
       /\ calls[c].row \notin unsettled
       /\ \A d \in Calls : calls[d].pc = "applying" /\ calls[d].row = calls[c].row => d = c
  /\ unsettled \subseteq DOMAIN trail

\* The row of an operation that is sent comes after all others.
LEMMA AcceptIs ==
  ASSUME TypeOK, NEW c \in Calls, NEW intent \in Intents, Accept(c, intent)
  PROVE  /\ DOMAIN trail = 1 .. Len(trail) /\ Len(trail) \in Nat
         /\ DOMAIN trail' = 1 .. Len(trail) + 1
         /\ trail'[Len(trail) + 1] = begin(intent)
         /\ \A r \in DOMAIN trail : trail'[r] = trail[r]
         /\ inflight' = inflight \cup {Len(trail) + 1}
         /\ UNCHANGED <<landed, unsettled>>
         /\ calls'[c].pc = "applying" /\ calls'[c].row = Len(trail) + 1
         /\ \A d \in Calls \ {c} : calls'[d] = calls[d]
<1> DEFINE x == [Idle EXCEPT !.pc = "applying", !.row = Len(trail) + 1]
<1>1. x.pc = "applying" /\ x.row = Len(trail) + 1
  BY DEF Idle
<1>2. calls' = [calls EXCEPT ![c] = x]
  BY DEF Accept
<1> HIDE DEF x
<1>3. trail' = Append(trail, begin(intent)) /\ inflight' = inflight \cup {Len(trail) + 1}
  BY DEF Accept
<1>4. calls'[c] = x /\ \A d \in Calls \ {c} : calls'[d] = calls[d]
  BY <1>2 DEF TypeOK
<1>5. UNCHANGED <<landed, unsettled>>
  BY DEF Accept
<1>6. QED
  BY <1>1, <1>3, <1>4, <1>5, Appended, NewRows DEF TypeOK, Outcome

LEMMA RowsStep ==
  ASSUME TypeOK, RowsInv, [Next]_vars
  PROVE  RowsInv'
<1>1. CASE TrailAsIs
  BY <1>1 DEF TrailAsIs, SameApplying, RowsInv, sent, serviceVars
<1>2. CASE Noted
  <2>1. PICK intent \in Intents, outcome \in {"dry_run", "denied", "unconfirmed"} :
          Record(intent, outcome)
    BY <1>2 DEF Noted
  <2>2. PICK x \in Row : trail' = Append(trail, x)
    BY <2>1, NewRows DEF Record, Outcome
  <2>3. /\ DOMAIN trail = 1 .. Len(trail) /\ Len(trail) \in Nat
        /\ DOMAIN trail' = 1 .. Len(trail) + 1
        /\ \A r \in DOMAIN trail : trail'[r] = trail[r]
    BY <2>2, Appended DEF TypeOK
  <2>4. unsettled' \subseteq unsettled \cup {Len(trail) + 1}
    BY <2>1 DEF Record
  <2>5. UNCHANGED <<inflight, landed>> /\ SameApplying
    BY <1>2 DEF Noted, serviceVars
  <2>6. ASSUME NEW c \in Calls, calls'[c].pc = "applying"
        PROVE  /\ calls'[c].row \in sent
               /\ trail'[calls'[c].row].outcome = "attempted"
               /\ calls'[c].row \notin unsettled'
               /\ \A d \in Calls : calls'[d].pc = "applying" /\ calls'[d].row = calls'[c].row
                    => d = c
    <3>1. /\ calls'[c] = calls[c] /\ calls[c].row \in sent
          /\ calls[c].row \in DOMAIN trail /\ calls[c].row # Len(trail) + 1
      BY <2>3, <2>5, <2>6 DEF SameApplying, RowsInv
    <3>2. QED
      BY <2>3, <2>4, <2>5, <2>6, <3>1 DEF SameApplying, RowsInv
  <2>7. QED
    BY <2>3, <2>4, <2>5, <2>6 DEF RowsInv, sent
<1>3. ASSUME NEW c \in Calls, NEW intent \in Intents, Accept(c, intent)
      PROVE  RowsInv'
  <2>1. begin(intent).outcome = "attempted"
    BY DEF begin
  <2>2. \A r \in sent \cup unsettled : r \in DOMAIN trail /\ r # Len(trail) + 1
    BY <1>3, AcceptIs DEF RowsInv
  <2>3. sent' = sent \cup {Len(trail) + 1} /\ inflight' \cap landed' = {}
    BY <1>3, <2>2, AcceptIs DEF sent, RowsInv
  <2>4. ASSUME NEW d \in Calls, calls'[d].pc = "applying"
        PROVE  /\ calls'[d].row \in sent'
               /\ trail'[calls'[d].row].outcome = "attempted"
               /\ calls'[d].row \notin unsettled'
               /\ \A e \in Calls : calls'[e].pc = "applying" /\ calls'[e].row = calls'[d].row
                    => e = d
    <3>1. CASE d = c
      BY <1>3, <2>1, <2>2, <2>3, <3>1, AcceptIs DEF RowsInv
    <3>2. CASE d # c
      <4>1. calls'[d] = calls[d] /\ calls[d].row \in sent /\ calls[d].row # calls'[c].row
        BY <1>3, <2>2, <2>4, <3>2, AcceptIs DEF RowsInv
      <4>2. QED
        BY <1>3, <2>2, <2>3, <2>4, <3>2, <4>1, AcceptIs DEF RowsInv
    <3>3. QED
      BY <3>1, <3>2
  <2>5. QED
    BY <1>3, <2>2, <2>3, <2>4, AcceptIs DEF RowsInv
<1>4. ASSUME NEW c \in Calls, Return(c)
      PROVE  RowsInv'
  <2> DEFINE row == calls[c].row
  <2>1. PICK outcome \in {"applied", "failed"} : settle(row, outcome)
    BY <1>4 DEF Return, ApplyReturns, ApplyThrows
  <2>2. /\ calls[c].pc = "applying" /\ UNCHANGED <<inflight, landed>>
        /\ calls' = [calls EXCEPT ![c] = Idle]
    BY <1>4 DEF Return, ApplyReturns, ApplyThrows, serviceVars
  <2>3. row \in sent /\ row \in DOMAIN trail /\ row \notin unsettled
    BY <2>2 DEF RowsInv
  <2>4. /\ \A d \in Calls \ {c} : calls'[d] = calls[d]
        /\ calls'[c].pc # "applying"
    BY <2>2 DEF TypeOK, Idle
  <2>5. /\ DOMAIN trail' = DOMAIN trail
        /\ \A r \in DOMAIN trail \ {row} : trail'[r] = trail[r]
        /\ unsettled' \subseteq unsettled \cup {row}
    BY <2>1, <2>3, Settled DEF settle, Outcome, TypeOK
  <2>6. ASSUME NEW d \in Calls, calls'[d].pc = "applying"
        PROVE  /\ calls'[d].row \in sent
               /\ trail'[calls'[d].row].outcome = "attempted"
               /\ calls'[d].row \notin unsettled'
               /\ \A e \in Calls : calls'[e].pc = "applying" /\ calls'[e].row = calls'[d].row
                    => e = d
    <3>1. calls'[d] = calls[d] /\ calls[d].row \in sent /\ calls[d].row # row
      BY <2>2, <2>4, <2>6 DEF RowsInv
    <3>2. QED
      BY <2>4, <2>5, <2>6, <3>1 DEF RowsInv
  <2>7. QED
    BY <2>2, <2>3, <2>5, <2>6 DEF RowsInv, sent
<1>5. ASSUME NEW row \in inflight, Land(row)
      PROVE  RowsInv'
  <2>1. /\ sent' = sent /\ inflight' \cap landed' = {}
        /\ UNCHANGED <<calls, trail, unsettled>>
    BY <1>5 DEF Land, RowsInv, sent, callVars
  <2>2. QED
    BY <2>1 DEF RowsInv
<1>6. CASE Crash
  <2>1. /\ UNCHANGED <<trail, inflight, landed>>
        /\ \A c \in Calls : calls'[c].pc # "applying"
    BY <1>6 DEF Crash, serviceVars, Idle
  <2>2. unsettled' \subseteq unsettled \cup sent
    BY <1>6 DEF Crash, RowsInv
  <2>3. QED
    BY <2>1, <2>2 DEF RowsInv, sent
<1>7. QED
  BY <1>1, <1>2, <1>3, <1>4, <1>5, <1>6, TrailStep

LEMMA RowsInit == Init => RowsInv
  BY DEF Init, RowsInv, sent, Idle

LEMMA RowsInvariance == Spec => []RowsInv
<1>1. TypeOK /\ RowsInv /\ [Next]_vars => RowsInv'
  BY RowsStep
<1>2. QED
  BY <1>1, RowsInit, TypeCorrect, PTL DEF Spec

(***************************************************************************)
(* Rows that stay `attempted`.                                             *)
(***************************************************************************)
Applying == {d \in Calls : calls[d].pc = "applying"}
AppliedRows == {calls[c].row : c \in Applying}
Attempted == {row \in DOMAIN trail : trail[row].outcome = "attempted"}

\* The calls that apply do not change, so neither do their rows.
LEMMA SameRows == SameApplying => AppliedRows' = AppliedRows
<1> SUFFICES ASSUME SameApplying PROVE AppliedRows' = AppliedRows
  OBVIOUS
<1>1. Applying' = Applying /\ \A c \in Applying : calls'[c] = calls[c]
  BY DEF SameApplying, Applying
<1>2. QED
  BY <1>1 DEF AppliedRows

LEMMA LingeringStep ==
  ASSUME TypeOK, RowsInv, LingeringAttempted, [Next]_vars
  PROVE  LingeringAttempted'
<1>a. Attempted = unsettled \cup AppliedRows
  BY DEF LingeringAttempted, Attempted, AppliedRows, Applying
<1> SUFFICES Attempted' = unsettled' \cup AppliedRows'
  BY DEF LingeringAttempted, Attempted, AppliedRows, Applying
<1>1. CASE TrailAsIs
  BY <1>1, <1>a, SameRows DEF TrailAsIs, Attempted
<1>2. CASE Noted
  <2>1. PICK intent \in Intents, outcome \in {"dry_run", "denied", "unconfirmed"} :
          Record(intent, outcome)
    BY <1>2 DEF Noted
  <2>2. AppliedRows' = AppliedRows
    BY <1>2, SameRows DEF Noted
  <2>3. CASE /\ trail' = Append(trail, begin(intent))
             /\ unsettled' = unsettled \cup {Len(trail) + 1}
    <3>1. begin(intent) \in Row /\ begin(intent).outcome = "attempted"
      BY DEF begin, Row, Outcome
    <3>2. Attempted' = Attempted \cup {Len(trail) + 1}
      BY <2>3, <3>1, Appended DEF Attempted, TypeOK
    <3>3. QED
      BY <2>2, <2>3, <3>2, <1>a
  <2>4. CASE /\ trail' = Append(trail, [begin(intent) EXCEPT !.outcome = outcome])
             /\ UNCHANGED unsettled
    <3> DEFINE x == [begin(intent) EXCEPT !.outcome = outcome]
    <3>1. x \in Row /\ x.outcome = outcome
      BY DEF begin, Row, Outcome
    <3> HIDE DEF x
    <3>2. trail' = Append(trail, x)
      BY <2>4 DEF x
    <3>3. Attempted' = Attempted
      BY <3>1, <3>2, Appended DEF Attempted, TypeOK
    <3>4. QED
      BY <2>2, <2>4, <3>3, <1>a
  <2>5. QED
    BY <2>1, <2>3, <2>4 DEF Record
<1>3. ASSUME NEW c \in Calls, NEW intent \in Intents, Accept(c, intent)
      PROVE  Attempted' = unsettled' \cup AppliedRows'
  <2>1. begin(intent).outcome = "attempted"
    BY DEF begin
  <2>2. Attempted' = Attempted \cup {Len(trail) + 1}
    BY <1>3, <2>1, AcceptIs DEF Attempted
  <2>3. c \notin Applying
    BY <1>3 DEF Accept, Presents, Applying
  <2>4. Applying' = Applying \cup {c}
    BY <1>3, AcceptIs DEF Applying
  <2>5. /\ calls'[c].row = Len(trail) + 1
        /\ \A d \in Applying : calls'[d] = calls[d]
    BY <1>3, <2>3, AcceptIs DEF Applying
  <2>6. AppliedRows' = AppliedRows \cup {Len(trail) + 1}
    BY <2>4, <2>5 DEF AppliedRows
  <2>7. UNCHANGED unsettled
    BY <1>3, AcceptIs
  <2>8. QED
    BY <1>a, <2>2, <2>6, <2>7
<1>4. ASSUME NEW c \in Calls, Return(c)
      PROVE  Attempted' = unsettled' \cup AppliedRows'
  <2> DEFINE row == calls[c].row
  <2>1. PICK outcome \in {"applied", "failed"} : settle(row, outcome)
    BY <1>4 DEF Return, ApplyReturns, ApplyThrows
  <2>2. calls[c].pc = "applying" /\ calls' = [calls EXCEPT ![c] = Idle]
    BY <1>4 DEF Return, ApplyReturns, ApplyThrows
  <2>3. row \in DOMAIN trail /\ row \notin unsettled
    BY <2>2 DEF RowsInv
  <2>4. \A d \in Calls \ {c} : calls'[d] = calls[d]
    BY <2>2 DEF TypeOK
  <2>5. calls'[c].pc # "applying"
    BY <2>2 DEF TypeOK, Idle
  <2>6. c \in Applying /\ Applying' = Applying \ {c}
    BY <2>2, <2>4, <2>5 DEF Applying
  <2>7. \A d \in Applying \ {c} : calls[d].row # row
    BY <2>2 DEF RowsInv, Applying
  <2>8. AppliedRows' = AppliedRows \ {row}
    BY <2>4, <2>6, <2>7 DEF AppliedRows, Applying
  <2>9. row \in AppliedRows
    BY <2>6 DEF AppliedRows
  <2>10. CASE /\ trail' = [trail EXCEPT ![row].outcome = outcome]
              /\ UNCHANGED unsettled
    <3>1. Attempted' = Attempted \ {row}
      BY <2>3, <2>10, Settled DEF Attempted, Outcome, TypeOK
    <3>2. QED
      BY <1>a, <2>3, <2>8, <2>10, <3>1
  <2>11. CASE unsettled' = unsettled \cup {row} /\ UNCHANGED trail
    <3>1. Attempted' = Attempted
      BY <2>11 DEF Attempted
    <3>2. QED
      BY <1>a, <2>8, <2>9, <2>11, <3>1
  <2>12. QED
    BY <2>1, <2>10, <2>11 DEF settle
<1>5. ASSUME NEW row \in inflight, Land(row)
      PROVE  Attempted' = unsettled' \cup AppliedRows'
  BY <1>5, <1>a DEF Land, callVars, Attempted, AppliedRows, Applying
<1>6. CASE Crash
  <2>1. UNCHANGED trail /\ Applying' = {}
    BY <1>6 DEF Crash, Applying, Idle
  <2>2. AppliedRows' = {}
    BY <2>1 DEF AppliedRows
  <2>3. unsettled' = unsettled \cup AppliedRows
    BY <1>6 DEF Crash, AppliedRows, Applying
  <2>4. QED
    BY <1>a, <2>1, <2>2, <2>3 DEF Attempted
<1>7. QED
  BY <1>1, <1>2, <1>3, <1>4, <1>5, <1>6, TrailStep

(* core/audit.ts: the rows still reading `attempted` are the writes in     *)
(* progress and the rows whose settling was lost, and no others, whatever  *)
(* the number of calls and of crashes.                                     *)
THEOREM AttemptedIsTheAnomaly == Spec => []LingeringAttempted
<1>1. Init => LingeringAttempted
  BY DEF Init, LingeringAttempted, Idle
<1>2. TypeOK /\ RowsInv /\ LingeringAttempted /\ [Next]_vars => LingeringAttempted'
  BY LingeringStep
<1>3. QED
  BY <1>1, <1>2, TypeCorrect, RowsInvariance, PTL DEF Spec

(***************************************************************************)
(* The gate keeps the contract of the audit trail.                         *)
(***************************************************************************)
Column == [row \in DOMAIN trail |-> trail[row].outcome]

LEMMA ColumnAppended ==
  ASSUME trail \in Seq(Row), NEW x \in Row, trail' = Append(trail, x)
  PROVE  /\ Column' = Append(Column, x.outcome)
         /\ Len(Column) = Len(trail)
<1>1. /\ DOMAIN trail = 1 .. Len(trail) /\ Len(trail) \in Nat
      /\ DOMAIN trail' = 1 .. Len(trail) + 1
      /\ trail'[Len(trail) + 1] = x
      /\ \A r \in DOMAIN trail : trail'[r] = trail[r]
  BY Appended
<1>2. \A r \in DOMAIN trail : trail[r].outcome \in Outcome
  <2>1. \A r \in DOMAIN trail : trail[r] \in Row
    OBVIOUS
  <2>2. QED
    BY <2>1 DEF Row
<1>3. Column \in Seq(Outcome) /\ Len(Column) = Len(trail)
  BY <1>1, <1>2 DEF Column
<1>4. Column' = [r \in 1 .. Len(trail) + 1 |-> trail'[r].outcome]
  BY <1>1 DEF Column
<1>5. Append(Column, x.outcome)
        = [r \in 1 .. Len(trail) + 1 |-> IF r = Len(trail) + 1 THEN x.outcome ELSE Column[r]]
  BY <1>3
<1>6. \A r \in 1 .. Len(trail) + 1 :
        trail'[r].outcome = IF r = Len(trail) + 1 THEN x.outcome ELSE Column[r]
  BY <1>1 DEF Column
<1>7. QED
  BY <1>3, <1>4, <1>5, <1>6

LEMMA ColumnSettled ==
  ASSUME trail \in Seq(Row), NEW row \in DOMAIN trail, NEW outcome \in Outcome,
         trail' = [trail EXCEPT ![row].outcome = outcome]
  PROVE  Column' = [Column EXCEPT ![row] = outcome]
<1>1. /\ DOMAIN trail' = DOMAIN trail
      /\ trail'[row].outcome = outcome
      /\ \A r \in DOMAIN trail \ {row} : trail'[r] = trail[r]
  BY Settled
<1>2. Column' = [r \in DOMAIN trail |-> trail'[r].outcome]
  BY <1>1 DEF Column
<1>3. [Column EXCEPT ![row] = outcome]
        = [r \in DOMAIN trail |-> IF r = row THEN outcome ELSE trail[r].outcome]
  BY DEF Column
<1>4. \A r \in DOMAIN trail :
        trail'[r].outcome = IF r = row THEN outcome ELSE trail[r].outcome
  BY <1>1
<1>5. QED
  BY <1>2, <1>3, <1>4

LEMMA TrailInit == Init => Trail!Init
<1> SUFFICES ASSUME Init PROVE Trail!Init
  OBVIOUS
<1>1. Column = <<>>
  BY DEF Init, Column
<1>2. QED
  BY <1>1 DEF Init, Trail!Init, Column

LEMMA TrailRefined ==
  ASSUME TypeOK, RowsInv, [Next]_vars
  PROVE  [Trail!Next]_(Trail!trailVars)
<1>t. trail \in Seq(Row)
  BY DEF TypeOK
<1>1. CASE TrailAsIs
  BY <1>1 DEF TrailAsIs, serviceVars, Trail!trailVars
<1>2. CASE Noted
  <2>1. PICK intent \in Intents, outcome \in {"dry_run", "denied", "unconfirmed"} :
          Record(intent, outcome)
    BY <1>2 DEF Noted
  <2>2. PICK x \in Row : /\ trail' = Append(trail, x)
                         /\ x.outcome \in {"dry_run", "denied", "unconfirmed", "attempted"}
    <3>1. begin(intent) \in Row /\ begin(intent).outcome = "attempted"
      BY DEF begin, Row, Outcome
    <3>2. /\ [begin(intent) EXCEPT !.outcome = outcome] \in Row
          /\ [begin(intent) EXCEPT !.outcome = outcome].outcome = outcome
      BY DEF begin, Row, Outcome
    <3>3. QED
      BY <2>1, <3>1, <3>2 DEF Record
  <2>3. Column' = Append(Column, x.outcome)
    BY <1>t, <2>2, ColumnAppended
  <2>4. UNCHANGED <<inflight \cup landed, landed>>
    BY <1>2 DEF Noted, serviceVars
  <2>5. Trail!Note(x.outcome)
    BY <2>3, <2>4 DEF Trail!Note, Column
  <2>6. QED
    BY <2>2, <2>5 DEF Trail!Next, Trail!Harmless
<1>3. ASSUME NEW c \in Calls, NEW intent \in Intents, Accept(c, intent)
      PROVE  Trail!Open
  <2>1. begin(intent) \in Row /\ begin(intent).outcome = "attempted"
    BY DEF begin, Row, Outcome
  <2>2. /\ trail' = Append(trail, begin(intent))
        /\ inflight' = inflight \cup {Len(trail) + 1} /\ UNCHANGED landed
    BY <1>3 DEF Accept
  <2>3. Column' = Append(Column, "attempted") /\ Len(Column) = Len(trail)
    BY <1>t, <2>1, <2>2, ColumnAppended
  <2>4. (inflight \cup landed)' = (inflight \cup landed) \cup {Len(Column) + 1}
    BY <2>2, <2>3
  <2>5. QED
    BY <2>2, <2>3, <2>4 DEF Trail!Open, Column
<1>4. ASSUME NEW c \in Calls, Return(c)
      PROVE  [Trail!Next]_(Trail!trailVars)
  <2> DEFINE row == calls[c].row
  <2>1. PICK outcome \in {"applied", "failed"} :
          settle(row, outcome) /\ (outcome = "applied" => row \in landed)
    BY <1>4 DEF Return, ApplyReturns, ApplyThrows
  <2>2. calls[c].pc = "applying" /\ UNCHANGED <<inflight, landed>>
    BY <1>4 DEF Return, ApplyReturns, ApplyThrows, serviceVars
  <2>3. row \in sent /\ row \in DOMAIN trail /\ trail[row].outcome = "attempted"
    BY <2>2 DEF RowsInv
  <2>4. CASE trail' = [trail EXCEPT ![row].outcome = outcome]
    <3>0. outcome \in Outcome
      BY DEF Outcome
    <3>1. Column' = [Column EXCEPT ![row] = outcome]
      BY <1>t, <2>3, <2>4, <3>0, ColumnSettled
    <3>2. Column[row] = "attempted" /\ row \in DOMAIN Column
      BY <2>3 DEF Column
    <3>3. UNCHANGED <<inflight \cup landed, landed>>
      BY <2>2
    <3>4. Trail!Close(row, outcome)
      BY <2>1, <2>3, <3>1, <3>2, <3>3 DEF Trail!Close, Column, sent
    <3>5. QED
      BY <2>3, <3>4 DEF Trail!Next, sent
  <2>5. CASE UNCHANGED trail
    BY <2>2, <2>5 DEF Trail!trailVars
  <2>6. QED
    BY <2>1, <2>4, <2>5 DEF settle
<1>5. ASSUME NEW row \in inflight, Land(row)
      PROVE  Trail!TakeEffect(row)
  <2>1. row \in sent \ landed /\ sent' = sent
    BY <1>5 DEF Land, RowsInv, sent
  <2>2. UNCHANGED trail /\ landed' = landed \cup {row}
    BY <1>5 DEF Land
  <2>3. QED
    BY <2>1, <2>2 DEF Trail!TakeEffect, sent
<1>6. CASE Crash
  BY <1>6 DEF Crash, serviceVars, Trail!trailVars
<1>7. QED
  BY <1>1, <1>2, <1>3, <1>4, <1>5, <1>6, TrailStep DEF Trail!Next

(* The write handler implements the contract of AuditTrail: every row is   *)
(* written ahead, settled at most once, and `applied` only of an operation *)
(* the service carried out.                                                *)
THEOREM GateImplementsTrail == Spec => ImplementsAuditTrail
<1>1. TypeOK /\ RowsInv /\ [Next]_vars => [Trail!Next]_(Trail!trailVars)
  BY TrailRefined
<1>2. QED
  BY <1>1, TrailInit, TypeCorrect, RowsInvariance, PTL
  DEF Spec, ImplementsAuditTrail, Trail!Spec

LEMMA ColumnType ==
  ASSUME trail \in Seq(Row)
  PROVE  Column \in Seq(Outcome)
<1>1. \A r \in DOMAIN trail : trail[r] \in Row
  OBVIOUS
<1>2. \A r \in DOMAIN trail : trail[r].outcome \in Outcome
  BY <1>1 DEF Row
<1>3. QED
  BY <1>2 DEF Column

LEMMA TruthfulStep ==
  ASSUME TypeOK, Trail!TrailTruthful, [Trail!Next]_(Trail!trailVars)
  PROVE  Trail!TrailTruthful'
<1>c. Column \in Seq(Outcome)
  BY ColumnType DEF TypeOK
<1>t. /\ landed \subseteq sent /\ sent \subseteq DOMAIN Column
      /\ \A r \in DOMAIN Column :
           /\ Column[r] = "applied" => r \in landed
           /\ Column[r] \in Trail!Harmless => r \notin sent
  BY DEF Trail!TrailTruthful, Column, sent
<1> SUFFICES /\ landed' \subseteq sent' /\ sent' \subseteq DOMAIN Column'
             /\ \A r \in DOMAIN Column' :
                  /\ Column'[r] = "applied" => r \in landed'
                  /\ Column'[r] \in Trail!Harmless => r \notin sent'
  BY DEF Trail!TrailTruthful, Column, sent
<1>1. ASSUME NEW outcome \in Trail!Harmless \cup {"attempted"}, Column' = Append(Column, outcome),
             sent' = sent, landed' = landed
      PROVE  /\ sent' \subseteq DOMAIN Column'
             /\ \A r \in DOMAIN Column' :
                  /\ Column'[r] = "applied" => r \in landed'
                  /\ Column'[r] \in Trail!Harmless => r \notin sent'
  <2>1. Len(Column) + 1 \notin sent
    BY <1>c, <1>t
  <2>2. outcome # "applied"
    BY DEF Trail!Harmless
  <2>3. QED
    BY <1>1, <1>c, <1>t, <2>1, <2>2
<1>2. ASSUME Column' = Append(Column, "attempted"), sent' = sent \cup {Len(Column) + 1},
             landed' = landed
      PROVE  /\ sent' \subseteq DOMAIN Column'
             /\ \A r \in DOMAIN Column' :
                  /\ Column'[r] = "applied" => r \in landed'
                  /\ Column'[r] \in Trail!Harmless => r \notin sent'
  BY <1>2, <1>c, <1>t DEF Trail!Harmless
<1>3. ASSUME NEW r \in sent, Trail!TakeEffect(r)
      PROVE  Column' = Column /\ sent' = sent /\ landed' = landed \cup {r}
  BY <1>3 DEF Trail!TakeEffect, Column, sent
<1>4. ASSUME NEW row \in sent, NEW outcome \in {"applied", "failed"}, Trail!Close(row, outcome)
      PROVE  /\ Column' = [Column EXCEPT ![row] = outcome]
             /\ sent' = sent /\ landed' = landed
             /\ outcome = "applied" => row \in landed
  BY <1>4 DEF Trail!Close, Column, sent
<1>5. ASSUME NEW outcome, Trail!Note(outcome)
      PROVE  Column' = Append(Column, outcome) /\ sent' = sent /\ landed' = landed
  BY <1>5 DEF Trail!Note, Column, sent
<1>6. ASSUME Trail!Open
      PROVE  /\ Column' = Append(Column, "attempted")
             /\ sent' = sent \cup {Len(Column) + 1} /\ landed' = landed
  BY <1>6 DEF Trail!Open, Column, sent
<1>7. CASE \E row \in sent, outcome \in {"applied", "failed"} : Trail!Close(row, outcome)
  <2>1. PICK row \in sent, outcome \in {"applied", "failed"} : Trail!Close(row, outcome)
    BY <1>7
  <2>2. outcome \notin Trail!Harmless
    BY DEF Trail!Harmless
  <2>3. QED
    BY <1>c, <1>t, <1>4, <2>1, <2>2
<1>8. CASE \E r \in sent : Trail!TakeEffect(r)
  BY <1>t, <1>3, <1>8
<1>9. CASE \E outcome \in Trail!Harmless \cup {"attempted"} : Trail!Note(outcome)
  BY <1>t, <1>1, <1>5, <1>9
<1>10. CASE Trail!Open
  BY <1>t, <1>2, <1>6, <1>10
<1>11. CASE UNCHANGED Trail!trailVars
  BY <1>t, <1>11 DEF Trail!trailVars, Column, sent
<1>12. QED
  BY <1>7, <1>8, <1>9, <1>10, <1>11 DEF Trail!Next, sent

(* What the contract comes to for the gate (core/audit.ts): the trail      *)
(* never misses an operation that reached a service, says `applied` only   *)
(* of one that took effect, and a harmless outcome only of one that no     *)
(* service ever saw.                                                       *)
THEOREM TheTrailTellsTheTruth == Spec => []Trail!TrailTruthful
<1>1. Init => Trail!TrailTruthful
  BY DEF Init, Trail!TrailTruthful
<1>2. TypeOK /\ RowsInv /\ [Next]_vars => [Trail!Next]_(Trail!trailVars)
  BY TrailRefined
<1>3. TypeOK /\ Trail!TrailTruthful /\ [Trail!Next]_(Trail!trailVars)
        => Trail!TrailTruthful'
  BY TruthfulStep
<1>4. QED
  BY <1>1, <1>2, <1>3, TypeCorrect, RowsInvariance, PTL DEF Spec

(***************************************************************************)
(* What was applied had been previewed.  A token is worth what the trail   *)
(* says of it: wherever one is, in an answer, with a client or in a        *)
(* request, an earlier row is its preview, and no write ever takes that    *)
(* row over.                                                               *)
(***************************************************************************)
Circulating ==
  offered \cup {calls[c].reply : c \in Calls} \cup {calls[c].presented : c \in Calls}

PreviewOf(token, p) ==
  /\ p \in DOMAIN trail \ sent
  /\ trail[p].intent = token.intent
  /\ trail[p].outcome \in {"unconfirmed", "attempted"}

PreviewInv == \A token \in Circulating \cap Token : \E p \in Nat : PreviewOf(token, p)

AuthInv ==
  /\ \A a \in authorised :
       /\ a.row \in sent
       /\ a.token.intent = trail[a.row].intent
       /\ a.at \in a.token.issuedAt .. deadAt(a.token)
       /\ TierOf[a.token.intent] \in a.may
       /\ \E p \in 1 .. a.row - 1 : PreviewOf(a.token, p)
  /\ \A row \in sent : \E a \in authorised : a.row = row

\* Rows are never removed, keep their intent, and change only if they were sent.
LEMMA RowsKept ==
  ASSUME TypeOK, RowsInv, [Next]_vars, NEW r \in DOMAIN trail
  PROVE  /\ r \in DOMAIN trail'
         /\ trail'[r].intent = trail[r].intent
         /\ r \notin sent => r \notin sent' /\ trail'[r] = trail[r]
<1>1. CASE TrailAsIs \/ Crash
  BY <1>1 DEF TrailAsIs, Crash, serviceVars, sent
<1>2. CASE Noted
  <2>1. PICK intent \in Intents, outcome \in {"dry_run", "denied", "unconfirmed"} :
          Record(intent, outcome)
    BY <1>2 DEF Noted
  <2>2. PICK x \in Row : trail' = Append(trail, x)
    BY <2>1, NewRows DEF Record, Outcome
  <2>3. QED
    BY <1>2, <2>2, Appended DEF TypeOK, Noted, serviceVars, sent
<1>3. ASSUME NEW c \in Calls, NEW intent \in Intents, Accept(c, intent)
      PROVE  /\ r \in DOMAIN trail' /\ trail'[r] = trail[r]
             /\ r \notin sent => r \notin sent'
  BY <1>3, AcceptIs DEF sent
<1>4. ASSUME NEW c \in Calls, Return(c)
      PROVE  /\ r \in DOMAIN trail'
             /\ trail'[r].intent = trail[r].intent
             /\ r \notin sent => r \notin sent' /\ trail'[r] = trail[r]
  <2> DEFINE row == calls[c].row
  <2>1. PICK outcome \in {"applied", "failed"} : settle(row, outcome)
    BY <1>4 DEF Return, ApplyReturns, ApplyThrows
  <2>2. calls[c].pc = "applying" /\ UNCHANGED <<inflight, landed>>
    BY <1>4 DEF Return, ApplyReturns, ApplyThrows, serviceVars
  <2>3. row \in sent /\ row \in DOMAIN trail
    BY <2>2 DEF RowsInv
  <2>4. CASE trail' = [trail EXCEPT ![row].outcome = outcome]
    BY <2>2, <2>3, <2>4, Settled DEF TypeOK, Outcome, sent
  <2>5. CASE UNCHANGED trail
    BY <2>2, <2>5 DEF sent
  <2>6. QED
    BY <2>1, <2>4, <2>5 DEF settle
<1>5. ASSUME NEW row \in inflight, Land(row)
      PROVE  UNCHANGED trail /\ sent' = sent
  BY <1>5 DEF Land, sent
<1>6. QED
  BY <1>1, <1>2, <1>3, <1>4, <1>5, TrailStep

LEMMA PreviewsKept ==
  ASSUME TypeOK, RowsInv, [Next]_vars, NEW token, NEW p, PreviewOf(token, p)
  PROVE  PreviewOf(token, p)'
<1>1. p \in DOMAIN trail /\ p \notin sent
  BY DEF PreviewOf
<1>2. p \in DOMAIN trail' /\ p \notin sent' /\ trail'[p] = trail[p]
  BY <1>1, RowsKept
<1>3. QED
  BY <1>2 DEF PreviewOf

\* A call that moves brings in no token but those it now holds.
LEMMA CirculatesOne ==
  ASSUME calls \in [Calls -> Call], NEW c \in Calls, NEW x,
         calls' = [calls EXCEPT ![c] = x], offered' \subseteq Circulating
  PROVE  Circulating' \subseteq Circulating \cup {x.reply, x.presented}
  BY DEF Circulating

\* The only new token is that of a preview, and comes with its row.
LEMMA Circulates ==
  ASSUME TypeOK, [Next]_vars
  PROVE  \/ Circulating' \cap Token \subseteq Circulating
         \/ \E intent \in Intents, new \in Token :
              /\ Circulating' \cap Token \subseteq Circulating \cup {new}
              /\ new.intent = intent
              /\ Record(intent, "unconfirmed") /\ UNCHANGED serviceVars
<1> USE DEF TypeOK
<1>n. NoToken \notin Token /\ Malformed \notin Token
  BY NoTokenAssumption, MalformedAssumption
<1>o. offered \subseteq Circulating
  BY DEF Circulating
<1>i. ASSUME NEW c \in Calls, calls' = [calls EXCEPT ![c] = Idle],
             offered' \subseteq Circulating
      PROVE  Circulating' \cap Token \subseteq Circulating
  <2>1. Idle.reply \notin Token /\ Idle.presented \notin Token
    BY <1>n DEF Idle
  <2>2. QED
    BY <1>i, <2>1, CirculatesOne
<1>1. ASSUME NEW c \in Calls, NEW ceiling \in Ceilings, NEW grant \in Grant,
             NEW presented \in offered \cup {Malformed, NoToken},
             Arrive(c, ceiling, grant, presented)
      PROVE  Circulating' \cap Token \subseteq Circulating
  <2> DEFINE x == [Idle EXCEPT !.pc = "planning", !.presented = presented,
                               !.may = {tier \in Tiers : Permitted(tier, ceiling, grant)}]
  <2>1. x.reply = NoToken /\ x.presented = presented
    BY DEF Idle
  <2>2. calls' = [calls EXCEPT ![c] = x] /\ offered' = offered
    BY <1>1 DEF Arrive
  <2> HIDE DEF x
  <2>3. Circulating' \subseteq Circulating \cup {x.reply, x.presented}
    BY <1>o, <2>2, CirculatesOne
  <2>4. QED
    BY <1>n, <1>o, <2>1, <2>3
<1>2. ASSUME NEW c \in Calls,
             \/ PlanThrows(c) \/ Return(c)
             \/ \E intent \in Intents : \/ NothingToDo(c, intent) \/ Deny(c, intent)
                                       \/ RefuseSpent(c, intent) \/ Unrecorded(c, intent)
      PROVE  Circulating' \cap Token \subseteq Circulating
  <2>1. calls' = [calls EXCEPT ![c] = Idle] /\ offered' = offered
    BY <1>2 DEF PlanThrows, Return, ApplyReturns, ApplyThrows, NothingToDo, Deny,
                RefuseSpent, Unrecorded
  <2>2. QED
    BY <1>i, <1>o, <2>1
<1>3. ASSUME NEW c \in Calls, NEW intent \in Intents, DryRun(c, intent)
      PROVE  Circulating' \cap Token \subseteq Circulating
  <2> DEFINE x == [Idle EXCEPT !.pc = "advising"]
  <2>1. x.reply = NoToken /\ x.presented = NoToken
    BY DEF Idle
  <2>2. calls' = [calls EXCEPT ![c] = x] /\ offered' = offered
    BY <1>3 DEF DryRun
  <2> HIDE DEF x
  <2>3. QED
    BY <1>n, <1>o, <2>1, <2>2, CirculatesOne
<1>4. ASSUME NEW c \in Calls, NEW intent \in Intents,
             Preview(c, intent) \/ RefuseToken(c, intent)
      PROVE  /\ Circulating' \cap Token \subseteq Circulating \cup {issue(intent)}
             /\ issue(intent) \in Token /\ issue(intent).intent = intent
             /\ Record(intent, "unconfirmed") /\ UNCHANGED serviceVars
  <2> DEFINE x == [Idle EXCEPT !.pc = "advising", !.reply = issue(intent)]
  <2>1. x.reply = issue(intent) /\ x.presented = NoToken
    BY DEF Idle
  <2>2. calls' = [calls EXCEPT ![c] = x] /\ offered' = offered
    BY <1>4 DEF Preview, RefuseToken
  <2> HIDE DEF x
  <2>3. Circulating' \subseteq Circulating \cup {x.reply, x.presented}
    BY <1>o, <2>2, CirculatesOne
  <2>4. Record(intent, "unconfirmed") /\ UNCHANGED serviceVars
    BY <1>4 DEF Preview, RefuseToken
  <2>5. issue(intent) \in Token /\ issue(intent).intent = intent
    BY IssuedToken DEF issue
  <2>6. QED
    BY <1>n, <2>1, <2>3, <2>4, <2>5
<1>5. ASSUME NEW c \in Calls, NEW intent \in Intents, Accept(c, intent)
      PROVE  Circulating' \cap Token \subseteq Circulating
  <2> DEFINE x == [Idle EXCEPT !.pc = "applying", !.row = Len(trail) + 1]
  <2>1. x.reply = NoToken /\ x.presented = NoToken
    BY DEF Idle
  <2>2. calls' = [calls EXCEPT ![c] = x] /\ offered' = offered
    BY <1>5 DEF Accept
  <2> HIDE DEF x
  <2>3. QED
    BY <1>n, <1>o, <2>1, <2>2, CirculatesOne
<1>6. ASSUME NEW c \in Calls, Advised(c)
      PROVE  Circulating' \cap Token \subseteq Circulating
  <2>1. offered' \subseteq Circulating /\ calls' = [calls EXCEPT ![c] = Idle]
    BY <1>6 DEF Advised, Circulating
  <2>2. QED
    BY <1>i, <2>1
<1>7. ASSUME (\E row \in inflight : Land(row)) \/ LoadLibrary \/ LibraryExpires \/ Tick
               \/ UNCHANGED vars
      PROVE  Circulating' = Circulating
  BY <1>7 DEF Land, LoadLibrary, LibraryExpires, Tick, vars, callVars, Circulating
<1>8. CASE Crash
  <2>1. /\ offered' = offered
        /\ \A c \in Calls : calls'[c].reply \notin Token /\ calls'[c].presented \notin Token
    BY <1>8, <1>n DEF Crash, Idle
  <2>2. QED
    BY <2>1, <1>o DEF Circulating
<1>9. QED
  BY <1>1, <1>2, <1>3, <1>4, <1>5, <1>6, <1>7, <1>8 DEF Next, Resolve

LEMMA PreviewStep ==
  ASSUME TypeOK, RowsInv, PreviewInv, [Next]_vars
  PROVE  PreviewInv'
<1>1. ASSUME NEW token \in Token, token \in Circulating
      PROVE  \E p \in Nat : PreviewOf(token, p)'
  <2>1. PICK p \in Nat : PreviewOf(token, p)
    BY <1>1 DEF PreviewInv
  <2>2. QED
    BY <2>1, PreviewsKept
<1>2. ASSUME NEW intent \in Intents, NEW new \in Token, new.intent = intent,
             Record(intent, "unconfirmed"), UNCHANGED serviceVars
      PROVE  \E p \in Nat : PreviewOf(new, p)'
  <2> DEFINE p == Len(trail) + 1
  <2>1. PICK x \in Row : /\ trail' = Append(trail, x) /\ x.intent = intent
                         /\ x.outcome \in {"unconfirmed", "attempted"}
    BY <1>2 DEF Record, begin, Row, Outcome
  <2>2. /\ DOMAIN trail = 1 .. Len(trail) /\ Len(trail) \in Nat
        /\ DOMAIN trail' = 1 .. Len(trail) + 1 /\ trail'[p] = x
    BY <2>1, Appended DEF TypeOK
  <2>3. p \notin sent'
    BY <1>2, <2>2 DEF RowsInv, serviceVars, sent
  <2>4. QED
    BY <1>2, <2>1, <2>2, <2>3 DEF PreviewOf
<1>3. QED
  BY <1>1, <1>2, Circulates DEF PreviewInv

\* Only Accept sends an operation, and only it authorises one.
LEMMA SentOnlyByAccept ==
  ASSUME TypeOK, RowsInv, [Next]_vars
  PROVE  \/ UNCHANGED authorised /\ sent' = sent
         \/ \E c \in Calls, intent \in Intents : Accept(c, intent)
<1>1. sent' = sent \/ \E c \in Calls, intent \in Intents : Accept(c, intent)
  <2>1. CASE TrailAsIs \/ Noted \/ Crash
    BY <2>1 DEF TrailAsIs, Noted, Crash, serviceVars, sent
  <2>2. ASSUME NEW c \in Calls, Return(c) PROVE sent' = sent
    BY <2>2 DEF Return, ApplyReturns, ApplyThrows, serviceVars, sent
  <2>3. ASSUME NEW row \in inflight, Land(row) PROVE sent' = sent
    BY <2>3 DEF Land, sent
  <2>4. QED
    BY <2>1, <2>2, <2>3, TrailStep
<1>2. UNCHANGED authorised \/ \E c \in Calls, intent \in Intents : Accept(c, intent)
  BY TokenStep DEF Crash
<1>3. ASSUME NEW c \in Calls, NEW intent \in Intents, Accept(c, intent)
      PROVE  \E d \in Calls, i \in Intents : Accept(d, i)
  BY <1>3
<1>4. QED
  BY <1>1, <1>2

LEMMA AuthStep ==
  ASSUME TypeOK, RowsInv, PreviewInv, AuthInv, [Next]_vars
  PROVE  AuthInv'
<1>1. ASSUME NEW a \in authorised
      PROVE  /\ a.row \in DOMAIN trail
             /\ a.token.intent = trail'[a.row].intent
             /\ a.at \in a.token.issuedAt .. deadAt(a.token)
             /\ TierOf[a.token.intent] \in a.may
             /\ \E p \in 1 .. a.row - 1 : PreviewOf(a.token, p)'
  <2>1. a.row \in DOMAIN trail
    BY DEF AuthInv, RowsInv
  <2>2. trail'[a.row].intent = trail[a.row].intent
    BY <2>1, RowsKept
  <2>3. PICK p \in 1 .. a.row - 1 : PreviewOf(a.token, p)
    BY DEF AuthInv
  <2>4. PreviewOf(a.token, p)'
    BY <2>3, PreviewsKept
  <2>5. QED
    BY <2>1, <2>2, <2>3, <2>4 DEF AuthInv
<1>2. CASE UNCHANGED authorised /\ sent' = sent
  <2>1. \A a \in authorised : a.row \in sent /\ deadAt(a.token)' = deadAt(a.token)
    BY DEF AuthInv, deadAt
  <2>2. \A row \in sent : \E a \in authorised : a.row = row
    BY DEF AuthInv
  <2>3. QED
    BY <1>1, <1>2, <2>1, <2>2 DEF AuthInv
<1>3. ASSUME NEW c \in Calls, NEW intent \in Intents, Accept(c, intent)
      PROVE  AuthInv'
  <2>0. PICK token : token = calls[c].presented
    OBVIOUS
  <2> DEFINE row == Len(trail) + 1
             new == [row |-> row, token |-> token, at |-> now, may |-> calls[c].may]
  <2>1. /\ authorised' = authorised \cup {new}
        /\ verify(token, intent) = "ok"
        /\ TierOf[intent] \in calls[c].may
    BY <1>3, <2>0 DEF Accept, Presents, MayWrite
  <2>2. /\ token \in Token /\ token.intent = intent
        /\ ~(token.issuedAt > now) /\ ~(now > deadAt(token))
    <3>1. token \in Token \cup {Malformed}
      BY <1>3, <2>0 DEF Accept, Presents, TypeOK, Call
    <3>2. QED
      BY <2>1, <3>1, VerifyOk
  <2>3. now \in token.issuedAt .. deadAt(token)
    BY <2>2, TTLAssumption DEF Token, deadAt, TypeOK, TokensTypeOK
  <2>4. token \in Circulating
    BY <2>0 DEF Circulating
  <2>5. PICK p \in Nat : PreviewOf(token, p)
    BY <2>2, <2>4 DEF PreviewInv
  <2>6. PreviewOf(token, p)'
    BY <2>5, PreviewsKept
  <2>7. p \in 1 .. row - 1
    <3>1. p \in DOMAIN trail
      BY <2>5 DEF PreviewOf
    <3>2. QED
      BY <1>3, <3>1, AcceptIs
  <2>8. /\ trail'[row] = begin(intent) /\ sent' = sent \cup {row}
        /\ row \notin DOMAIN trail
    BY <1>3, AcceptIs DEF sent
  <2>9. begin(intent).intent = intent
    BY DEF begin
  <2>10. new.row = row /\ new.token = token /\ new.at = now /\ new.may = calls[c].may
    OBVIOUS
  <2> HIDE DEF new, row
  <2>11. ASSUME NEW a \in authorised'
         PROVE  /\ a.row \in sent'
                /\ a.token.intent = trail'[a.row].intent
                /\ a.at \in a.token.issuedAt .. deadAt(a.token)
                /\ TierOf[a.token.intent] \in a.may
                /\ \E q \in 1 .. a.row - 1 : PreviewOf(a.token, q)'
    <3>1. CASE a \in authorised
      BY <1>1, <2>8, <3>1 DEF AuthInv
    <3>2. CASE a = new
      BY <2>1, <2>2, <2>3, <2>6, <2>7, <2>8, <2>9, <2>10, <3>2
    <3>3. QED
      BY <2>1, <3>1, <3>2
  <2>12. \A r \in sent' : \E a \in authorised' : a.row = r
    BY <2>1, <2>8, <2>10 DEF AuthInv
  <2>13. \A a \in authorised' : deadAt(a.token)' = deadAt(a.token)
    BY DEF deadAt
  <2>14. QED
    BY <2>11, <2>12, <2>13 DEF AuthInv
<1>4. QED
  BY <1>2, <1>3, SentOnlyByAccept

LEMMA SanctionedByAuth == AuthInv => ApplyWasSanctioned
<1> SUFFICES ASSUME AuthInv, NEW row \in sent
             PROVE  \E a \in authorised :
                      /\ a.row = row
                      /\ a.token.intent = trail[row].intent
                      /\ a.at \in a.token.issuedAt .. deadAt(a.token)
                      /\ TierOf[trail[row].intent] \in a.may
                      /\ \E p \in 1 .. row - 1 :
                           /\ trail[p].intent = a.token.intent
                           /\ trail[p].outcome \in {"unconfirmed", "attempted"}
  BY DEF ApplyWasSanctioned, sent
<1>1. PICK a \in authorised : a.row = row
  BY DEF AuthInv
<1>2. QED
  BY <1>1 DEF AuthInv, PreviewOf

(* tools/write.ts: every operation a service was sent is one this server   *)
(* had previewed earlier, in an audited row of the very same operation,    *)
(* let through by a token inside its life on a request that was granted    *)
(* the tier: whatever the calls, the crashes and the tokens presented.     *)
THEOREM AppliedWasPreviewed == Spec => []ApplyWasSanctioned
<1>1. Init => PreviewInv /\ AuthInv
  <2>1. ASSUME Init PROVE Circulating \cap Token = {}
    BY <2>1, NoTokenAssumption DEF Init, Circulating, Idle
  <2>2. QED
    BY <2>1 DEF Init, PreviewInv, AuthInv, sent
<1>2. TypeOK /\ RowsInv /\ PreviewInv /\ AuthInv /\ [Next]_vars => PreviewInv' /\ AuthInv'
  BY PreviewStep, AuthStep
<1>3. QED
  BY <1>1, <1>2, SanctionedByAuth, TypeCorrect, RowsInvariance, PTL DEF Spec

=============================================================================
