----------------------------- MODULE AuditTrail -----------------------------
(***************************************************************************)
(* What the write audit promises an operator, without tokens, callers or   *)
(* permissions: the trail is written ahead.  No operation reaches a        *)
(* service before its row exists, a row is settled at most once, "applied" *)
(* is only said of a change that took effect, and a row that says nothing  *)
(* was attempted is about an operation no service ever saw.                *)
(***************************************************************************)
EXTENDS Naturals, Sequences

VARIABLES
  outcomes,  \* the outcome column, row by row
  sent,      \* the rows whose operation was handed to a service
  effects    \* the rows whose operation the service carried out

trailVars == <<outcomes, sent, effects>>

Harmless == {"dry_run", "denied", "unconfirmed"}
Outcomes == Harmless \cup {"attempted", "applied", "failed"}

Init ==
  /\ outcomes = <<>>
  /\ sent = {}
  /\ effects = {}

\* A call that stops short of the service leaves one row, settled unless settling failed.
Note(outcome) ==
  /\ outcomes' = Append(outcomes, outcome)
  /\ UNCHANGED <<sent, effects>>

\* The row of a write comes with, and never after, the call to the service.
Open ==
  /\ outcomes' = Append(outcomes, "attempted")
  /\ sent' = sent \cup {Len(outcomes) + 1}
  /\ UNCHANGED effects

\* The service acts on what it was sent, once, and possibly long after.
TakeEffect(r) ==
  /\ r \in sent \ effects
  /\ effects' = effects \cup {r}
  /\ UNCHANGED <<outcomes, sent>>

Close(r, outcome) ==
  /\ r \in sent \cap DOMAIN outcomes
  /\ outcomes[r] = "attempted"
  /\ outcome = "applied" => r \in effects
  /\ outcomes' = [outcomes EXCEPT ![r] = outcome]
  /\ UNCHANGED <<sent, effects>>

Next ==
  \/ \E outcome \in Harmless \cup {"attempted"} : Note(outcome)
  \/ Open
  \/ \E r \in sent : TakeEffect(r)
  \/ \E r \in sent, outcome \in {"applied", "failed"} : Close(r, outcome)

Spec == Init /\ [][Next]_trailVars

(* What the contract comes to: the trail never misses an operation that    *)
(* happened, and never claims one that did not (core/audit.ts).            *)
TrailTruthful ==
  /\ effects \subseteq sent
  /\ sent \subseteq DOMAIN outcomes
  /\ \A r \in DOMAIN outcomes :
       /\ outcomes[r] = "applied" => r \in effects
       /\ outcomes[r] \in Harmless => r \notin sent

=============================================================================
