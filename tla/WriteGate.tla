----------------------------- MODULE WriteGate -----------------------------
(***************************************************************************)
(* tools/write.ts: the one handler every write tool runs.  A call resolves *)
(* its plan (an await), and then, without yielding, passes the permission  *)
(* check, the confirmation and the audit, and either answers or starts     *)
(* `spec.apply` (an await).  Calls interleave at the awaits, and the       *)
(* process may die anywhere.  The operator may change the permissions      *)
(* between any two requests, so a request finds any grant in its snapshot. *)
(*                                                                         *)
(* The service behind a write is outside src/: it may carry out what it    *)
(* was sent at any moment, also after the caller gave up on it, or never.  *)
(***************************************************************************)
EXTENDS ConfirmTokens, Permissions, Sequences

CONSTANTS
  Calls,     \* slots for concurrent tool calls
  TierOf,    \* the tier of each intent
  NoToken,   \* no `confirm` argument; no token in the answer
  MaxNow,    \* bound: the last moment of the clock
  MaxBoot,   \* bound: how often the process may die
  MaxRows    \* bound: how many audit rows a behaviour writes

ASSUME TierOfAssumption == TierOf \in [Intents -> Tiers]
ASSUME NoTokenAssumption == NoToken \notin Token /\ NoToken # Malformed

VARIABLES
  calls,       \* the calls in progress
  offered,     \* the tokens some client has been handed
  trail,       \* the write_audit table, in insertion order
  inflight,    \* rows whose operation a service has and may still carry out
  landed,      \* rows whose operation a service carried out
  library,     \* whether the loader holds a snapshot
  unsettled,   \* history: rows whose settling was lost to an error or a crash
  authorised   \* history: which token let which row through, and when

callVars == <<calls, offered>>
serviceVars == <<inflight, landed>>
vars == <<tokenVars, callVars, trail, serviceVars, library, unsettled, authorised>>

Outcome == {"attempted", "applied", "dry_run", "denied", "unconfirmed", "failed"}

Row == [intent : Intents, outcome : Outcome]

Call == [pc : {"idle", "planning", "advising", "applying"},
         may : SUBSET Tiers,
         presented : Token \cup {Malformed, NoToken},
         row : Nat,
         reply : Token \cup {NoToken}]

Idle == [pc |-> "idle", may |-> {}, presented |-> NoToken, row |-> 0, reply |-> NoToken]

Authorisation == [row : Nat, token : Token, at : Nat, may : SUBSET Tiers]

Init ==
  /\ TokensInit
  /\ calls = [c \in Calls |-> Idle]
  /\ offered = {}
  /\ trail = <<>>
  /\ inflight = {}
  /\ landed = {}
  /\ library = FALSE
  /\ unsettled = {}
  /\ authorised = {}

-----------------------------------------------------------------------------
(***************************************************************************)
(* The audit.  begin inserts an `attempted` row and throws when it cannot; *)
(* settle rewrites that row and only logs when it cannot.                  *)
(***************************************************************************)
begin(intent) == [intent |-> intent, outcome |-> "attempted"]

\* begin and settle of a call that goes no further, in one synchronous stretch.
Record(intent, outcome) ==
  \/ /\ trail' = Append(trail, [begin(intent) EXCEPT !.outcome = outcome])
     /\ UNCHANGED unsettled
  \/ /\ trail' = Append(trail, begin(intent))
     /\ unsettled' = unsettled \cup {Len(trail) + 1}

settle(row, outcome) ==
  \/ /\ trail' = [trail EXCEPT ![row].outcome = outcome]
     /\ UNCHANGED unsettled
  \/ /\ unsettled' = unsettled \cup {row}
     /\ UNCHANGED trail

-----------------------------------------------------------------------------
Busy == {c \in Calls : calls[c].pc = "planning"}

(* A request: its handler is built over one snapshot, so the permissions   *)
(* it will be checked against are those of this moment, however long the   *)
(* plan takes to resolve.                                                  *)
Arrive(c, ceiling, grant, presented) ==
  /\ calls[c].pc = "idle"
  /\ Len(trail) + Cardinality(Busy) < MaxRows
  /\ calls' = [calls EXCEPT ![c] =
       [Idle EXCEPT !.pc = "planning", !.presented = presented,
                    !.may = {tier \in Tiers : Permitted(tier, ceiling, grant)}]]
  /\ UNCHANGED <<tokenVars, offered, trail, serviceVars, library,
                 unsettled, authorised>>

\* The plan could not resolve its target: nothing is recorded.
PlanThrows(c) ==
  /\ calls[c].pc = "planning"
  /\ calls' = [calls EXCEPT ![c] = Idle]
  /\ UNCHANGED <<tokenVars, offered, trail, serviceVars, library,
                 unsettled, authorised>>

(* The tier passed and a token came with the call: only then is the token  *)
(* looked at, and spent if it is good.                                     *)
MayWrite(c, intent) == TierOf[intent] \in calls[c].may

(* Branches 1 to 3: the target is already as asked, a dry run, a refusal by *)
(* tier.  None of them touches the token the call may carry.               *)
NothingToDo(c, intent) ==
  /\ calls[c].pc = "planning"
  /\ Record(intent, "dry_run")
  /\ calls' = [calls EXCEPT ![c] = Idle]
  /\ UNCHANGED <<tokenVars, offered, serviceVars, library, authorised>>

DryRun(c, intent) ==
  /\ calls[c].pc = "planning"
  /\ Record(intent, "dry_run")
  /\ calls' = [calls EXCEPT ![c] = [Idle EXCEPT !.pc = "advising"]]
  /\ UNCHANGED <<tokenVars, offered, serviceVars, library, authorised>>

Deny(c, intent) ==
  /\ calls[c].pc = "planning"
  /\ ~MayWrite(c, intent)
  /\ Record(intent, "denied")
  /\ calls' = [calls EXCEPT ![c] = Idle]
  /\ UNCHANGED <<tokenVars, offered, serviceVars, library, authorised>>

\* Branch 4 without a token: the preview, whose answer will carry a fresh token.
Preview(c, intent) ==
  /\ calls[c].pc = "planning"
  /\ MayWrite(c, intent)
  /\ calls[c].presented = NoToken
  /\ Record(intent, "unconfirmed")
  /\ calls' = [calls EXCEPT ![c] = [Idle EXCEPT !.pc = "advising", !.reply = issue(intent)]]
  /\ UNCHANGED <<tokenVars, offered, serviceVars, library, authorised>>

Presents(c, intent) ==
  /\ calls[c].pc = "planning"
  /\ MayWrite(c, intent)
  /\ calls[c].presented # NoToken

\* A spent token is refused outright, and gets no fresh one.
RefuseSpent(c, intent) ==
  /\ Presents(c, intent)
  /\ verify(calls[c].presented, intent) = "used"
  /\ verifyAndConsume(calls[c].presented, intent)
  /\ Record(intent, "denied")
  /\ calls' = [calls EXCEPT ![c] = Idle]
  /\ UNCHANGED <<offered, serviceVars, library, authorised>>

\* Fault: a spent token is treated like any other rejection.
RefuseAnyToken(c, intent) ==
  /\ Presents(c, intent)
  /\ verify(calls[c].presented, intent) # "ok"
  /\ verifyAndConsume(calls[c].presented, intent)
  /\ Record(intent, "unconfirmed")
  /\ calls' = [calls EXCEPT ![c] = [Idle EXCEPT !.pc = "advising", !.reply = issue(intent)]]
  /\ UNCHANGED <<offered, serviceVars, library, authorised>>

\* Any other rejection degrades to a preview with a fresh token.
RefuseToken(c, intent) ==
  /\ Presents(c, intent)
  /\ verify(calls[c].presented, intent)
       \in {"malformed", "foreign", "expired", "mismatch"}
  /\ verifyAndConsume(calls[c].presented, intent)
  /\ Record(intent, "unconfirmed")
  /\ calls' = [calls EXCEPT ![c] = [Idle EXCEPT !.pc = "advising", !.reply = issue(intent)]]
  /\ UNCHANGED <<offered, serviceVars, library, authorised>>

\* Fault: the row is begun when the service has answered, not before it is asked.
AcceptUnaudited(c, intent) ==
  LET row == Len(trail) + 1 IN
  /\ Presents(c, intent)
  /\ verify(calls[c].presented, intent) = "ok"
  /\ verifyAndConsume(calls[c].presented, intent)
  /\ inflight' = inflight \cup {row}
  /\ authorised' = authorised \cup
       {[row |-> row, token |-> calls[c].presented, at |-> now, may |-> calls[c].may]}
  /\ calls' = [calls EXCEPT ![c] = [Idle EXCEPT !.pc = "applying", !.row = row]]
  /\ UNCHANGED <<offered, trail, landed, library, unsettled>>

(* Branch 5 up to its await: the token is spent, the row is begun, and     *)
(* `spec.apply` has the operation in its hands.                            *)
Accept(c, intent) ==
  LET row == Len(trail) + 1 IN
  /\ Presents(c, intent)
  /\ verify(calls[c].presented, intent) = "ok"
  /\ verifyAndConsume(calls[c].presented, intent)
  /\ trail' = Append(trail, begin(intent))
  /\ inflight' = inflight \cup {row}
  /\ authorised' = authorised \cup
       {[row |-> row, token |-> calls[c].presented, at |-> now, may |-> calls[c].may]}
  /\ calls' = [calls EXCEPT ![c] = [Idle EXCEPT !.pc = "applying", !.row = row]]
  /\ UNCHANGED <<offered, landed, library, unsettled>>

(* audit.begin throws, in whichever branch was taken: the call fails with  *)
(* AuditUnavailable.  A token it had verified stays spent.                 *)
Unrecorded(c, intent) ==
  /\ calls[c].pc = "planning"
  /\ \/ UNCHANGED tokenVars
     \/ /\ Presents(c, intent)
        /\ verifyAndConsume(calls[c].presented, intent)
  /\ calls' = [calls EXCEPT ![c] = Idle]
  /\ UNCHANGED <<offered, trail, serviceVars, library, unsettled, authorised>>

\* The cross-checks have answered or run out of time; the answer reaches the client.
Advised(c) ==
  /\ calls[c].pc = "advising"
  /\ offered' = offered \cup ({calls[c].reply} \ {NoToken})
  /\ calls' = [calls EXCEPT ![c] = Idle]
  /\ UNCHANGED <<tokenVars, trail, serviceVars, library, unsettled, authorised>>

ApplyReturns(c) ==
  /\ calls[c].pc = "applying"
  /\ calls[c].row \in landed
  /\ library' = FALSE
  /\ settle(calls[c].row, "applied")
  /\ calls' = [calls EXCEPT ![c] = Idle]
  /\ UNCHANGED <<tokenVars, offered, serviceVars, authorised>>

\* Fault: the failure is rethrown without settling the row.
ApplyThrowsUnsettled(c) ==
  /\ calls[c].pc = "applying"
  /\ calls' = [calls EXCEPT ![c] = Idle]
  /\ UNCHANGED <<tokenVars, offered, trail, serviceVars, library, unsettled, authorised>>

\* The service refused, could not be reached, or did not answer in time.
ApplyThrows(c) ==
  /\ calls[c].pc = "applying"
  /\ settle(calls[c].row, "failed")
  /\ calls' = [calls EXCEPT ![c] = Idle]
  /\ UNCHANGED <<tokenVars, offered, serviceVars, library, authorised>>

-----------------------------------------------------------------------------
\* External: the service carries out an operation it was sent.
Land(row) ==
  /\ inflight' = inflight \ {row}
  /\ landed' = landed \cup {row}
  /\ UNCHANGED <<tokenVars, callVars, trail, library, unsettled, authorised>>

\* Any read tool that asks for the library fills the loader's cache.
LoadLibrary ==
  /\ ~library
  /\ library' = TRUE
  /\ UNCHANGED <<tokenVars, callVars, trail, serviceVars, unsettled, authorised>>

\* The cached snapshot expires, or a reload swaps in a new and empty loader.
LibraryExpires ==
  /\ library
  /\ library' = FALSE
  /\ UNCHANGED <<tokenVars, callVars, trail, serviceVars, unsettled, authorised>>

(* The process dies and starts again: every call is gone, every row it was *)
(* applying stays `attempted`, and the services go on with what they have. *)
Crash ==
  /\ boot < MaxBoot
  /\ NewProcess
  /\ calls' = [c \in Calls |-> Idle]
  /\ library' = FALSE
  /\ unsettled' = unsettled \cup
       {calls[c].row : c \in {d \in Calls : calls[d].pc = "applying"}}
  /\ UNCHANGED <<offered, trail, serviceVars, authorised>>

Tick ==
  /\ now < MaxNow
  /\ now' = now + 1
  /\ UNCHANGED <<boot, consumed, evicted, callVars, trail, serviceVars,
                 library, unsettled, authorised>>

Resolve(c) ==
  \/ PlanThrows(c)
  \/ \E intent \in Intents :
       \/ NothingToDo(c, intent)
       \/ DryRun(c, intent)
       \/ Deny(c, intent)
       \/ Preview(c, intent)
       \/ RefuseSpent(c, intent)
       \/ RefuseToken(c, intent)
       \/ Accept(c, intent)
       \/ Unrecorded(c, intent)

Return(c) == ApplyReturns(c) \/ ApplyThrows(c)

Next ==
  \/ \E c \in Calls :
       \/ \E ceiling \in Ceilings, grant \in Grant,
            presented \in offered \cup {Malformed, NoToken} :
            Arrive(c, ceiling, grant, presented)
       \/ Resolve(c)
       \/ Advised(c)
       \/ Return(c)
  \/ \E row \in inflight : Land(row)
  \/ LoadLibrary
  \/ LibraryExpires
  \/ Crash
  \/ Tick

Spec == Init /\ [][Next]_vars

(* Every await of the handler ends: each upstream request carries a        *)
(* timeout, and the cross-checks race a budget.  Nothing else is promised: *)
(* clients need not call, services need not act, clocks need not tick.     *)
Fairness ==
  \A c \in Calls : WF_vars(Resolve(c)) /\ WF_vars(Advised(c)) /\ WF_vars(Return(c))

FairSpec == Spec /\ Fairness

-----------------------------------------------------------------------------
TypeOK ==
  /\ TokensTypeOK
  /\ calls \in [Calls -> Call]
  /\ offered \in SUBSET Token
  /\ trail \in Seq(Row)
  /\ inflight \in SUBSET Nat
  /\ landed \in SUBSET Nat
  /\ library \in BOOLEAN
  /\ unsettled \in SUBSET Nat
  /\ authorised \in SUBSET Authorisation

(* core/confirm.ts: "it is single-use".  Two writes never ran on one token, *)
(* however calls interleave, unless the set of spent tokens had overflowed, *)
(* or the later write came at the very last moment of the token's life.    *)
SingleUse ==
  \A a, b \in authorised :
    /\ a.token = b.token
    /\ a.row # b.row
    => \/ a.token \in evicted
       \/ deadAt(a.token) \in {a.at, b.at}

(* The same without the allowance for the last moment, which is what       *)
(* core/confirm.ts claims when it drops a spent token at its deadline:     *)
(* "after that the expiry check rejects it regardless".                    *)
SpentIsSpent ==
  \A a, b \in authorised :
    a.token = b.token /\ a.row # b.row => a.token \in evicted

(* core/audit.ts on the outcome `failed`: "the service was called and said *)
(* no"; tools/write.ts: "a failed write changed nothing".                  *)
FailedChangedNothing ==
  \A row \in landed : trail[row].outcome # "failed"

(* tools/write.ts: what is applied is what was previewed.  Every operation *)
(* sent to a service was let through by a token this server had offered    *)
(* earlier, in an audited preview of the very same operation, that had not *)
(* expired, on a request whose credential and configuration both granted   *)
(* the tier.                                                               *)
ApplyWasSanctioned ==
  \A row \in inflight \cup landed :
    \E a \in authorised :
      /\ a.row = row
      /\ a.token.intent = trail[row].intent
      /\ a.at \in a.token.issuedAt .. deadAt(a.token)
      /\ TierOf[trail[row].intent] \in a.may
      /\ \E p \in 1 .. row - 1 :
           /\ trail[p].intent = a.token.intent
           /\ trail[p].outcome \in {"unconfirmed", "attempted"}

(* core/audit.ts: a row still reading `attempted` is the anomaly it stands *)
(* out as: exactly the writes in progress, and the rows whose settling an  *)
(* error or a crash swallowed.                                             *)
LingeringAttempted ==
  {row \in DOMAIN trail : trail[row].outcome = "attempted"}
    = unsettled \cup {calls[c].row : c \in {d \in Calls : calls[d].pc = "applying"}}

(* tools/write.ts: a spent token inside its life is the one rejection that *)
(* does not get a fresh one, so a caller that lost track is never handed   *)
(* the means to repeat the write it is asking about.                       *)
NoSecondChance ==
  [][\A c \in Calls, a \in authorised :
       /\ calls[c].pc = "planning"
       /\ calls[c].presented = a.token
       /\ a.token.boot = boot
       /\ now <= deadAt(a.token)
       => calls'[c].reply = NoToken \/ calls'[c].reply.intent # a.token.intent]_vars

\* The whole gate keeps the contract of the audit trail.
Trail == INSTANCE AuditTrail WITH
  outcomes <- [row \in DOMAIN trail |-> trail[row].outcome],
  sent <- inflight \cup landed,
  effects <- landed

ImplementsAuditTrail == Trail!Spec

\* Every call is answered, whatever the service and the neighbours do.
EveryCallAnswered == \A c \in Calls : calls[c].pc # "idle" ~> calls[c].pc = "idle"

=============================================================================
