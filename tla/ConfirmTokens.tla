--------------------------- MODULE ConfirmTokens ---------------------------
(***************************************************************************)
(* core/confirm.ts: the single-use confirmation token.  A token is an HMAC *)
(* over the exact operation and the moment of issue, keyed by a secret the *)
(* process draws when it starts.  HMACs are taken to be unforgeable, so a  *)
(* token is the triple it commits to: which process signed it, when, and   *)
(* for which intent.  Two issued for one intent at one moment are equal,   *)
(* as they are in the code.                                                *)
(***************************************************************************)
EXTENDS Naturals, FiniteSets

CONSTANTS
  Intents,      \* the exact operations a plan can resolve to
  TTL,          \* CONFIRM_TTL_MS
  MaxConsumed,  \* MAX_CONSUMED
  Malformed     \* a `confirm` argument that is no token of this server's form

VARIABLES
  now,       \* the clock, `#now()`
  boot,      \* which process is running: its `#key` and `#keyId`
  consumed,  \* `#consumed`: each spent token, with its place in insertion order
  evicted    \* history: tokens dropped for want of room, not of age

ASSUME TTLAssumption == TTL \in Nat
ASSUME MaxConsumedAssumption == MaxConsumed \in Nat

tokenVars == <<now, boot, consumed, evicted>>

Token == [boot : Nat, issuedAt : Nat, intent : Intents]

ASSUME MalformedAssumption == Malformed \notin Token

\* The moment the Map keeps beside a spent token.
deadAt(token) == token.issuedAt + TTL

TokensTypeOK ==
  /\ now \in Nat
  /\ boot \in Nat
  /\ DOMAIN consumed \in SUBSET Token
  /\ IsFiniteSet(DOMAIN consumed)
  /\ consumed \in [DOMAIN consumed -> Nat]
  /\ evicted \in SUBSET Token

TokensInit ==
  /\ now = 0
  /\ boot = 0
  /\ consumed = [token \in {} |-> 0]
  /\ evicted = {}

\* Fault: the token is dated one moment early.
issueBackdated(intent) == [boot |-> boot, issuedAt |-> now - 1, intent |-> intent]

issue(intent) == [boot |-> boot, issuedAt |-> now, intent |-> intent]

(***************************************************************************)
(* #sweep runs at the head of every verification: entries whose time has   *)
(* come go first, then the oldest until MAX_CONSUMED are left.  The set may *)
(* hold one more than that until the next sweep.                           *)
(***************************************************************************)
Alive == {t \in DOMAIN consumed : deadAt(t) > now}

Remembered ==
  {t \in Alive :
     Cardinality({u \in Alive : consumed[u] > consumed[t]}) < MaxConsumed}

Place(t) == Cardinality({u \in Remembered : consumed[u] < consumed[t]})

\* Fault: the signature is recomputed over the time alone, so any intent matches.
verifyUnbound(presented, intent) ==
  IF presented = Malformed THEN "malformed"
  ELSE IF presented.boot # boot THEN "foreign"
  ELSE IF presented.issuedAt > now \/ now > deadAt(presented) THEN "expired"
  ELSE IF presented \in Remembered THEN "used"
  ELSE "ok"

(* The order matters: an old token reports its age before its signature,   *)
(* and whether it was spent is told only to the holder of a valid one.     *)
verify(presented, intent) ==
  IF presented = Malformed THEN "malformed"
  ELSE IF presented.boot # boot THEN "foreign"
  ELSE IF presented.issuedAt > now \/ now > deadAt(presented) THEN "expired"
  ELSE IF presented.intent # intent THEN "mismatch"
  ELSE IF presented \in Remembered THEN "used"
  ELSE "ok"

\* Fault: a token is verified, and spent only by a later step that may not come.
verifyOnly(presented, intent) ==
  /\ evicted' = evicted \cup (Alive \ Remembered)
  /\ consumed' = [t \in Remembered |-> Place(t)]
  /\ UNCHANGED <<now, boot>>

(* The state change of verifyAndConsume: the sweep, and the spending of a  *)
(* token that passed.                                                      *)
verifyAndConsume(presented, intent) ==
  /\ evicted' = evicted \cup (Alive \ Remembered)
  /\ consumed' =
       IF verify(presented, intent) = "ok"
         THEN [t \in Remembered \cup {presented} |->
                 IF t = presented THEN Cardinality(Remembered) ELSE Place(t)]
         ELSE [t \in Remembered |-> Place(t)]
  /\ UNCHANGED <<now, boot>>

\* A new process: a fresh key, an empty map.  Tokens of the old one become foreign.
NewProcess ==
  /\ boot' = boot + 1
  /\ consumed' = [token \in {} |-> 0]
  /\ UNCHANGED <<now, evicted>>

=============================================================================
