---------------------------- MODULE Sessions_proofs ----------------------------
(***************************************************************************)
(* What a cookie proves, how long a session lasts, that signing out ends   *)
(* it, and that guessing is slow, for any number of sign-ins, sessions,    *)
(* keys and passwords, and any lifetimes.                                  *)
(*                                                                         *)
(* Three inductive invariants, each proved from the one before.            *)
(*                                                                         *)
(*   IInv: the types of what is assigned to a session (TypesInv), that a   *)
(*   cookie is of a session whose password is the one the cookie was       *)
(*   signed under (ProvenInv), and that some cookie of a session is as     *)
(*   young as its last page, less the renewal's grain (LastsInv).  Nothing *)
(*   is needed here of base keys, revocations or the file: a signature     *)
(*   made under another password does not verify whatever they say.        *)
(*                                                                         *)
(*   OutsInv: a session that was signed out, and not forgotten as the code *)
(*   allows, is remembered in memory for as long as any of its cookies     *)
(*   lives (OutInv), the file would remember it as long (DiskInv), neither *)
(*   remembers a session that goes on (ClosedInv), and what is in memory   *)
(*   is in the file unless a write failed (SavedInv).                      *)
(*                                                                         *)
(*   CountsInv: every guess that was read was counted when it was posted,  *)
(*   and every failure beyond the free ones was waited for, or is being    *)
(*   waited for now.                                                       *)
(*                                                                         *)
(* Live, Doubled and Penalty are recursive functions.  That they satisfy   *)
(* their equations, and what follows from these for every argument, is     *)
(* proved by induction in the form of Least: a set of numbers with a       *)
(* member has a least one.                                                 *)
(***************************************************************************)
EXTENDS Sessions, FiniteSetTheorems, SequenceTheorems, WellFoundedInduction, TLAPS

Checks == [pc : {"checking"}, against : Hashes, right : BOOLEAN]

Changes == [pc : {"saving", "reloading", "finishing"}, claim : BOOLEAN,
            expected : Hashes \cup {NoHash}, new : Hashes]

Lives == 0..TTL

TypesInv ==
  /\ stored \in Hashes \cup {NoHash} /\ hash \in Hashes \cup {NoHash}
  /\ tokens \subseteq Token
  /\ attempts \in [Attempts -> Attempt]
  /\ change \in Change
  /\ base \in Bases
  /\ disk = NoFile \/ disk.base \in Bases
  /\ opened \in [Nonces -> Session \cup {NoSession}]

\* A session is known as long as a cookie of it is, and so is what it proves.
ProvenInv ==
  \A t \in tokens :
    /\ opened[t.nonce] # NoSession
    /\ opened[t.nonce].proven = t.hash \/ opened[t.nonce].straddles

Young(n) ==
  \/ opened[n].idle + RenewAfter > TTL
  \/ \E t \in tokens : t.nonce = n /\ t.left + opened[n].idle + RenewAfter > TTL

LastsInv == \A n \in Nonces : opened[n] # NoSession => Young(n)

IInv == TypesInv /\ ProvenInv /\ LastsInv

-----------------------------------------------------------------------------
(* Records.                                                                *)

LEMMA SessionFields ==
  ASSUME NEW x \in Session
  PROVE  x.proven \in Hashes /\ x.straddles \in BOOLEAN /\ x.idle \in Lives /\ x # NoSession
BY NamesAssumption, Zenon DEF Session, Lives

\* Each change of a record has a name, under which the steps below speak of it.
Fresh(p, straddles) ==
  [proven |-> p, straddles |-> straddles, idle |-> 0, ended |-> FALSE, excused |-> FALSE]

Mark(x, ended, excused) == [x EXCEPT !.ended = ended, !.excused = excused]

Excuse(x, excused) == [x EXCEPT !.excused = excused]

Idles(x, idle) == [x EXCEPT !.idle = idle]

Expires(t, left) == [t EXCEPT !.left = left]

LEMMA FreshTyped ==
  ASSUME NEW p \in Hashes, NEW straddles \in BOOLEAN
  PROVE  /\ Fresh(p, straddles) \in Session
         /\ Fresh(p, straddles).proven = p /\ Fresh(p, straddles).straddles = straddles
         /\ Fresh(p, straddles).idle = 0 /\ Fresh(p, straddles).ended = FALSE
<1>1. 0 \in 0..TTL
  BY TimesAssumption
<1>2. QED
  BY <1>1, Zenon DEF Fresh, Session

LEMMA MarkTyped ==
  ASSUME NEW x \in Session, NEW ended \in BOOLEAN, NEW excused \in BOOLEAN
  PROVE  /\ Mark(x, ended, excused) \in Session
         /\ Mark(x, ended, excused).proven = x.proven
         /\ Mark(x, ended, excused).straddles = x.straddles
         /\ Mark(x, ended, excused).idle = x.idle
         /\ Mark(x, ended, excused).ended = ended
         /\ Mark(x, ended, excused).excused = excused
BY Zenon DEF Mark, Session

LEMMA ExcuseTyped ==
  ASSUME NEW x \in Session, NEW excused \in BOOLEAN
  PROVE  /\ Excuse(x, excused) \in Session
         /\ Excuse(x, excused).proven = x.proven
         /\ Excuse(x, excused).straddles = x.straddles
         /\ Excuse(x, excused).idle = x.idle
         /\ Excuse(x, excused).ended = x.ended
         /\ Excuse(x, excused).excused = excused
BY Zenon DEF Excuse, Session

LEMMA IdlesTyped ==
  ASSUME NEW x \in Session, NEW idle \in Lives
  PROVE  /\ Idles(x, idle) \in Session
         /\ Idles(x, idle).proven = x.proven
         /\ Idles(x, idle).straddles = x.straddles
         /\ Idles(x, idle).idle = idle
         /\ Idles(x, idle).ended = x.ended
         /\ Idles(x, idle).excused = x.excused
BY Zenon DEF Idles, Session, Lives

LEMMA TokenFields ==
  ASSUME NEW t \in Token
  PROVE  t.nonce \in Nonces /\ t.left \in Lives /\ t.base \in Bases /\ t.hash \in Hashes \cup {NoHash}
BY Zenon DEF Token, Lives

LEMMA TokenSigned ==
  ASSUME NEW n \in Nonces, NEW b \in Bases, hash \in Hashes \cup {NoHash}
  PROVE  /\ TokenFor(n, b) \in Token
         /\ TokenFor(n, b).nonce = n /\ TokenFor(n, b).left = TTL /\ TokenFor(n, b).hash = hash
         /\ TokenFor(n, b).base = b
<1>1. TTL \in 0..TTL
  BY TimesAssumption
<1>2. QED
  BY <1>1, Zenon DEF TokenFor, Token

LEMMA ExpiresTyped ==
  ASSUME NEW t \in Token, NEW left \in Lives
  PROVE  /\ Expires(t, left) \in Token
         /\ Expires(t, left).nonce = t.nonce /\ Expires(t, left).hash = t.hash
         /\ Expires(t, left).left = left /\ Expires(t, left).base = t.base
BY Zenon DEF Expires, Token, Lives

-----------------------------------------------------------------------------
(* What a step may do to sessions and cookies.                             *)

\* Marks on a session are no part of what it proves or of its age.
Marks ==
  /\ tokens' = tokens
  /\ opened' \in [Nonces -> Session \cup {NoSession}]
  /\ \A n \in Nonces :
       /\ opened'[n] # NoSession <=> opened[n] # NoSession
       /\ opened[n] # NoSession =>
            /\ opened'[n].proven = opened[n].proven
            /\ opened'[n].straddles = opened[n].straddles
            /\ opened'[n].idle = opened[n].idle

LEMMA Marked ==
  ASSUME TypesInv, ProvenInv, LastsInv, Marks
  PROVE  ProvenInv' /\ LastsInv'
<1>1. \A t \in tokens : t.nonce \in Nonces
  BY TokenFields, Zenon DEF TypesInv
<1>2. ProvenInv'
  BY <1>1, Zenon DEF Marks, ProvenInv
<1>3. LastsInv'
  BY Zenon DEF Marks, LastsInv, Young
<1>4. QED
  BY <1>2, <1>3, Zenon

LEMMA Issued ==
  ASSUME TypesInv, ProvenInv, LastsInv,
         NEW b \in Bases, NEW p \in Hashes, Issue(b, p)
  PROVE  /\ tokens' \subseteq Token /\ opened' \in [Nonces -> Session \cup {NoSession}]
         /\ ProvenInv' /\ LastsInv'
<1>1. PICK n \in FreshNonces :
        /\ tokens' = tokens \cup {TokenFor(n, b)}
        /\ opened' = [opened EXCEPT ![n] = [proven |-> p, straddles |-> p # hash, idle |-> 0,
                                            ended |-> FALSE, excused |-> FALSE]]
  BY Zenon DEF Issue
<1>2. n \in Nonces /\ opened[n] = NoSession
  BY <1>1, Zenon DEF FreshNonces
<1>3. /\ TokenFor(n, b) \in Token
      /\ TokenFor(n, b).nonce = n /\ TokenFor(n, b).left = TTL /\ TokenFor(n, b).hash = hash
  BY <1>2, TokenSigned, Zenon DEF TypesInv
<1>4. PICK s \in BOOLEAN : s = (p # hash)
  OBVIOUS
<1>5. /\ Fresh(p, s) \in Session /\ Fresh(p, s).proven = p /\ Fresh(p, s).straddles = s
      /\ Fresh(p, s).idle = 0
  BY FreshTyped, Zenon
<1>6. opened' = [opened EXCEPT ![n] = Fresh(p, s)]
  BY <1>1, <1>4, Zenon DEF Fresh
<1>7. PICK y : y = Fresh(p, s)
  OBVIOUS
<1>8. y \in Session /\ y.proven = p /\ y.straddles = s /\ y.idle = 0 /\ opened' = [opened EXCEPT ![n] = y]
  BY <1>5, <1>6, <1>7, Zenon
<1>9. /\ opened' \in [Nonces -> Session \cup {NoSession}]
      /\ opened'[n] = y
      /\ \A m \in Nonces : m # n => opened'[m] = opened[m]
  BY <1>2, <1>8, Zenon DEF TypesInv
<1>10. tokens' \subseteq Token
  BY <1>1, <1>3, Zenon DEF TypesInv
<1>11. \A t \in tokens : t.nonce # n /\ t.nonce \in Nonces
  BY <1>2, TokenFields, Zenon DEF ProvenInv, TypesInv
<1>12. y # NoSession /\ (y.proven = hash \/ y.straddles)
  BY <1>4, <1>8, SessionFields, Zenon
<1>13. ProvenInv'
  BY <1>1, <1>3, <1>9, <1>11, <1>12, Zenon DEF ProvenInv
<1>14. TTL + 0 + RenewAfter > TTL
  BY TimesAssumption
<1>15. Young(n)'
  BY <1>1, <1>3, <1>8, <1>9, <1>14, Zenon DEF Young
<1>16. ASSUME NEW m \in Nonces, m # n, opened[m] # NoSession
       PROVE  Young(m)'
  BY <1>1, <1>9, <1>16, Zenon DEF LastsInv, Young
<1>17. LastsInv'
  BY <1>9, <1>15, <1>16, Zenon DEF LastsInv
<1>18. QED
  BY <1>9, <1>10, <1>13, <1>17, Zenon

LEMMA Opened ==
  ASSUME TypesInv, ProvenInv, LastsInv, NEW t \in tokens, OpenPage(t)
  PROVE  /\ tokens' \subseteq Token /\ opened' \in [Nonces -> Session \cup {NoSession}]
         /\ ProvenInv' /\ LastsInv'
<1> DEFINE n == t.nonce
<1>1. t \in Token /\ n \in Nonces /\ t.left \in Lives /\ t.hash = hash
  BY TokenFields, Zenon DEF TypesInv, OpenPage, Guarded, Verifies
<1>2. opened[n] \in Session
  BY <1>1, Zenon DEF ProvenInv, TypesInv
<1>3. 0 \in Lives
  BY TimesAssumption DEF Lives
<1>4. PICK y : y = Idles(opened[n], 0)
  OBVIOUS
<1>5. /\ y \in Session /\ y.proven = opened[n].proven /\ y.straddles = opened[n].straddles
      /\ y.idle = 0 /\ y # NoSession
  <2>1. Idles(opened[n], 0) \in Session /\ Idles(opened[n], 0) # NoSession
    BY <1>2, <1>3, IdlesTyped, SessionFields, Zenon
  <2>2. QED
    BY <1>2, <1>3, <1>4, <2>1, IdlesTyped, Zenon
<1>6. opened' = [opened EXCEPT ![n] = y]
  BY <1>4, Zenon DEF OpenPage, Idles
<1> HIDE DEF n
<1>7. /\ opened' \in [Nonces -> Session \cup {NoSession}]
      /\ opened'[n] = y
      /\ \A m \in Nonces : m # n => opened'[m] = opened[m]
  BY <1>1, <1>5, <1>6, Zenon DEF TypesInv
<1>8. /\ TokenFor(n, base) \in Token /\ TokenFor(n, base).nonce = n
      /\ TokenFor(n, base).left = TTL /\ TokenFor(n, base).hash = hash
  BY <1>1, TokenSigned, Zenon DEF TypesInv
<1>9. \/ Renews(t) /\ tokens' = tokens \cup {TokenFor(n, base)}
      \/ ~Renews(t) /\ tokens' = tokens
  BY Zenon DEF OpenPage, n
<1>10. tokens' \subseteq Token /\ tokens \subseteq tokens'
  BY <1>8, <1>9, Zenon DEF TypesInv
<1>11. opened[n] # NoSession /\ (opened[n].proven = hash \/ opened[n].straddles)
  BY <1>1, Zenon DEF ProvenInv, n
<1>12. \A u \in tokens : u.nonce \in Nonces
  BY TokenFields, Zenon DEF TypesInv
<1>13. ProvenInv'
  <2>1. ASSUME NEW u \in tokens
        PROVE  opened'[u.nonce] # NoSession
               /\ (opened'[u.nonce].proven = u.hash \/ opened'[u.nonce].straddles)
    BY <1>5, <1>7, <1>12, Zenon DEF ProvenInv
  <2>2. QED
    BY <2>1, <1>5, <1>7, <1>8, <1>9, <1>11, Zenon DEF ProvenInv
<1>14. Young(n)'
  <2>1. CASE Renews(t)
    <3>1. TTL + 0 + RenewAfter > TTL
      BY TimesAssumption
    <3>2. QED
      BY <1>5, <1>7, <1>8, <1>9, <2>1, <3>1, Zenon DEF Young
  <2>2. CASE ~Renews(t)
    <3>1. t.left + 0 + RenewAfter > TTL
      BY <1>1, <2>2, TimesAssumption DEF Renews, Lives
    <3>2. QED
      BY <1>5, <1>7, <1>10, <3>1, Zenon DEF Young, n
  <2>3. QED
    BY <2>1, <2>2, Zenon
<1>15. ASSUME NEW m \in Nonces, m # n, opened[m] # NoSession
       PROVE  Young(m)'
  BY <1>7, <1>10, <1>15, Zenon DEF LastsInv, Young
<1>16. LastsInv'
  BY <1>7, <1>14, <1>15, Zenon DEF LastsInv
<1>17. QED
  BY <1>7, <1>10, <1>13, <1>16, Zenon

LEMMA SignsOut ==
  ASSUME TypesInv, NEW t \in tokens, SignOut(t)
  PROVE  Marks
<1> DEFINE all == Append(revoked, [nonce |-> t.nonce, left |-> TTL])
           evicted == {all[i].nonce : i \in {j \in DOMAIN all : all[j].left > 0}} \ NoncesOf(revoked')
           y(n) == [opened[n] EXCEPT !.ended = opened[n].ended \/ n = t.nonce,
                                     !.excused = opened[n].excused \/ n \in evicted]
<1>1. /\ tokens' = tokens
      /\ opened' = [n \in Nonces |-> IF opened[n] = NoSession THEN NoSession ELSE y(n)]
  BY Zenon DEF SignOut
<1>2. ASSUME NEW n \in Nonces, opened[n] # NoSession
      PROVE  /\ y(n) \in Session /\ y(n) # NoSession
             /\ y(n).proven = opened[n].proven
             /\ y(n).straddles = opened[n].straddles
             /\ y(n).idle = opened[n].idle
  <2>1. opened[n] \in Session
    BY <1>2, Zenon DEF TypesInv
  <2>2. PICK a, b \in BOOLEAN : a = (opened[n].ended \/ n = t.nonce) /\ b = (opened[n].excused \/ n \in evicted)
    OBVIOUS
  <2>3. y(n) = Mark(opened[n], a, b)
    BY <2>2, Zenon DEF Mark
  <2>4. Mark(opened[n], a, b) \in Session /\ Mark(opened[n], a, b) # NoSession
    BY <2>1, MarkTyped, SessionFields, Zenon
  <2>5. /\ Mark(opened[n], a, b).proven = opened[n].proven
        /\ Mark(opened[n], a, b).straddles = opened[n].straddles
        /\ Mark(opened[n], a, b).idle = opened[n].idle
    BY <2>1, MarkTyped, Zenon
  <2> HIDE DEF y
  <2>6. QED
    BY <2>3, <2>4, <2>5, Zenon
<1> HIDE DEF y
<1>3. QED
  BY <1>1, <1>2, Zenon DEF Marks

LEMMA Restarts ==
  ASSUME TypesInv, Restart
  PROVE  Marks
<1> DEFINE y(n) == [opened[n] EXCEPT !.excused = opened[n].excused \/ n \notin NoncesOf(revoked')]
<1>1. /\ tokens' = tokens
      /\ \/ opened' = opened
         \/ opened' = [n \in Nonces |-> IF opened[n] = NoSession \/ ~unsaved THEN opened[n] ELSE y(n)]
  BY Zenon DEF Restart
<1>2. ASSUME NEW n \in Nonces, opened[n] # NoSession
      PROVE  /\ y(n) \in Session /\ y(n) # NoSession
             /\ y(n).proven = opened[n].proven
             /\ y(n).straddles = opened[n].straddles
             /\ y(n).idle = opened[n].idle
  <2>1. opened[n] \in Session
    BY <1>2, Zenon DEF TypesInv
  <2>2. PICK b \in BOOLEAN : b = (opened[n].excused \/ n \notin NoncesOf(revoked'))
    OBVIOUS
  <2>3. y(n) = Excuse(opened[n], b)
    BY <2>2, Zenon DEF Excuse
  <2>4. Excuse(opened[n], b) \in Session /\ Excuse(opened[n], b) # NoSession
    BY <2>1, ExcuseTyped, SessionFields, Zenon
  <2>5. /\ Excuse(opened[n], b).proven = opened[n].proven
        /\ Excuse(opened[n], b).straddles = opened[n].straddles
        /\ Excuse(opened[n], b).idle = opened[n].idle
    BY <2>1, ExcuseTyped, Zenon
  <2> HIDE DEF y
  <2>6. QED
    BY <2>3, <2>4, <2>5, Zenon
<1> HIDE DEF y
<1>3. CASE opened' = opened
  BY <1>1, <1>3, Zenon DEF Marks, TypesInv
<1>4. CASE opened' # opened
  BY <1>1, <1>2, <1>4, Zenon DEF Marks, TypesInv
<1>5. QED
  BY <1>3, <1>4

Older(idle) == IF idle < TTL THEN idle + 1 ELSE TTL

LEMMA Ages ==
  ASSUME NEW idle \in Lives
  PROVE  /\ Older(idle) \in Lives
         /\ idle + RenewAfter > TTL => Older(idle) + RenewAfter > TTL
         /\ \A left \in Lives :
              left > 0 /\ left + idle + RenewAfter > TTL => left - 1 + Older(idle) + RenewAfter > TTL
         /\ \A left \in Lives :
              ~(left > 0) /\ left + idle + RenewAfter > TTL => idle + RenewAfter > TTL
BY TimesAssumption DEF Lives, Older

\* A tick takes as much from a cookie as it adds to the age of its session.
LEMMA Ticked ==
  ASSUME TypesInv, ProvenInv, LastsInv, Tick
  PROVE  /\ tokens' \subseteq Token /\ opened' \in [Nonces -> Session \cup {NoSession}]
         /\ ProvenInv' /\ LastsInv'
<1> DEFINE kept == {t \in tokens : t.left > 0}
           older(t) == [t EXCEPT !.left = t.left - 1]
           y(n) == [opened[n] EXCEPT !.idle = Older(opened[n].idle)]
<1>1. /\ tokens' = {older(t) : t \in kept}
      /\ opened' = [n \in Nonces |-> IF n \notin {t.nonce : t \in kept} THEN NoSession ELSE y(n)]
  BY Zenon DEF Tick, Older
<1>2. ASSUME NEW t \in kept
      PROVE  /\ t \in tokens /\ t \in Token /\ t.left > 0 /\ t.left \in Lives
             /\ older(t) \in Token /\ older(t).nonce = t.nonce /\ older(t).hash = t.hash
             /\ older(t).left = t.left - 1
             /\ opened[t.nonce] \in Session /\ t.nonce \in Nonces
  <2>1. t \in tokens /\ t \in Token /\ t.left > 0 /\ t.left \in Lives /\ t.nonce \in Nonces
    BY TokenFields, Zenon DEF TypesInv
  <2>2. PICK l \in Lives : l = t.left - 1
    BY <2>1, TimesAssumption DEF Lives
  <2>3. opened[t.nonce] \in Session
    BY <2>1, Zenon DEF TypesInv, ProvenInv
  <2>4. older(t) = Expires(t, l)
    BY <2>2, Zenon DEF Expires
  <2>5. /\ Expires(t, l) \in Token /\ Expires(t, l).nonce = t.nonce
        /\ Expires(t, l).hash = t.hash /\ Expires(t, l).left = l
    BY <2>1, ExpiresTyped, Zenon
  <2> HIDE DEF older
  <2>6. QED
    BY <2>1, <2>2, <2>3, <2>4, <2>5, Zenon
<1>3. ASSUME NEW n \in Nonces, opened[n] \in Session
      PROVE  /\ y(n) \in Session /\ y(n) # NoSession
             /\ y(n).proven = opened[n].proven /\ y(n).straddles = opened[n].straddles
             /\ y(n).idle = Older(opened[n].idle) /\ opened[n].idle \in Lives
  <2>1. opened[n].idle \in Lives
    BY <1>3, SessionFields, Zenon
  <2>2. PICK a \in Lives : a = Older(opened[n].idle)
    BY <2>1, Ages, Zenon
  <2>3. y(n) = Idles(opened[n], a)
    BY <2>2, Zenon DEF Idles
  <2>4. Idles(opened[n], a) \in Session /\ Idles(opened[n], a) # NoSession
    BY <1>3, IdlesTyped, SessionFields, Zenon
  <2>5. /\ Idles(opened[n], a).proven = opened[n].proven
        /\ Idles(opened[n], a).straddles = opened[n].straddles
        /\ Idles(opened[n], a).idle = a
    BY <1>3, IdlesTyped, Zenon
  <2> HIDE DEF y
  <2>6. QED
    BY <2>3, <2>4, <2>5, <2>1, <2>2, Zenon
<1>4. ASSUME NEW t \in kept
      PROVE  opened'[t.nonce] = y(t.nonce)
  <2> HIDE DEF y
  <2>1. QED
    BY <1>1, <1>2, <1>4, Zenon
<1>5. ASSUME NEW n \in Nonces, opened'[n] # NoSession
      PROVE  opened'[n] = y(n) /\ \E t \in kept : t.nonce = n
  <2> HIDE DEF y
  <2>1. QED
    BY <1>1, <1>5, Zenon
<1>6. ASSUME NEW t \in tokens, t \notin kept
      PROVE  ~(t.left > 0)
  BY <1>6, Zenon
<1> HIDE DEF kept, older, y
<1>9. tokens' \subseteq Token
  BY <1>1, <1>2, Zenon
<1>10. opened' \in [Nonces -> Session \cup {NoSession}]
  <2>1. \A n \in {t.nonce : t \in kept} : opened[n] \in Session
    BY <1>2, Zenon
  <2>2. QED
    BY <1>1, <1>3, <2>1, Zenon
<1>11. ProvenInv'
  <2>1. ASSUME NEW t \in kept
        PROVE  /\ opened'[t.nonce] # NoSession
               /\ opened'[t.nonce].proven = t.hash \/ opened'[t.nonce].straddles
    <3>1. /\ opened'[t.nonce] # NoSession
          /\ opened'[t.nonce].proven = opened[t.nonce].proven
          /\ opened'[t.nonce].straddles = opened[t.nonce].straddles
      <4>1. opened'[t.nonce] = y(t.nonce) /\ t.nonce \in Nonces /\ opened[t.nonce] \in Session
        BY <1>2, <1>4, <2>1, Zenon
      <4>2. QED
        BY <1>3, <4>1, Zenon
    <3>2. opened[t.nonce].proven = t.hash \/ opened[t.nonce].straddles
      BY <1>2, <2>1, Zenon DEF ProvenInv
    <3>3. QED
      BY <3>1, <3>2, Zenon
  <2>2. ASSUME NEW u \in tokens'
        PROVE  /\ opened'[u.nonce] # NoSession
               /\ opened'[u.nonce].proven = u.hash \/ opened'[u.nonce].straddles
    <3>1. PICK t \in kept : u = older(t)
      BY <1>1, <2>2, Zenon
    <3>2. u.nonce = t.nonce /\ u.hash = t.hash
      BY <1>2, <3>1, Zenon
    <3>3. QED
      BY <2>1, <3>1, <3>2, Zenon
  <2>3. QED
    BY <2>2, Zenon DEF ProvenInv
<1>12. LastsInv'
  <2>1. SUFFICES ASSUME NEW n \in Nonces, opened'[n] # NoSession
                 PROVE  Young(n)'
    BY Zenon DEF LastsInv
  <2>2. PICK w \in kept : w.nonce = n
    BY <1>5, <2>1, Zenon
  <2>3. /\ opened[n] \in Session /\ opened[n] # NoSession /\ opened[n].idle \in Lives
        /\ opened'[n].idle = Older(opened[n].idle)
    BY <1>2, <1>3, <1>5, <2>1, <2>2, SessionFields, Zenon
  <2>4. CASE opened[n].idle + RenewAfter > TTL
    BY <2>3, <2>4, Ages, Zenon DEF Young
  <2>5. ASSUME NEW t \in tokens, t.nonce = n, t.left + opened[n].idle + RenewAfter > TTL
        PROVE  Young(n)'
    <3>1. t.left \in Lives
      BY TokenFields, Zenon DEF TypesInv
    <3>2. CASE t \notin kept
      BY <1>6, <2>3, <2>4, <2>5, <3>1, <3>2, Ages, Zenon
    <3>3. CASE t \in kept
      <4>1. t.left - 1 + Older(opened[n].idle) + RenewAfter > TTL
        BY <1>2, <2>3, <2>5, <3>1, <3>3, Ages, Zenon
      <4>2. older(t) \in tokens' /\ older(t).nonce = n /\ older(t).left = t.left - 1
        BY <1>1, <1>2, <2>5, <3>3, Zenon
      <4>3. QED
        BY <2>3, <4>1, <4>2, Zenon DEF Young
    <3>4. QED
      BY <3>2, <3>3, Zenon
  <2>6. QED
    BY <2>3, <2>4, <2>5, Zenon DEF LastsInv, Young
<1>13. QED
  BY <1>9, <1>10, <1>11, <1>12, Zenon

-----------------------------------------------------------------------------
(* The types of what a session is made from.                               *)

LEMMA AttemptCases ==
  ASSUME NEW x \in Attempt, x.pc = "checking"
  PROVE  x.against \in Hashes
<1>1. "idle" # "checking" /\ "posted" # "checking"
  OBVIOUS
<1>2. Idle.pc = "idle" /\ [pc |-> "posted"].pc = "posted"
  BY DEF Idle
<1>3. x # Idle /\ x # [pc |-> "posted"]
  BY <1>1, <1>2
<1>4. x \in Checks
  BY <1>3, Zenon DEF Attempt, Checks
<1>5. QED
  BY <1>4, Zenon DEF Checks

LEMMA ChangeCases ==
  ASSUME NEW x \in Change, x.pc # "idle"
  PROVE  x.new \in Hashes /\ [x EXCEPT !.pc = "reloading"] \in Change
         /\ [x EXCEPT !.pc = "finishing"] \in Change
<1>1. x \in Changes
  <2>1. Idle.pc = "idle"
    BY DEF Idle
  <2>2. x # Idle
    BY <2>1
  <2>3. QED
    BY <2>2, Zenon DEF Change, Changes
<1>2. x.new \in Hashes
  BY <1>1, Zenon DEF Changes
<1>3. [x EXCEPT !.pc = "reloading"] \in Changes /\ [x EXCEPT !.pc = "finishing"] \in Changes
  BY <1>1, Zenon DEF Changes
<1>4. QED
  BY <1>2, <1>3, Zenon DEF Change, Changes

\* What the types and the invariants say of a step that leaves cookies and sessions alone.
LEMMA Still ==
  ASSUME TypesInv, ProvenInv, LastsInv, UNCHANGED <<tokens, opened>>
  PROVE  /\ tokens' \subseteq Token /\ opened' \in [Nonces -> Session \cup {NoSession}]
         /\ ProvenInv' /\ LastsInv'
BY Zenon DEF TypesInv, ProvenInv, LastsInv, Young

LEMMA Moved ==
  ASSUME TypesInv, ProvenInv, LastsInv, Marks
  PROVE  /\ tokens' \subseteq Token /\ opened' \in [Nonces -> Session \cup {NoSession}]
         /\ ProvenInv' /\ LastsInv'
BY Marked, Zenon DEF TypesInv, Marks

LEMMA IInvStep == IInv /\ [Next]_vars => IInv'
<1> SUFFICES ASSUME TypesInv, ProvenInv, LastsInv, [Next]_vars PROVE IInv'
  BY Zenon DEF IInv
<1> USE DEF IInv
<1>1. /\ stored \in Hashes \cup {NoHash} /\ hash \in Hashes \cup {NoHash} /\ base \in Bases
      /\ disk = NoFile \/ disk.base \in Bases
      /\ attempts \in [Attempts -> Attempt] /\ change \in Change
  BY Zenon DEF TypesInv
<1>2. Idle \in Attempt /\ Idle \in Change /\ [pc |-> "posted"] \in Attempt
  BY Zenon DEF Attempt, Change
<1>3. "checking" # "idle" /\ "saving" # "idle" /\ "reloading" # "idle" /\ "finishing" # "idle"
  OBVIOUS
<1>4. ASSUME NEW a \in Attempts, Post(a)
      PROVE  IInv'
  <2>1. attempts' \in [Attempts -> Attempt]
    BY <1>1, <1>2, <1>4, Zenon DEF Post
  <2>2. UNCHANGED <<stored, hash, base, disk, tokens, opened, change>>
    BY <1>4, Zenon DEF Post, secrets
  <2>3. QED
    BY <1>1, <2>1, <2>2, Still, Zenon DEF TypesInv
<1>5. ASSUME NEW a \in Attempts, Read(a)
      PROVE  IInv'
  <2>1. UNCHANGED <<stored, hash, base, disk, tokens, opened, change>>
    BY <1>5, Zenon DEF Read, secrets
  <2>2. attempts' \in [Attempts -> Attempt]
    <3>1. CASE hash = NoHash
      BY <1>1, <1>2, <1>5, <3>1, Zenon DEF Read
    <3>2. CASE hash # NoHash
      <4>1. PICK right \in BOOLEAN :
              attempts' = [attempts EXCEPT ![a] = [pc |-> "checking", against |-> hash, right |-> right]]
        BY <1>5, <3>2, Zenon DEF Read
      <4>2. [pc |-> "checking", against |-> hash, right |-> right] \in Attempt
        BY <1>1, <3>2, Zenon DEF Attempt
      <4>3. QED
        BY <1>1, <4>1, <4>2, Zenon
    <3>3. QED
      BY <3>1, <3>2
  <2>3. QED
    BY <1>1, <2>1, <2>2, Still, Zenon DEF TypesInv
<1>6. ASSUME NEW a \in Attempts, Reject(a)
      PROVE  IInv'
  <2>1. UNCHANGED <<stored, hash, base, disk, tokens, opened, change>>
    BY <1>6, Zenon DEF Reject, secrets
  <2>2. attempts' \in [Attempts -> Attempt]
    BY <1>1, <1>2, <1>6, Zenon DEF Reject
  <2>3. QED
    BY <1>1, <2>1, <2>2, Still, Zenon DEF TypesInv
<1>7. ASSUME NEW a \in Attempts, Accept(a)
      PROVE  IInv'
  <2>1. UNCHANGED <<stored, hash, base, disk, change>>
    BY <1>7, Zenon DEF Accept, secrets
  <2>2. attempts' \in [Attempts -> Attempt]
    BY <1>1, <1>2, <1>7, Zenon DEF Accept
  <2>3. attempts[a].against \in Hashes /\ Issue(base, attempts[a].against)
    BY <1>1, <1>7, AttemptCases, Zenon DEF Accept
  <2>4. /\ tokens' \subseteq Token /\ opened' \in [Nonces -> Session \cup {NoSession}]
        /\ ProvenInv' /\ LastsInv'
    BY <1>1, <2>3, Issued, Zenon
  <2>5. QED
    BY <1>1, <2>1, <2>2, <2>4, Zenon DEF TypesInv
<1>8. ASSUME NEW t \in tokens, OpenPage(t)
      PROVE  IInv'
  <2>1. UNCHANGED <<stored, hash, base, disk, attempts, change>>
    BY <1>8, Zenon DEF OpenPage, secrets, routes
  <2>2. QED
    BY <1>1, <1>8, <2>1, Opened, Zenon DEF TypesInv
<1>9. ASSUME base' \in Bases, Persist
      PROVE  disk' = NoFile \/ disk'.base \in Bases
  <2>1. CASE disk' = disk
    BY <1>1, <2>1, Zenon
  <2>2. CASE disk' = [base |-> base', revoked |-> revoked']
    <3>1. disk'.base = base'
      BY <2>2
    <3>2. QED
      BY <1>9, <3>1, Zenon
  <2>3. QED
    BY <1>9, <2>1, <2>2, Zenon DEF Persist
<1>10. ASSUME NEW t \in tokens, SignOut(t)
       PROVE  IInv'
  <2>1. UNCHANGED <<stored, hash, base, attempts, change>> /\ Persist
    BY <1>10, Zenon DEF SignOut, routes
  <2>2. QED
    BY <1>1, <1>9, <1>10, <2>1, SignsOut, Moved, Zenon DEF TypesInv
<1>11. CASE StartChange
  <2>1. UNCHANGED <<stored, hash, base, disk, tokens, opened, attempts>>
    BY <1>11, Zenon DEF StartChange, secrets
  <2>2. PICK h \in FreshHashes :
          change' = [pc |-> "saving", claim |-> hash = NoHash, expected |-> hash, new |-> h]
    BY <1>11, Zenon DEF StartChange
  <2>3. h \in Hashes
    BY <2>2, Zenon DEF FreshHashes
  <2>4. PICK c \in BOOLEAN : c = (hash = NoHash)
    OBVIOUS
  <2>5. change' = [pc |-> "saving", claim |-> c, expected |-> hash, new |-> h]
    BY <2>2, <2>4, Zenon
  <2>6. change' \in Change
    BY <1>1, <2>3, <2>5, Zenon DEF Change
  <2>7. QED
    BY <1>1, <2>1, <2>6, Still, Zenon DEF TypesInv
<1>12. CASE SaveChange
  <2>1. UNCHANGED <<base, disk, tokens, opened, attempts>> /\ change.pc # "idle"
    BY <1>3, <1>12, Zenon DEF SaveChange
  <2>2. change' \in Change
    BY <1>1, <1>2, <1>12, <2>1, ChangeCases, Zenon DEF SaveChange
  <2>3. stored' \in Hashes \cup {NoHash} /\ hash' \in Hashes \cup {NoHash}
    BY <1>1, <1>12, <2>1, ChangeCases, Zenon DEF SaveChange
  <2>4. QED
    BY <1>1, <2>1, <2>2, <2>3, Still, Zenon DEF TypesInv
<1>13. CASE ReloadChange
  <2>1. UNCHANGED <<stored, base, disk, tokens, opened, attempts>> /\ change.pc # "idle"
    BY <1>3, <1>13, Zenon DEF ReloadChange
  <2>2. change' \in Change /\ hash' \in Hashes \cup {NoHash}
    BY <1>1, <1>2, <1>13, <2>1, ChangeCases, Zenon DEF ReloadChange
  <2>3. QED
    BY <1>1, <2>1, <2>2, Still, Zenon DEF TypesInv
<1>14. CASE FinishChange
  <2>1. /\ UNCHANGED <<stored, hash, attempts>> /\ Persist /\ change' = Idle
        /\ change.pc # "idle" /\ base' \in Bases
        /\ Issue(base', change.new)
    BY <1>3, <1>14, Zenon DEF FinishChange, FreshBases
  <2>2. /\ tokens' \subseteq Token /\ opened' \in [Nonces -> Session \cup {NoSession}]
        /\ ProvenInv' /\ LastsInv'
    BY <1>1, <2>1, ChangeCases, Issued, Zenon
  <2>3. QED
    BY <1>1, <1>2, <1>9, <2>1, <2>2, Zenon DEF TypesInv
<1>15. CASE FinishClaim
  <2>1. /\ UNCHANGED <<stored, hash, base, disk, attempts>> /\ change' = Idle
        /\ change.pc # "idle"
        /\ Issue(base, change.new)
    BY <1>3, <1>15, Zenon DEF FinishClaim, secrets
  <2>2. /\ tokens' \subseteq Token /\ opened' \in [Nonces -> Session \cup {NoSession}]
        /\ ProvenInv' /\ LastsInv'
    BY <1>1, <2>1, ChangeCases, Issued, Zenon
  <2>3. QED
    BY <1>1, <1>2, <2>1, <2>2, Zenon DEF TypesInv
<1>16. CASE HandEdit \/ LoseFile \/ Reload
  <2>1. /\ stored' \in Hashes \cup {NoHash} /\ hash' \in Hashes \cup {NoHash}
        /\ disk' = NoFile \/ disk' = disk
        /\ UNCHANGED <<base, tokens, opened, attempts, change>>
    BY <1>1, <1>16, Zenon DEF HandEdit, LoseFile, Reload, routes
  <2>2. QED
    BY <1>1, <2>1, Still, Zenon DEF TypesInv
<1>17. CASE Restart
  <2>1. /\ stored' = stored /\ hash' = stored /\ change' = Idle
        /\ attempts' = [a \in Attempts |-> Idle]
    BY <1>17, Zenon DEF Restart
  <2>2. base' \in Bases /\ (disk' = NoFile \/ disk'.base \in Bases)
    BY <1>1, <1>9, <1>17, Zenon DEF Restart, FreshBases
  <2>3. attempts' \in [Attempts -> Attempt]
    BY <1>2, <2>1, Zenon
  <2>4. QED
    BY <1>1, <1>2, <1>17, <2>1, <2>2, <2>3, Restarts, Moved, Zenon DEF TypesInv
<1>18. CASE Tick
  <2>1. UNCHANGED <<stored, hash, base, attempts, change>>
    BY <1>18, Zenon DEF Tick
  <2>2. disk' = NoFile \/ disk'.base \in Bases
    <3>1. CASE disk = NoFile
      BY <1>18, <3>1, Zenon DEF Tick
    <3>2. CASE disk # NoFile
      <4>1. disk' = [disk EXCEPT !.revoked = Aged(disk.revoked)]
        BY <1>18, <3>2, Zenon DEF Tick
      <4>2. disk'.base = disk.base
        BY <4>1
      <4>3. QED
        BY <1>1, <3>2, <4>2, Zenon
    <3>3. QED
      BY <3>1, <3>2
  <2>3. QED
    BY <1>1, <1>18, <2>1, <2>2, Ticked, Zenon DEF TypesInv
<1>19. CASE UNCHANGED vars
  BY <1>1, <1>19, Still, Zenon DEF vars, secrets, routes, TypesInv
<1>20. QED
  BY <1>4, <1>5, <1>6, <1>7, <1>8, <1>10, <1>11, <1>12, <1>13, <1>14, <1>15, <1>16, <1>17, <1>18, <1>19,
     Zenon DEF Next, SignIn, Present, ChangePassword, Environment

LEMMA IInvInit == Init => IInv
<1> SUFFICES ASSUME Init PROVE IInv
  OBVIOUS
<1>1. Idle \in Attempt /\ Idle \in Change
  BY Zenon DEF Attempt, Change
<1>2. disk.base = base
  BY DEF Init
<1>3. \A n \in Nonces : opened[n] = NoSession
  BY Zenon DEF Init
<1>4. TypesInv
  BY <1>1, <1>2, Zenon DEF Init, TypesInv
<1>5. ProvenInv /\ LastsInv
  BY <1>3, Zenon DEF Init, ProvenInv, LastsInv
<1>6. QED
  BY <1>4, <1>5, Zenon DEF IInv

LEMMA Invariant == Spec => []IInv
BY IInvInit, IInvStep, PTL DEF Spec

(* A cookie that opens a page is of somebody who got in with the password  *)
(* in force, however changes, resets, reloads and restarts overlap         *)
(* (core/session.ts:152), or whose check was under way during a change.    *)
THEOREM NobodyOnAnOldPassword == Spec => []OnlyCurrentPassword
<1>1. IInv => OnlyCurrentPassword
  BY Zenon DEF IInv, ProvenInv, OnlyCurrentPassword, Guarded, Verifies
<1>2. QED
  BY <1>1, Invariant, PTL

(* Of a session whose last page is recent enough some cookie is alive,     *)
(* whichever of its cookies that page was opened with                      *)
(* (core/session.ts:203).                                                  *)
THEOREM SessionsLast == Spec => []LastsFromLastPage
<1>1. ASSUME IInv, NEW n \in Nonces, opened[n] # NoSession, opened[n].idle + RenewAfter <= TTL
      PROVE  \E t \in tokens : t.nonce = n /\ t.left > 0
  <2>1. opened[n].idle \in Lives
    BY <1>1, SessionFields, Zenon DEF IInv, TypesInv
  <2>2. ~(opened[n].idle + RenewAfter > TTL)
    BY <1>1, <2>1, TimesAssumption DEF Lives
  <2>3. PICK t \in tokens : t.nonce = n /\ t.left + opened[n].idle + RenewAfter > TTL
    BY <1>1, <2>2, Zenon DEF IInv, LastsInv, Young
  <2>4. t.left \in Lives
    BY <1>1, <2>3, TokenFields, Zenon DEF IInv, TypesInv
  <2>5. t.left > 0
    BY <1>1, <2>1, <2>3, <2>4, TimesAssumption DEF Lives
  <2>6. QED
    BY <2>3, <2>5
<1>2. IInv => LastsFromLastPage
  BY <1>1, Zenon DEF LastsFromLastPage
<1>3. QED
  BY <1>2, Invariant, PTL

-----------------------------------------------------------------------------
(* Recursive functions.                                                    *)

\* The order of the naturals is well founded.
LEMMA Least ==
  ASSUME NEW S \in SUBSET Nat, S # {}
  PROVE  \E n \in S : \A m \in S : n <= m
<1> DEFINE R == {p \in Nat \X Nat : p[1] < p[2]}
<1>1. IsWellFoundedOn(R, Nat)
  BY NatLessThanWellFounded, Zenon DEF OpToRel
<1>2. ASSUME NEW m \in Nat, NEW n \in Nat, <<m, n>> \notin R
      PROVE  n <= m
  BY <1>2
<1> HIDE DEF R
<1>3. PICK n \in S : \A m \in S : <<m, n>> \notin R
  BY <1>1, WFMin, Zenon
<1>4. QED
  BY <1>2, <1>3, Zenon

\* Induction over 0..N, for a property given as the set of what has it.
LEMMA UpTo ==
  ASSUME NEW N \in Nat, NEW S, 0 \in S, \A n \in 1..N : n - 1 \in S => n \in S
  PROVE  0..N \subseteq S
<1> DEFINE C == (0..N) \ S
<1>1. SUFFICES ASSUME C # {} PROVE FALSE
  BY Zenon
<1>2. C \in SUBSET Nat
  OBVIOUS
<1>3. PICK n \in C : \A m \in C : n <= m
  BY <1>1, <1>2, Least, Zenon
<1>4. n \in 1..N /\ n - 1 \in 0..N /\ ~(n <= n - 1)
  <2>1. n \in 0..N /\ n # 0
    BY <1>3, Zenon
  <2>2. QED
    BY <2>1
<1>5. n - 1 \in S
  BY <1>3, <1>4, Zenon
<1>6. QED
  BY <1>3, <1>4, <1>5, Zenon

\* A function of 0..N that starts at v and goes on by step.  The sets have names so that
\* the lemma can be used of any of them.
Tables(N, V) == [0..N -> V]

Steps(N, V) == [(1..N) \X V -> V]

Iterates(f, v, step, N) == f[0] = v /\ \A n \in 1..N : f[n] = step[<<n, f[n - 1]>>]

LEMMA Recursion ==
  ASSUME NEW N \in Nat, NEW V, NEW v \in V, NEW step \in Steps(N, V)
  PROVE  \E f \in Tables(N, V) : Iterates(f, v, step, N)
<1> USE DEF Steps
<1> DEFINE Def(k, f) == f[0] = v /\ \A n \in 1..k : f[n] = step[<<n, f[n - 1]>>]
           S == {k \in 0..N : \E f \in [0..k -> V] : Def(k, f)}
<1>1. 0 \in S
  <2>1. PICK f : f = [n \in 0..0 |-> v]
    OBVIOUS
  <2>2. f \in [0..0 -> V] /\ Def(0, f) /\ 0 \in 0..N
    BY <2>1
  <2>3. QED
    BY <2>2, Zenon
<1>2. ASSUME NEW k \in 1..N, k - 1 \in S
      PROVE  k \in S
  <2>1. PICK f \in [0..(k - 1) -> V] : Def(k - 1, f)
    BY <1>2, Zenon
  <2>2. PICK g : g = [n \in 0..k |-> IF n = k THEN step[<<k, f[k - 1]>>] ELSE f[n]]
    OBVIOUS
  <2>3. \A n \in 0..(k - 1) : n \in 0..k /\ n # k
    OBVIOUS
  <2>4. \A n \in 0..k : n = k \/ n \in 0..(k - 1)
    OBVIOUS
  <2>5. \A n \in 0..(k - 1) : g[n] = f[n] /\ f[n] \in V
    BY <2>1, <2>2, <2>3, Zenon
  <2>6. k \in 0..k /\ k - 1 \in 0..(k - 1) /\ 0 \in 0..(k - 1) /\ k \in 0..N
    OBVIOUS
  <2>7. step[<<k, f[k - 1]>>] \in V
    <3>1. <<k, f[k - 1]>> \in (1..N) \X V
      BY <2>5, <2>6, Zenon
    <3>2. QED
      BY <3>1, Zenon
  <2>8. g[k] = step[<<k, g[k - 1]>>]
    BY <2>2, <2>5, <2>6, Zenon
  <2>9. g \in [0..k -> V]
    BY <2>2, <2>4, <2>5, <2>7, Zenon
  <2>10. ASSUME NEW n \in 1..k
         PROVE  g[n] = step[<<n, g[n - 1]>>]
    <3>1. CASE n = k
      BY <2>8, <3>1, Zenon
    <3>2. CASE n # k
      <4>1. n \in 0..(k - 1) /\ n \in 1..(k - 1) /\ n - 1 \in 0..(k - 1)
        BY <3>2
      <4>2. QED
        BY <2>1, <2>5, <4>1, Zenon
    <3>3. QED
      BY <3>1, <3>2
  <2>11. Def(k, g)
    BY <2>1, <2>5, <2>6, <2>10, Zenon
  <2>12. QED
    BY <2>6, <2>9, <2>11, Zenon
<1> HIDE DEF S, Def
<1>3. 0..N \subseteq S
  BY <1>1, <1>2, UpTo, Zenon
<1>4. N \in 0..N
  OBVIOUS
<1>5. QED
  BY <1>3, <1>4, Zenon DEF S, Def, Tables, Iterates

\* What is proved of a recursive function starts from its equation.
LEMMA DoubledEq ==
  Doubled = [n \in 0..MaxFailures |-> IF n = 0 THEN 1 ELSE 2 * Doubled[n - 1]]
<1>1. MaxFailures \in Nat /\ 1 \in Nat
  BY TimesAssumption
<1>2. PICK step : step = [p \in (1..MaxFailures) \X Nat |-> 2 * p[2]]
  OBVIOUS
<1>3. step \in Steps(MaxFailures, Nat)
  BY <1>2 DEF Steps
<1>4. PICK f \in Tables(MaxFailures, Nat) : Iterates(f, 1, step, MaxFailures)
  BY <1>1, <1>3, Recursion, Zenon
<1> USE DEF Tables, Iterates
<1>5. ASSUME NEW n \in 0..MaxFailures
      PROVE  f[n] = IF n = 0 THEN 1 ELSE 2 * f[n - 1]
  <2>1. CASE n = 0
    BY <1>4, <2>1, Zenon
  <2>2. CASE n # 0
    <3>1. n \in 1..MaxFailures /\ n - 1 \in 0..MaxFailures
      BY <2>2, <1>1
    <3>2. <<n, f[n - 1]>> \in (1..MaxFailures) \X Nat
      BY <1>4, <3>1, Zenon
    <3>3. step[<<n, f[n - 1]>>] = 2 * f[n - 1]
      BY <1>2, <3>2
    <3>4. QED
      BY <1>4, <2>2, <3>1, <3>3, Zenon
  <2>3. QED
    BY <2>1, <2>2
<1>6. f = [n \in 0..MaxFailures |-> IF n = 0 THEN 1 ELSE 2 * f[n - 1]]
  BY <1>4, <1>5, Zenon
<1>7. QED
  BY <1>6, Zenon DEF Doubled

LEMMA DoubledType ==
  ASSUME NEW n \in 0..MaxFailures
  PROVE  Doubled[n] \in Nat /\ Doubled[n] >= 1
<1> DEFINE S == {m \in 0..MaxFailures : Doubled[m] \in Nat /\ Doubled[m] >= 1}
<1>1. MaxFailures \in Nat /\ 0 \in 0..MaxFailures
  BY TimesAssumption
<1>2. 0 \in S
  <2>1. Doubled[0] = 1
    BY <1>1, DoubledEq, Zenon
  <2>2. QED
    BY <1>1, <2>1
<1>3. ASSUME NEW m \in 1..MaxFailures, m - 1 \in S
      PROVE  m \in S
  <2>1. m \in 0..MaxFailures /\ m # 0
    BY <1>1
  <2>2. Doubled[m] = 2 * Doubled[m - 1]
    BY <2>1, DoubledEq, Zenon
  <2>3. PICK d : d = Doubled[m - 1]
    OBVIOUS
  <2>4. d \in Nat /\ d >= 1
    BY <1>3, <2>3, Zenon
  <2>5. 2 * d \in Nat /\ 2 * d >= 1
    BY <2>4
  <2>6. QED
    BY <2>1, <2>2, <2>3, <2>5, Zenon
<1> HIDE DEF S
<1>4. 0..MaxFailures \subseteq S
  BY <1>1, <1>2, <1>3, UpTo, Zenon
<1>5. QED
  BY <1>4, Zenon DEF S

LEMMA DelayType ==
  ASSUME NEW n \in 0..MaxFailures
  PROVE  Delay(n) \in 0..MaxDelay
<1>1. PICK d : d = Doubled[n]
  OBVIOUS
<1>2. d \in Nat
  BY <1>1, DoubledType, Zenon
<1>3. QED
  BY <1>1, <1>2, TimesAssumption DEF Delay

LEMMA PenaltyEq ==
  Penalty = [n \in 0..MaxFailures |-> IF n = 0 THEN 0 ELSE Penalty[n - 1] + Delay(n - 1)]
<1>1. MaxFailures \in Nat /\ 0 \in Nat
  BY TimesAssumption
<1>2. PICK step : step = [p \in (1..MaxFailures) \X Nat |-> p[2] + Delay(p[1] - 1)]
  OBVIOUS
<1>3. step \in Steps(MaxFailures, Nat)
  <2>1. ASSUME NEW p \in (1..MaxFailures) \X Nat
        PROVE  p[2] + Delay(p[1] - 1) \in Nat
    <3>1. p[1] - 1 \in 0..MaxFailures /\ p[2] \in Nat
      BY <1>1
    <3>2. Delay(p[1] - 1) \in 0..MaxDelay
      BY <3>1, DelayType, Zenon
    <3>3. QED
      BY <3>1, <3>2, TimesAssumption
  <2>2. QED
    BY <1>2, <2>1, Zenon DEF Steps
<1>4. PICK f \in Tables(MaxFailures, Nat) : Iterates(f, 0, step, MaxFailures)
  BY <1>1, <1>3, Recursion, Zenon
<1>5. ASSUME NEW n \in 0..MaxFailures
      PROVE  f[n] = IF n = 0 THEN 0 ELSE f[n - 1] + Delay(n - 1)
  <2>1. CASE n = 0
    BY <1>4, <2>1, Zenon DEF Iterates
  <2>2. CASE n # 0
    <3>1. n \in 1..MaxFailures /\ n - 1 \in 0..MaxFailures
      BY <2>2, <1>1
    <3>2. PICK p : p = <<n, f[n - 1]>>
      OBVIOUS
    <3>3. p \in (1..MaxFailures) \X Nat
      BY <1>4, <3>1, <3>2, Zenon DEF Tables
    <3>4. step[p] = p[2] + Delay(p[1] - 1)
      BY <1>2, <3>3, Zenon
    <3>5. p[1] = n /\ p[2] = f[n - 1]
      BY <3>2
    <3>6. QED
      BY <1>4, <2>2, <3>1, <3>2, <3>4, <3>5, Zenon DEF Iterates
  <2>3. QED
    BY <2>1, <2>2
<1>6. f = [n \in 0..MaxFailures |-> IF n = 0 THEN 0 ELSE f[n - 1] + Delay(n - 1)]
  BY <1>4, <1>5, Zenon DEF Tables
<1>7. QED
  BY <1>6, Zenon DEF Penalty

LEMMA PenaltyStep ==
  /\ DOMAIN Penalty = 0..MaxFailures
  /\ Penalty[0] = 0
  /\ \A n \in 1..MaxFailures : Penalty[n] = Penalty[n - 1] + Delay(n - 1)
<1>1. 0 \in 0..MaxFailures /\ \A n \in 1..MaxFailures : n \in 0..MaxFailures /\ n # 0
  BY TimesAssumption
<1>2. QED
  BY <1>1, PenaltyEq, Zenon

\* What is paid only grows with the failures.
LEMMA PenaltyGrows ==
  ASSUME NEW n \in 0..MaxFailures
  PROVE  Penalty[n] \in Nat /\ \A m \in 0..n : Penalty[m] <= Penalty[n]
<1> DEFINE S == {k \in 0..MaxFailures :
                   /\ Penalty[k] \in Nat
                   /\ \A m \in 0..k : Penalty[m] \in Nat /\ Penalty[m] <= Penalty[k]}
<1>1. MaxFailures \in Nat /\ 0 \in 0..MaxFailures
  BY TimesAssumption
<1>2. 0 \in S
  BY <1>1, PenaltyStep
<1>3. ASSUME NEW k \in 1..MaxFailures, k - 1 \in S
      PROVE  k \in S
  <2>1. k \in 0..MaxFailures /\ k - 1 \in 0..MaxFailures
    BY <1>1
  <2>2. PICK d \in 0..MaxDelay : d = Delay(k - 1)
    BY <2>1, DelayType, Zenon
  <2>3. Penalty[k] = Penalty[k - 1] + d
    BY <2>2, PenaltyStep, Zenon
  <2>4. Penalty[k - 1] \in Nat /\ \A m \in 0..(k - 1) : Penalty[m] \in Nat /\ Penalty[m] <= Penalty[k - 1]
    BY <1>3, Zenon
  <2>5. Penalty[k] \in Nat /\ Penalty[k - 1] <= Penalty[k]
    BY <2>2, <2>3, <2>4, TimesAssumption
  <2>6. ASSUME NEW m \in 0..k
        PROVE  Penalty[m] \in Nat /\ Penalty[m] <= Penalty[k]
    <3>1. CASE m = k
      BY <2>5, <3>1
    <3>2. CASE m # k
      <4>1. m \in 0..(k - 1)
        BY <3>2
      <4>2. Penalty[m] \in Nat /\ Penalty[m] <= Penalty[k - 1]
        BY <2>4, <4>1, Zenon
      <4>3. QED
        BY <2>4, <2>5, <4>2
    <3>3. QED
      BY <3>1, <3>2
  <2>7. QED
    BY <2>1, <2>5, <2>6, Zenon
<1> HIDE DEF S
<1>4. 0..MaxFailures \subseteq S
  BY <1>1, <1>2, <1>3, UpTo, Zenon
<1>5. QED
  BY <1>4, Zenon DEF S

-----------------------------------------------------------------------------
(* The map of revoked sessions.                                            *)

LEMMA RevocationFields ==
  ASSUME NEW r \in Revocation
  PROVE  r.nonce \in Nonces /\ r.left \in Lives
BY Zenon DEF Revocation, Lives

LEMMA LiveEq ==
  ASSUME NEW map \in Seq(Revocation)
  PROVE  \E kept : /\ kept = [i \in 0..Len(map) |->
                                IF i = 0 THEN <<>>
                                ELSE IF map[i].left > 0 THEN Append(kept[i - 1], map[i]) ELSE kept[i - 1]]
                   /\ Live(map) = kept[Len(map)]
<1>1. Len(map) \in Nat /\ <<>> \in Seq(Revocation)
  OBVIOUS
<1>2. PICK step : step = [p \in (1..Len(map)) \X Seq(Revocation) |->
                            IF map[p[1]].left > 0 THEN Append(p[2], map[p[1]]) ELSE p[2]]
  OBVIOUS
<1>3. step \in Steps(Len(map), Seq(Revocation))
  <2>1. ASSUME NEW p \in (1..Len(map)) \X Seq(Revocation)
        PROVE  (IF map[p[1]].left > 0 THEN Append(p[2], map[p[1]]) ELSE p[2]) \in Seq(Revocation)
    <3>1. p[1] \in 1..Len(map) /\ p[2] \in Seq(Revocation)
      OBVIOUS
    <3>2. map[p[1]] \in Revocation
      BY <3>1, ElementOfSeq, Zenon
    <3>3. Append(p[2], map[p[1]]) \in Seq(Revocation)
      BY <3>1, <3>2, AppendProperties, Zenon
    <3>4. QED
      BY <3>1, <3>3, Zenon
  <2>2. QED
    BY <1>2, <2>1, Zenon DEF Steps
<1>4. PICK f \in Tables(Len(map), Seq(Revocation)) : Iterates(f, <<>>, step, Len(map))
  BY <1>1, <1>3, Recursion, Zenon
<1>5. ASSUME NEW i \in 0..Len(map)
      PROVE  f[i] = IF i = 0 THEN <<>>
                    ELSE IF map[i].left > 0 THEN Append(f[i - 1], map[i]) ELSE f[i - 1]
  <2>1. CASE i = 0
    BY <1>4, <2>1, Zenon DEF Iterates
  <2>2. CASE i # 0
    <3>1. i \in 1..Len(map) /\ i - 1 \in 0..Len(map)
      BY <2>2, <1>1
    <3>2. PICK p : p = <<i, f[i - 1]>>
      OBVIOUS
    <3>3. p \in (1..Len(map)) \X Seq(Revocation)
      BY <1>4, <3>1, <3>2, Zenon DEF Tables
    <3>4. step[p] = IF map[p[1]].left > 0 THEN Append(p[2], map[p[1]]) ELSE p[2]
      BY <1>2, <3>3, Zenon
    <3>5. p[1] = i /\ p[2] = f[i - 1]
      BY <3>2
    <3>6. QED
      BY <1>4, <2>2, <3>1, <3>2, <3>4, <3>5, Zenon DEF Iterates
  <2>3. QED
    BY <2>1, <2>2
<1>6. f = [i \in 0..Len(map) |-> IF i = 0 THEN <<>>
                                ELSE IF map[i].left > 0 THEN Append(f[i - 1], map[i]) ELSE f[i - 1]]
  BY <1>4, <1>5, Zenon DEF Tables
<1>7. QED
  BY <1>6, Zenon DEF Live

\* A map without its order.
Entries(map) == {map[i] : i \in DOMAIN map}

\* Live keeps of a map what is not dead, and nothing else.
LEMMA LiveKeeps ==
  ASSUME NEW map \in Seq(Revocation)
  PROVE  /\ Live(map) \in Seq(Revocation)
         /\ Len(Live(map)) <= Len(map)
         /\ Entries(Live(map)) = {r \in Entries(map) : r.left > 0}
<1>1. PICK kept :
        /\ kept = [i \in 0..Len(map) |->
                     IF i = 0 THEN <<>>
                     ELSE IF map[i].left > 0 THEN Append(kept[i - 1], map[i]) ELSE kept[i - 1]]
        /\ Live(map) = kept[Len(map)]
  BY LiveEq, Zenon
<1> DEFINE Passed(k) == {map[j] : j \in {h \in 1..k : map[h].left > 0}}
           S == {k \in 0..Len(map) : /\ kept[k] \in Seq(Revocation)
                                     /\ Len(kept[k]) <= k
                                     /\ Entries(kept[k]) = Passed(k)}
<1>2. Len(map) \in Nat /\ 0 \in 0..Len(map) /\ Len(map) \in 0..Len(map)
  OBVIOUS
<1>3. 0 \in S
  <2>1. kept[0] = <<>>
    BY <1>1, <1>2, Zenon
  <2>2. <<>> \in Seq(Revocation) /\ Len(<<>>) <= 0 /\ DOMAIN <<>> = {} /\ 1..0 = {}
    OBVIOUS
  <2>3. Entries(<<>>) = {} /\ Passed(0) = {}
    BY <2>2, Zenon DEF Entries
  <2>4. QED
    BY <1>2, <2>1, <2>2, <2>3, Zenon
<1>4. ASSUME NEW k \in 1..Len(map), k - 1 \in S
      PROVE  k \in S
  <2>1. k \in 0..Len(map) /\ k # 0 /\ \A h : h \in 1..k <=> h = k \/ h \in 1..(k - 1)
    OBVIOUS
  <2>2. kept[k] = IF map[k].left > 0 THEN Append(kept[k - 1], map[k]) ELSE kept[k - 1]
    BY <1>1, <2>1, Zenon
  <2>3. PICK s : s = kept[k - 1]
    OBVIOUS
  <2>4. s \in Seq(Revocation) /\ Len(s) <= k - 1 /\ Entries(s) = Passed(k - 1)
    BY <1>4, <2>3, Zenon
  <2>5. CASE map[k].left > 0
    <3>1. map[k] \in Revocation
      BY ElementOfSeq, Zenon
    <3>2. PICK u : u = Append(s, map[k])
      OBVIOUS
    <3>3. /\ u \in Seq(Revocation) /\ Len(u) = Len(s) + 1 /\ u[Len(s) + 1] = map[k]
          /\ \A i \in 1..Len(s) : u[i] = s[i]
      BY <2>4, <3>1, <3>2, AppendProperties
    <3>4. Len(s) \in Nat /\ DOMAIN s = 1..Len(s) /\ DOMAIN u = 1..Len(u)
      BY <2>4, <3>3, LenProperties, Zenon
    <3>5. \A i : i \in DOMAIN u <=> i = Len(s) + 1 \/ i \in DOMAIN s
      BY <3>3, <3>4
    <3>6. Entries(u) = Entries(s) \cup {map[k]}
      BY <3>3, <3>4, <3>5, Zenon DEF Entries
    <3>7. Passed(k) = Passed(k - 1) \cup {map[k]}
      BY <2>1, <2>5, Zenon
    <3>8. Len(u) <= k
      BY <2>4, <3>3, <3>4
    <3>9. kept[k] = u
      BY <2>2, <2>3, <2>5, <3>2, Zenon
    <3> HIDE DEF Passed
    <3>10. QED
      BY <2>1, <2>4, <3>3, <3>6, <3>7, <3>8, <3>9, Zenon
  <2>6. CASE ~(map[k].left > 0)
    <3>1. Passed(k) = Passed(k - 1)
      BY <2>1, <2>6, Zenon
    <3>2. Len(s) <= k
      <4>1. Len(s) \in Nat
        BY <2>4, LenProperties, Zenon
      <4>2. QED
        BY <2>4, <4>1
    <3> HIDE DEF Passed
    <3>3. QED
      BY <2>1, <2>2, <2>3, <2>4, <2>6, <3>1, <3>2, Zenon
  <2>7. QED
    BY <2>5, <2>6
<1>5. 0..Len(map) \subseteq S
  <2> HIDE DEF S
  <2>1. QED
    BY <1>2, <1>3, <1>4, UpTo, Zenon
<1>6. Passed(Len(map)) = {r \in Entries(map) : r.left > 0}
  <2>1. DOMAIN map = 1..Len(map)
    BY LenProperties, Zenon
  <2>2. QED
    BY <2>1, Zenon DEF Entries
<1> HIDE DEF Passed
<1>7. QED
  BY <1>1, <1>2, <1>5, <1>6, Zenon

LEMMA EntriesTyped ==
  ASSUME NEW map \in Seq(Revocation)
  PROVE  /\ \A r \in Entries(map) : r \in Revocation /\ r.nonce \in Nonces /\ r.left \in Lives
         /\ \A n : n \in NoncesOf(map) <=> \E r \in Entries(map) : r.nonce = n
<1>1. \A i \in DOMAIN map : map[i] \in Revocation
  BY ElementOfSeq, LenProperties, Zenon
<1>2. QED
  BY <1>1, RevocationFields, Zenon DEF Entries, NoncesOf

LEMMA EmptyMap == <<>> \in Seq(Revocation) /\ Len(<<>>) <= MaxRevoked /\ Entries(<<>>) = {}
<1>1. <<>> \in Seq(Revocation) /\ Len(<<>>) <= MaxRevoked /\ DOMAIN <<>> = {}
  BY TimesAssumption
<1>2. QED
  BY <1>1, Zenon DEF Entries

\* A sweep drops what is dead and may evict: it remembers nothing new.
LEMMA SweepKeeps ==
  ASSUME NEW map \in Seq(Revocation)
  PROVE  /\ Sweep(map) \in Seq(Revocation)
         /\ Len(Sweep(map)) <= MaxRevoked
         /\ Entries(Sweep(map)) \subseteq {r \in Entries(map) : r.left > 0}
<1>1. PICK live : live = Live(map)
  OBVIOUS
<1>2. live \in Seq(Revocation) /\ Entries(live) = {r \in Entries(map) : r.left > 0}
  BY <1>1, LiveKeeps, Zenon
<1>3. Sweep(map) = IF Len(live) > MaxRevoked THEN SubSeq(live, Len(live) - MaxRevoked + 1, Len(live)) ELSE live
  BY <1>1, Zenon DEF Sweep
<1>4. Len(live) \in Nat /\ DOMAIN live = 1..Len(live)
  BY <1>2, LenProperties, Zenon
<1>5. CASE Len(live) > MaxRevoked
  <2>1. PICK s : s = SubSeq(live, Len(live) - MaxRevoked + 1, Len(live))
    OBVIOUS
  <2>2. /\ s \in Seq(Revocation) /\ Len(s) = MaxRevoked
        /\ \A i \in 1..MaxRevoked : s[i] = live[Len(live) - MaxRevoked + i]
    <3>1. Len(live) - MaxRevoked + 1 \in 1..(Len(live) + 1)
      BY <1>4, <1>5, TimesAssumption
    <3>2. QED
      BY <1>2, <1>4, <1>5, <2>1, <3>1, TimesAssumption, SubSeqProperties
  <2>3. \A i \in 1..MaxRevoked : Len(live) - MaxRevoked + i \in DOMAIN live
    BY <1>4, <1>5, TimesAssumption
  <2>4. DOMAIN s = 1..MaxRevoked
    BY <2>2, LenProperties, Zenon
  <2>5. Entries(s) \subseteq Entries(live)
    <3>1. \A i \in DOMAIN s : \E j \in DOMAIN live : s[i] = live[j]
      BY <2>2, <2>3, <2>4, Zenon
    <3>2. QED
      BY <3>1, Zenon DEF Entries
  <2>6. Len(s) <= MaxRevoked
    BY <2>2, TimesAssumption
  <2>7. QED
    BY <1>2, <1>3, <1>5, <2>1, <2>2, <2>5, <2>6, Zenon
<1>6. CASE ~(Len(live) > MaxRevoked)
  <2>1. Len(live) <= MaxRevoked
    BY <1>4, <1>6, TimesAssumption
  <2>2. QED
    BY <1>2, <1>3, <1>6, <2>1, Zenon
<1>7. QED
  BY <1>5, <1>6

LEMMA AppendKeeps ==
  ASSUME NEW map \in Seq(Revocation), NEW r \in Revocation
  PROVE  /\ Append(map, r) \in Seq(Revocation)
         /\ Entries(Append(map, r)) = Entries(map) \cup {r}
<1>1. PICK u : u = Append(map, r)
  OBVIOUS
<1>2. /\ u \in Seq(Revocation) /\ Len(u) = Len(map) + 1 /\ u[Len(map) + 1] = r
      /\ \A i \in 1..Len(map) : u[i] = map[i]
  BY <1>1, AppendProperties
<1>3. Len(map) \in Nat /\ DOMAIN map = 1..Len(map) /\ DOMAIN u = 1..Len(u)
  BY <1>2, LenProperties, Zenon
<1>4. \A i : i \in DOMAIN u <=> i = Len(map) + 1 \/ i \in DOMAIN map
  BY <1>2, <1>3
<1>5. Entries(u) = Entries(map) \cup {r}
  BY <1>2, <1>3, <1>4, Zenon DEF Entries
<1>6. QED
  BY <1>1, <1>2, <1>5, Zenon

\* An entry, a tick later.
EntryOlder(r) == [r EXCEPT !.left = Less(r.left)]

LEMMA EntryOlderTyped ==
  ASSUME NEW r \in Revocation
  PROVE  /\ EntryOlder(r) \in Revocation /\ EntryOlder(r).nonce = r.nonce
         /\ EntryOlder(r).left = Less(r.left)
<1>1. r.left \in Lives
  BY RevocationFields, Zenon
<1>2. PICK l \in Lives : l = Less(r.left)
  BY <1>1, TimesAssumption DEF Less, Lives
<1>3. EntryOlder(r) = [r EXCEPT !.left = l]
  BY <1>2, Zenon DEF EntryOlder
<1>4. QED
  BY <1>2, <1>3, Zenon DEF Revocation, Lives

LEMMA AgedKeeps ==
  ASSUME NEW map \in Seq(Revocation)
  PROVE  /\ Aged(map) \in Seq(Revocation) /\ Len(Aged(map)) = Len(map)
         /\ \A r : r \in Entries(Aged(map)) <=> \E q \in Entries(map) : r = EntryOlder(q)
<1>1. DOMAIN map = 1..Len(map) /\ Len(map) \in Nat /\ \A i \in DOMAIN map : map[i] \in Revocation
  BY ElementOfSeq, LenProperties, Zenon
<1>2. PICK u : u = Aged(map)
  OBVIOUS
<1>3. u = [i \in DOMAIN map |-> EntryOlder(map[i])]
  BY <1>2, Zenon DEF Aged, EntryOlder
<1>4. u \in [1..Len(map) -> Revocation]
  BY <1>1, <1>3, EntryOlderTyped, Zenon
<1>5. u \in Seq(Revocation) /\ Len(u) = Len(map)
  BY <1>1, <1>4, IsASeq
<1>6. \A r : r \in Entries(u) <=> \E q \in Entries(map) : r = EntryOlder(q)
  BY <1>3, Zenon DEF Entries
<1>7. QED
  BY <1>2, <1>5, <1>6, Zenon

-----------------------------------------------------------------------------
(* Sessions that were signed out.                                          *)

\* x was signed out, and may not be forgotten.
Out(x) == x.ended /\ ~x.excused

\* What map has of the session of t lasts as long as t.
Lasting(map, t) == \A r \in Entries(map) : r.nonce = t.nonce => t.left <= r.left

\* No session that goes on is in map.
ClosedIn(map) == \A r \in Entries(map) : opened[r.nonce] # NoSession => opened[r.nonce].ended

MapsInv ==
  /\ revoked \in Seq(Revocation) /\ Len(revoked) <= MaxRevoked
  /\ disk # NoFile => /\ disk \in [base : Bases, revoked : Seq(Revocation)]
                      /\ disk.revoked \in Seq(Revocation) /\ Len(disk.revoked) <= MaxRevoked

ClosedInv == ClosedIn(revoked) /\ (disk # NoFile => ClosedIn(disk.revoked))

OutInv ==
  \A t \in tokens : t.base = base /\ t.left > 0 /\ Out(opened[t.nonce])
                     => t.nonce \in NoncesOf(revoked) /\ Lasting(revoked, t)

DiskInv ==
  disk # NoFile =>
    \A t \in tokens : t.base = disk.base /\ t.left > 0 /\ Out(opened[t.nonce]) => Lasting(disk.revoked, t)

SavedInv ==
  ~unsaved /\ disk # NoFile =>
    disk.base = base /\ \A r \in Entries(revoked) : r.left > 0 => r \in Entries(disk.revoked)

OutsInv == MapsInv /\ ClosedInv /\ OutInv /\ DiskInv /\ SavedInv

LEMMA OutStill ==
  ASSUME OutsInv, UNCHANGED <<base, revoked, disk, unsaved, tokens, opened>>
  PROVE  OutsInv'
BY Zenon DEF OutsInv, MapsInv, ClosedInv, OutInv, DiskInv, SavedInv, ClosedIn, Out

\* A new session is neither ended nor remembered as such, and has one cookie.
LEMMA IssuedFacts ==
  ASSUME TypesInv, ProvenInv, NEW b \in Bases, NEW p \in Hashes, Issue(b, p)
  PROVE  \E n \in FreshNonces, u \in Token :
           /\ tokens' = tokens \cup {u} /\ u.nonce = n /\ u.base = b
           /\ ~opened'[n].ended
           /\ \A m \in Nonces : m # n => opened'[m] = opened[m]
           /\ \A t \in tokens : t.nonce # n /\ t.nonce \in Nonces
<1>1. PICK n \in FreshNonces :
        /\ tokens' = tokens \cup {TokenFor(n, b)}
        /\ opened' = [opened EXCEPT ![n] = [proven |-> p, straddles |-> p # hash, idle |-> 0,
                                            ended |-> FALSE, excused |-> FALSE]]
  BY Zenon DEF Issue
<1>2. n \in Nonces /\ opened[n] = NoSession
  BY <1>1, Zenon DEF FreshNonces
<1>3. TokenFor(n, b) \in Token /\ TokenFor(n, b).nonce = n /\ TokenFor(n, b).base = b
  BY <1>2, TokenSigned, Zenon DEF TypesInv
<1>4. PICK s \in BOOLEAN : s = (p # hash)
  OBVIOUS
<1>5. opened' = [opened EXCEPT ![n] = Fresh(p, s)]
  BY <1>1, <1>4, Zenon DEF Fresh
<1>6. PICK y : y = Fresh(p, s)
  OBVIOUS
<1>7. ~y.ended
  BY <1>6, FreshTyped, Zenon
<1>8. opened'[n] = y /\ \A m \in Nonces : m # n => opened'[m] = opened[m]
  BY <1>2, <1>5, <1>6, Zenon DEF TypesInv
<1>9. \A t \in tokens : t.nonce # n /\ t.nonce \in Nonces
  BY <1>2, TokenFields, Zenon DEF ProvenInv, TypesInv
<1>10. QED
  BY <1>1, <1>3, <1>7, <1>8, <1>9, Zenon

\* A session is opened under the key in force, and the maps are as they were.
LEMMA OutIssued ==
  ASSUME TypesInv, ProvenInv, OutsInv, NEW p \in Hashes, Issue(base, p),
         UNCHANGED <<base, revoked, disk, unsaved>>
  PROVE  OutsInv'
<1>1. base \in Bases
  BY Zenon DEF TypesInv
<1>2. PICK n \in FreshNonces, u \in Token :
           /\ tokens' = tokens \cup {u} /\ u.nonce = n /\ u.base = base
           /\ ~opened'[n].ended
           /\ \A m \in Nonces : m # n => opened'[m] = opened[m]
           /\ \A t \in tokens : t.nonce # n /\ t.nonce \in Nonces
  BY <1>1, IssuedFacts, Zenon
<1>3. n \notin NoncesOf(revoked) /\ (disk # NoFile => n \notin NoncesOf(disk.revoked))
  BY <1>2, Zenon DEF FreshNonces
<1>4. ASSUME NEW map \in Seq(Revocation), ClosedIn(map), n \notin NoncesOf(map)
      PROVE  ClosedIn(map)'
  <2>1. \A r \in Entries(map) : r.nonce \in Nonces /\ r.nonce # n
    BY <1>4, EntriesTyped, Zenon
  <2>2. QED
    BY <1>2, <1>4, <2>1, Zenon DEF ClosedIn
<1>5. ClosedInv'
  BY <1>3, <1>4, Zenon DEF OutsInv, ClosedInv, ClosedIn, MapsInv
<1>6. \A t \in tokens : opened'[t.nonce] = opened[t.nonce]
  BY <1>2, Zenon
<1>7. ~Out(opened'[u.nonce])
  BY <1>2, Zenon DEF Out
<1>8. OutInv'
  BY <1>2, <1>6, <1>7, Zenon DEF OutsInv, OutInv
<1>9. DiskInv'
  BY <1>2, <1>6, <1>7, Zenon DEF OutsInv, DiskInv
<1>10. MapsInv' /\ SavedInv'
  BY Zenon DEF OutsInv, MapsInv, SavedInv
<1>11. QED
  BY <1>5, <1>8, <1>9, <1>10, Zenon DEF OutsInv

LEMMA OutPage ==
  ASSUME TypesInv, ProvenInv, OutsInv, NEW t \in tokens, OpenPage(t)
  PROVE  OutsInv'
<1>1. /\ t \in Token /\ t.nonce \in Nonces /\ t.base = base /\ t.left > 0
      /\ t.nonce \notin NoncesOf(revoked) /\ base \in Bases
  BY TokenFields, Zenon DEF TypesInv, OpenPage, Guarded, Verifies
<1>2. opened[t.nonce] \in Session
  BY <1>1, Zenon DEF ProvenInv, TypesInv
<1>3. 0 \in Lives
  BY TimesAssumption DEF Lives
<1>4. opened' = [opened EXCEPT ![t.nonce] = Idles(opened[t.nonce], 0)]
  BY Zenon DEF OpenPage, Idles
<1>5. PICK y : y = Idles(opened[t.nonce], 0)
  OBVIOUS
<1>6. y.ended = opened[t.nonce].ended /\ y.excused = opened[t.nonce].excused /\ y # NoSession
  <2>1. y \in Session
    BY <1>2, <1>3, <1>5, IdlesTyped, Zenon
  <2>2. QED
    BY <1>2, <1>3, <1>5, <2>1, IdlesTyped, SessionFields, Zenon
<1>7. ASSUME NEW m \in Nonces
      PROVE  /\ opened'[m] # NoSession <=> opened[m] # NoSession
             /\ opened[m] # NoSession => /\ Out(opened'[m]) <=> Out(opened[m])
                                         /\ opened'[m].ended <=> opened[m].ended
  <2>1. CASE m = t.nonce
    <3>1. opened'[m] = y /\ opened[m] # NoSession
      BY <1>1, <1>4, <1>5, <2>1, Zenon DEF TypesInv, ProvenInv
    <3>2. QED
      BY <1>6, <2>1, <3>1, Zenon DEF Out
  <2>2. CASE m # t.nonce
    <3>1. opened'[m] = opened[m]
      BY <1>4, <2>2, Zenon DEF TypesInv
    <3>2. QED
      BY <3>1, Zenon
  <2>3. QED
    BY <2>1, <2>2
<1>8. UNCHANGED <<base, revoked, disk, unsaved>>
  BY Zenon DEF OpenPage, secrets
<1>9. ~Out(opened[t.nonce])
  BY <1>1, Zenon DEF OutsInv, OutInv
<1>10. ASSUME NEW u \in tokens'
       PROVE  \/ u \in tokens /\ u.nonce \in Nonces /\ opened[u.nonce] # NoSession
              \/ u.nonce = t.nonce
  <2>1. TokenFor(t.nonce, base).nonce = t.nonce
    BY <1>1, TokenSigned, Zenon DEF TypesInv
  <2>2. u \in tokens \/ u = TokenFor(t.nonce, base)
    BY Zenon DEF OpenPage
  <2>3. QED
    BY <2>1, <2>2, TokenFields, Zenon DEF TypesInv, ProvenInv
<1>11. ASSUME NEW u \in tokens', Out(opened'[u.nonce])
       PROVE  u \in tokens /\ Out(opened[u.nonce])
  <2>1. u.nonce # t.nonce
    BY <1>1, <1>2, <1>7, <1>9, <1>11, NamesAssumption, Zenon
  <2>2. QED
    BY <1>7, <1>10, <1>11, <2>1, Zenon
<1>12. ASSUME NEW map \in Seq(Revocation), ClosedIn(map)
       PROVE  ClosedIn(map)'
  BY <1>7, <1>12, EntriesTyped, Zenon DEF ClosedIn
<1>13. ClosedInv'
  BY <1>8, <1>12, Zenon DEF OutsInv, ClosedInv, ClosedIn, MapsInv
<1>14. OutInv' /\ DiskInv'
  BY <1>8, <1>11, Zenon DEF OutsInv, OutInv, DiskInv
<1>15. MapsInv' /\ SavedInv'
  BY <1>8, Zenon DEF OutsInv, MapsInv, SavedInv
<1>16. QED
  BY <1>13, <1>14, <1>15, Zenon DEF OutsInv

\* What a persist leaves on disk.
LEMMA Persisted ==
  ASSUME Persist, base' \in Bases, revoked' \in Seq(Revocation), Len(revoked') <= MaxRevoked
  PROVE  \/ /\ disk' \in [base : Bases, revoked : Seq(Revocation)]
            /\ disk'.base = base' /\ disk'.revoked = revoked' /\ unsaved' = FALSE
         \/ disk' = disk /\ unsaved' = TRUE
<1>1. CASE disk' = [base |-> base', revoked |-> revoked'] /\ unsaved' = FALSE
  <2>1. disk'.base = base' /\ disk'.revoked = revoked'
    BY <1>1
  <2>2. disk' \in [base : Bases, revoked : Seq(Revocation)]
    BY <1>1, Zenon
  <2>3. QED
    BY <1>1, <2>1, <2>2, Zenon
<1>2. QED
  BY <1>1, Zenon DEF Persist

EvictedFrom(all, kept) == {r.nonce : r \in {q \in Entries(all) : q.left > 0}} \ NoncesOf(kept)

LEMMA SignOutFacts ==
  ASSUME TypesInv, NEW t \in tokens, SignOut(t), NEW all, all = Append(revoked, [nonce |-> t.nonce, left |-> TTL])
  PROVE  \A n \in Nonces : opened[n] # NoSession =>
           /\ opened'[n].ended <=> opened[n].ended \/ n = t.nonce
           /\ opened'[n].excused <=> opened[n].excused \/ n \in EvictedFrom(all, revoked')
<1> DEFINE evicted == {all[i].nonce : i \in {j \in DOMAIN all : all[j].left > 0}} \ NoncesOf(revoked')
           y(n) == [opened[n] EXCEPT !.ended = opened[n].ended \/ n = t.nonce,
                                     !.excused = opened[n].excused \/ n \in evicted]
<1>1. opened' = [n \in Nonces |-> IF opened[n] = NoSession THEN NoSession ELSE y(n)]
  BY Zenon DEF SignOut
<1>2. ASSUME NEW n \in Nonces, opened[n] # NoSession
      PROVE  /\ y(n).ended <=> opened[n].ended \/ n = t.nonce
             /\ y(n).excused <=> opened[n].excused \/ n \in evicted
  <2>1. opened[n] \in Session
    BY <1>2, Zenon DEF TypesInv
  <2>2. PICK a, b \in BOOLEAN : (a <=> (opened[n].ended \/ n = t.nonce)) /\ (b <=> (opened[n].excused \/ n \in evicted))
                                 /\ a = (opened[n].ended \/ n = t.nonce) /\ b = (opened[n].excused \/ n \in evicted)
    OBVIOUS
  <2>3. y(n) = Mark(opened[n], a, b)
    BY <2>2, Zenon DEF Mark
  <2>4. Mark(opened[n], a, b).ended = a /\ Mark(opened[n], a, b).excused = b
    BY <2>1, MarkTyped, Zenon
  <2> HIDE DEF y
  <2>5. QED
    BY <2>2, <2>3, <2>4, Zenon
<1>3. \A n : n \in evicted <=> n \in EvictedFrom(all, revoked')
  BY Zenon DEF EvictedFrom, Entries
<1> HIDE DEF y, evicted
<1>4. QED
  BY <1>1, <1>2, <1>3, Zenon

LEMMA OutSignOut ==
  ASSUME TypesInv, ProvenInv, OutsInv, NEW t \in tokens, SignOut(t)
  PROVE  OutsInv'
<1>1. /\ t \in Token /\ t.nonce \in Nonces /\ t.base = base /\ t.left > 0
      /\ t.nonce \notin NoncesOf(revoked) /\ base \in Bases
  BY TokenFields, Zenon DEF TypesInv, SignOut, Verifies
<1>2. PICK r : r = [nonce |-> t.nonce, left |-> TTL]
  OBVIOUS
<1>3. r \in Revocation /\ r.nonce = t.nonce /\ r.left = TTL /\ r.left > 0
  <2>1. TTL \in 0..TTL /\ TTL > 0
    BY TimesAssumption
  <2>2. QED
    BY <1>1, <1>2, <2>1, Zenon DEF Revocation
<1>4. PICK all : all = Append(revoked, r)
  OBVIOUS
<1>5. revoked \in Seq(Revocation) /\ (disk # NoFile => disk.revoked \in Seq(Revocation))
  BY Zenon DEF OutsInv, MapsInv
<1>6. all \in Seq(Revocation) /\ Entries(all) = Entries(revoked) \cup {r}
  BY <1>3, <1>4, <1>5, AppendKeeps, Zenon
<1>7. revoked' = Sweep(all) /\ base' = base /\ Persist /\ tokens' = tokens
  BY <1>2, <1>4, Zenon DEF SignOut
<1>8. /\ revoked' \in Seq(Revocation) /\ Len(revoked') <= MaxRevoked
      /\ \A q \in Entries(revoked') : q \in Entries(all) /\ q.left > 0
  BY <1>6, <1>7, SweepKeeps, Zenon
<1>9. \A n \in Nonces : opened[n] # NoSession =>
        /\ opened'[n].ended <=> opened[n].ended \/ n = t.nonce
        /\ opened'[n].excused <=> opened[n].excused \/ n \in EvictedFrom(all, revoked')
  BY <1>2, <1>4, SignOutFacts, Zenon
<1>10. \A n \in Nonces : opened'[n] # NoSession <=> opened[n] # NoSession
  BY SignsOut, Zenon DEF Marks
<1>11. \A u \in tokens : u \in Token /\ u.nonce \in Nonces /\ u.left \in Lives /\ opened[u.nonce] # NoSession
  BY TokenFields, Zenon DEF TypesInv, ProvenInv
<1>12. ASSUME NEW map \in Seq(Revocation),
              \A q \in Entries(map) : opened[q.nonce] # NoSession => opened[q.nonce].ended \/ q.nonce = t.nonce
       PROVE  \A q \in Entries(map) : opened'[q.nonce] # NoSession => opened'[q.nonce].ended
  BY <1>9, <1>10, <1>12, EntriesTyped, Zenon
<1>13. \A q \in Entries(revoked') : opened[q.nonce] # NoSession => opened[q.nonce].ended \/ q.nonce = t.nonce
  BY <1>3, <1>6, <1>8, Zenon DEF OutsInv, ClosedInv, ClosedIn
<1>14. ClosedIn(revoked)'
  BY <1>8, <1>12, <1>13, Zenon DEF ClosedIn
<1>15. disk # NoFile => \A q \in Entries(disk.revoked) : opened'[q.nonce] # NoSession => opened'[q.nonce].ended
  BY <1>5, <1>12, Zenon DEF OutsInv, ClosedInv, ClosedIn
<1>16. ASSUME NEW u \in tokens, u.base = base, u.left > 0, Out(opened'[u.nonce])
       PROVE  u.nonce \in NoncesOf(revoked') /\ Lasting(revoked', u)
  <2>1. opened'[u.nonce].ended /\ ~opened'[u.nonce].excused
    BY <1>16, Zenon DEF Out
  <2>2. u.nonce \notin EvictedFrom(all, revoked') /\ ~opened[u.nonce].excused
    BY <1>9, <1>11, <2>1, Zenon
  <2>3. CASE u.nonce = t.nonce
    <3>1. u.nonce \in NoncesOf(revoked')
      BY <1>3, <1>6, <2>2, <2>3, Zenon DEF EvictedFrom
    <3>2. \A q \in Entries(revoked') : q.nonce = u.nonce => q = r
      BY <1>1, <1>5, <1>6, <1>8, <2>3, EntriesTyped, Zenon
    <3>3. u.left <= TTL
      BY <1>11, TimesAssumption DEF Lives
    <3>4. QED
      BY <1>3, <3>1, <3>2, <3>3, Zenon DEF Lasting
  <2>4. CASE u.nonce # t.nonce
    <3>1. Out(opened[u.nonce])
      BY <1>9, <1>11, <2>1, <2>2, <2>4, Zenon DEF Out
    <3>2. u.nonce \in NoncesOf(revoked) /\ Lasting(revoked, u)
      BY <1>16, <3>1, Zenon DEF OutsInv, OutInv
    <3>3. PICK q \in Entries(revoked) : q.nonce = u.nonce
      BY <1>5, <3>2, EntriesTyped, Zenon
    <3>4. q.left \in Lives /\ u.left <= q.left
      BY <1>5, <3>2, <3>3, EntriesTyped, Zenon DEF Lasting
    <3>5. q.left > 0
      BY <1>11, <1>16, <3>4 DEF Lives
    <3>6. u.nonce \in NoncesOf(revoked')
      BY <1>6, <2>2, <3>3, <3>5, Zenon DEF EvictedFrom
    <3>7. Lasting(revoked', u)
      BY <1>3, <1>6, <1>8, <2>4, <3>2, Zenon DEF Lasting
    <3>8. QED
      BY <3>6, <3>7
  <2>5. QED
    BY <2>3, <2>4
<1>17. OutInv'
  BY <1>7, <1>16, Zenon DEF OutInv
<1>18. \/ /\ disk' \in [base : Bases, revoked : Seq(Revocation)]
          /\ disk'.base = base /\ disk'.revoked = revoked' /\ unsaved' = FALSE
       \/ disk' = disk /\ unsaved' = TRUE
  BY <1>1, <1>7, <1>8, Persisted, Zenon
<1>19. MapsInv'
  BY <1>8, <1>18, Zenon DEF OutsInv, MapsInv
<1>20. ClosedInv'
  BY <1>14, <1>15, <1>18, Zenon DEF ClosedInv, ClosedIn
<1>21. SavedInv'
  BY <1>7, <1>18, Zenon DEF SavedInv
<1>22. ASSUME NEW u \in tokens, disk # NoFile, u.base = disk.base, u.left > 0, Out(opened'[u.nonce])
       PROVE  Lasting(disk.revoked, u)
  <2>1. opened'[u.nonce].ended /\ ~opened'[u.nonce].excused
    BY <1>22, Zenon DEF Out
  <2>2. ~opened[u.nonce].excused
    BY <1>9, <1>11, <2>1, Zenon
  <2>3. CASE u.nonce # t.nonce
    <3>1. Out(opened[u.nonce])
      BY <1>9, <1>11, <2>1, <2>2, <2>3, Zenon DEF Out
    <3>2. QED
      BY <1>22, <3>1, Zenon DEF OutsInv, DiskInv
  <2>4. CASE u.nonce = t.nonce
    <3>1. ~Out(opened[t.nonce])
      BY <1>1, Zenon DEF OutsInv, OutInv
    <3>2. ~opened[t.nonce].ended /\ opened[t.nonce] # NoSession
      BY <1>11, <2>2, <2>4, <3>1, Zenon DEF Out
    <3>3. \A q \in Entries(disk.revoked) : q.nonce # t.nonce
      BY <1>22, <3>2, Zenon DEF OutsInv, ClosedInv, ClosedIn
    <3>4. QED
      BY <2>4, <3>3, Zenon DEF Lasting
  <2>5. QED
    BY <2>3, <2>4
<1>23. DiskInv'
  <2>1. CASE disk' = disk
    BY <1>7, <1>22, <2>1, Zenon DEF DiskInv
  <2>2. CASE disk'.base = base /\ disk'.revoked = revoked'
    BY <1>7, <1>16, <2>2, Zenon DEF DiskInv
  <2>3. QED
    BY <1>18, <2>1, <2>2, Zenon
<1>24. QED
  BY <1>17, <1>19, <1>20, <1>21, <1>23, Zenon DEF OutsInv

LEMMA OutFinish ==
  ASSUME TypesInv, ProvenInv, OutsInv, NEW p \in Hashes,
         base' \in FreshBases, revoked' = <<>>, Persist, Issue(base', p)
  PROVE  OutsInv'
<1>1. PICK b : b = base'
  OBVIOUS
<1>2. b \in Bases /\ b # base /\ (disk # NoFile => b # disk.base) /\ \A t \in tokens : t.base # b
  BY <1>1, Zenon DEF FreshBases
<1>3. PICK n \in FreshNonces, u \in Token :
           /\ tokens' = tokens \cup {u} /\ u.nonce = n /\ u.base = b
           /\ ~opened'[n].ended
           /\ \A m \in Nonces : m # n => opened'[m] = opened[m]
           /\ \A t \in tokens : t.nonce # n /\ t.nonce \in Nonces
  BY <1>1, <1>2, IssuedFacts, Zenon
<1>4. revoked' \in Seq(Revocation) /\ Len(revoked') <= MaxRevoked /\ Entries(revoked') = {}
  BY EmptyMap, Zenon
<1>5. \/ /\ disk' \in [base : Bases, revoked : Seq(Revocation)]
         /\ disk'.base = b /\ disk'.revoked = revoked' /\ unsaved' = FALSE
      \/ disk' = disk /\ unsaved' = TRUE
  BY <1>1, <1>2, <1>4, Persisted, Zenon
<1>6. MapsInv'
  BY <1>4, <1>5, Zenon DEF OutsInv, MapsInv
<1>7. ASSUME disk # NoFile
      PROVE  \A q \in Entries(disk.revoked) : opened'[q.nonce] # NoSession => opened'[q.nonce].ended
  <2>1. disk.revoked \in Seq(Revocation) /\ n \notin NoncesOf(disk.revoked)
    BY <1>3, <1>7, Zenon DEF FreshNonces, OutsInv, MapsInv
  <2>2. \A q \in Entries(disk.revoked) : q.nonce \in Nonces /\ q.nonce # n
    BY <2>1, EntriesTyped, Zenon
  <2>3. QED
    BY <1>3, <1>7, <2>2, Zenon DEF OutsInv, ClosedInv, ClosedIn
<1>8. ClosedInv'
  BY <1>4, <1>5, <1>7, Zenon DEF ClosedInv, ClosedIn
<1>9. \A t \in tokens : opened'[t.nonce] = opened[t.nonce]
  BY <1>3, Zenon
<1>10. ~Out(opened'[u.nonce])
  BY <1>3, Zenon DEF Out
<1>11. \A t \in tokens' : t.base = b => ~Out(opened'[t.nonce])
  BY <1>2, <1>3, <1>10, Zenon
<1>12. OutInv'
  BY <1>1, <1>11, Zenon DEF OutInv
<1>13. DiskInv'
  <2>1. CASE disk' = disk
    BY <1>3, <1>9, <1>10, <2>1, Zenon DEF OutsInv, DiskInv
  <2>2. CASE disk'.base = b
    BY <1>11, <2>2, Zenon DEF DiskInv
  <2>3. QED
    BY <1>5, <2>1, <2>2, Zenon
<1>14. SavedInv'
  BY <1>1, <1>4, <1>5, Zenon DEF SavedInv
<1>15. QED
  BY <1>6, <1>8, <1>12, <1>13, <1>14, Zenon DEF OutsInv

LEMMA OutLose ==
  ASSUME OutsInv, LoseFile
  PROVE  OutsInv'
BY Zenon DEF LoseFile, OutsInv, MapsInv, ClosedInv, OutInv, DiskInv, SavedInv, ClosedIn, Out

LEMMA RestartFacts ==
  ASSUME TypesInv, Restart, disk # NoFile
  PROVE  \A n \in Nonces : opened[n] # NoSession =>
           /\ opened'[n].ended <=> opened[n].ended
           /\ opened'[n].excused <=> opened[n].excused \/ (unsaved /\ n \notin NoncesOf(revoked'))
<1> DEFINE y(n) == [opened[n] EXCEPT !.excused = opened[n].excused \/ n \notin NoncesOf(revoked')]
<1>1. opened' = [n \in Nonces |-> IF opened[n] = NoSession \/ ~unsaved THEN opened[n] ELSE y(n)]
  BY Zenon DEF Restart
<1>2. ASSUME NEW n \in Nonces, opened[n] # NoSession
      PROVE  /\ y(n).ended <=> opened[n].ended
             /\ y(n).excused <=> opened[n].excused \/ n \notin NoncesOf(revoked')
  <2>1. opened[n] \in Session
    BY <1>2, Zenon DEF TypesInv
  <2>2. PICK b \in BOOLEAN : b = (opened[n].excused \/ n \notin NoncesOf(revoked'))
    OBVIOUS
  <2>3. y(n) = Excuse(opened[n], b)
    BY <2>2, Zenon DEF Excuse
  <2>4. Excuse(opened[n], b).ended = opened[n].ended /\ Excuse(opened[n], b).excused = b
    BY <2>1, ExcuseTyped, Zenon
  <2> HIDE DEF y
  <2>5. QED
    BY <2>2, <2>3, <2>4, Zenon
<1> HIDE DEF y
<1>3. QED
  BY <1>1, <1>2, Zenon

\* The file is read: what was ended and remembered there is ended still.
LEMMA OutRead ==
  ASSUME TypesInv, ProvenInv, OutsInv, Restart, disk # NoFile
  PROVE  OutsInv'
<1>1. PICK map : map = disk.revoked
  OBVIOUS
<1>2. map \in Seq(Revocation) /\ Len(map) <= MaxRevoked /\ Len(map) \in Nat
  BY <1>1, LenProperties, Zenon DEF OutsInv, MapsInv
<1>3. /\ base' = disk.base /\ revoked' = Live(map) /\ disk' = disk /\ unsaved' = FALSE
      /\ tokens' = tokens
  BY <1>1, Zenon DEF Restart
<1>4. /\ revoked' \in Seq(Revocation) /\ Len(revoked') <= MaxRevoked
      /\ Entries(revoked') = {r \in Entries(map) : r.left > 0}
  <2>1. PICK live : live = Live(map)
    OBVIOUS
  <2>2. live \in Seq(Revocation) /\ Len(live) <= Len(map) /\ Entries(live) = {r \in Entries(map) : r.left > 0}
    BY <1>2, <2>1, LiveKeeps, Zenon
  <2>3. Len(live) <= MaxRevoked
    <3>1. Len(live) \in Nat
      BY <2>2, LenProperties, Zenon
    <3>2. QED
      BY <1>2, <2>2, <3>1, TimesAssumption
  <2>4. QED
    BY <1>3, <2>1, <2>2, <2>3, Zenon
<1>5. \A n \in Nonces : opened[n] # NoSession =>
           /\ opened'[n].ended <=> opened[n].ended
           /\ opened'[n].excused <=> opened[n].excused \/ (unsaved /\ n \notin NoncesOf(revoked'))
  BY RestartFacts, Zenon
<1>6. \A n \in Nonces : opened'[n] # NoSession <=> opened[n] # NoSession
  BY Restarts, Zenon DEF Marks
<1>7. \A u \in tokens : u \in Token /\ u.nonce \in Nonces /\ u.left \in Lives /\ opened[u.nonce] # NoSession
  BY TokenFields, Zenon DEF TypesInv, ProvenInv
<1>8. MapsInv'
  BY <1>3, <1>4, Zenon DEF OutsInv, MapsInv
<1>9. \A q \in Entries(map) : opened'[q.nonce] # NoSession => opened'[q.nonce].ended
  BY <1>1, <1>2, <1>5, <1>6, EntriesTyped, Zenon DEF OutsInv, ClosedInv, ClosedIn
<1>10. ClosedInv'
  BY <1>1, <1>3, <1>4, <1>9, Zenon DEF ClosedInv, ClosedIn
<1>11. ASSUME NEW u \in tokens, u.base = disk.base, u.left > 0, Out(opened'[u.nonce])
       PROVE  u.nonce \in NoncesOf(revoked') /\ Lasting(map, u)
  <2>1. opened[u.nonce].ended /\ ~opened[u.nonce].excused /\ ~(unsaved /\ u.nonce \notin NoncesOf(revoked'))
    BY <1>5, <1>7, <1>11, Zenon DEF Out
  <2>2. Out(opened[u.nonce])
    BY <2>1, Zenon DEF Out
  <2>3. Lasting(map, u)
    BY <1>1, <1>11, <2>2, Zenon DEF OutsInv, DiskInv
  <2>4. CASE unsaved
    BY <2>1, <2>3, <2>4, Zenon
  <2>5. CASE ~unsaved
    <3>1. base = disk.base /\ \A r \in Entries(revoked) : r.left > 0 => r \in Entries(map)
      BY <1>1, <2>5, Zenon DEF OutsInv, SavedInv
    <3>2. u.nonce \in NoncesOf(revoked) /\ Lasting(revoked, u)
      BY <1>11, <2>2, <3>1, Zenon DEF OutsInv, OutInv
    <3>3. revoked \in Seq(Revocation)
      BY Zenon DEF OutsInv, MapsInv
    <3>4. PICK q \in Entries(revoked) : q.nonce = u.nonce
      BY <3>2, <3>3, EntriesTyped, Zenon
    <3>5. q.left \in Lives /\ u.left <= q.left
      BY <3>2, <3>3, <3>4, EntriesTyped, Zenon DEF Lasting
    <3>6. q.left > 0
      BY <1>7, <1>11, <3>5 DEF Lives
    <3>7. q \in Entries(revoked')
      BY <1>4, <3>1, <3>4, <3>6, Zenon
    <3>8. u.nonce \in NoncesOf(revoked')
      BY <1>4, <3>4, <3>7, EntriesTyped, Zenon
    <3>9. QED
      BY <2>3, <3>8
  <2>6. QED
    BY <2>4, <2>5
<1>12. OutInv'
  <2>1. \A u : Lasting(map, u) => Lasting(revoked', u)
    BY <1>4, Zenon DEF Lasting
  <2>2. QED
    BY <1>3, <1>11, <2>1, Zenon DEF OutInv
<1>13. DiskInv'
  BY <1>1, <1>3, <1>11, Zenon DEF DiskInv
<1>14. SavedInv'
  BY <1>1, <1>3, <1>4, Zenon DEF SavedInv
<1>15. QED
  BY <1>8, <1>10, <1>12, <1>13, <1>14, Zenon DEF OutsInv

\* There is no file: the new key signed nothing.
LEMMA OutAnew ==
  ASSUME TypesInv, ProvenInv, OutsInv, Restart, disk = NoFile
  PROVE  OutsInv'
<1>1. /\ base' \in FreshBases /\ revoked' = <<>> /\ Persist /\ opened' = opened /\ tokens' = tokens
  BY Zenon DEF Restart
<1>2. PICK b : b = base'
  OBVIOUS
<1>3. b \in Bases /\ \A t \in tokens : t.base # b
  BY <1>1, <1>2, Zenon DEF FreshBases
<1>4. revoked' \in Seq(Revocation) /\ Len(revoked') <= MaxRevoked /\ Entries(revoked') = {}
  BY <1>1, EmptyMap, Zenon
<1>5. \/ /\ disk' \in [base : Bases, revoked : Seq(Revocation)]
         /\ disk'.base = b /\ disk'.revoked = revoked' /\ unsaved' = FALSE
      \/ disk' = NoFile /\ unsaved' = TRUE
  BY <1>1, <1>2, <1>3, <1>4, Persisted, Zenon
<1>6. MapsInv'
  BY <1>4, <1>5, Zenon DEF MapsInv
<1>7. ClosedInv'
  BY <1>4, <1>5, Zenon DEF ClosedInv, ClosedIn
<1>8. OutInv' /\ DiskInv'
  BY <1>1, <1>2, <1>3, <1>5, Zenon DEF OutInv, DiskInv
<1>9. SavedInv'
  BY <1>2, <1>4, <1>5, Zenon DEF SavedInv
<1>10. QED
  BY <1>6, <1>7, <1>8, <1>9, Zenon DEF OutsInv

LEMMA TickFacts ==
  ASSUME TypesInv, ProvenInv, Tick
  PROVE  /\ \A u \in tokens' : \E t \in tokens :
              /\ t.left > 0 /\ t.left \in Lives /\ u.left = t.left - 1
              /\ u.nonce = t.nonce /\ u.base = t.base
              /\ Out(opened'[u.nonce]) <=> Out(opened[t.nonce])
         /\ \A n \in Nonces : opened'[n] # NoSession =>
              opened[n] # NoSession /\ (opened'[n].ended <=> opened[n].ended)
<1> DEFINE kept == {t \in tokens : t.left > 0}
           older(t) == [t EXCEPT !.left = t.left - 1]
           y(n) == [opened[n] EXCEPT !.idle = Older(opened[n].idle)]
<1>1. /\ tokens' = {older(t) : t \in kept}
      /\ opened' = [n \in Nonces |-> IF n \notin {t.nonce : t \in kept} THEN NoSession ELSE y(n)]
  BY Zenon DEF Tick, Older
<1>2. ASSUME NEW t \in kept
      PROVE  /\ t \in tokens /\ t.left > 0 /\ t.left \in Lives /\ t.nonce \in Nonces
             /\ older(t).nonce = t.nonce /\ older(t).base = t.base /\ older(t).left = t.left - 1
             /\ opened[t.nonce] \in Session
  <2>1. t \in tokens /\ t \in Token /\ t.left > 0 /\ t.left \in Lives /\ t.nonce \in Nonces
    BY TokenFields, Zenon DEF TypesInv
  <2>2. PICK l \in Lives : l = t.left - 1
    BY <2>1, TimesAssumption DEF Lives
  <2>3. opened[t.nonce] \in Session
    BY <2>1, Zenon DEF TypesInv, ProvenInv
  <2>4. older(t) = Expires(t, l)
    BY <2>2, Zenon DEF Expires
  <2>5. /\ Expires(t, l).nonce = t.nonce /\ Expires(t, l).base = t.base /\ Expires(t, l).left = l
    BY <2>1, ExpiresTyped, Zenon
  <2> HIDE DEF older
  <2>6. QED
    BY <2>1, <2>2, <2>3, <2>4, <2>5, Zenon
<1>3. ASSUME NEW n \in Nonces, opened[n] \in Session
      PROVE  y(n).ended = opened[n].ended /\ y(n).excused = opened[n].excused /\ opened[n] # NoSession
  <2>1. PICK a \in Lives : a = Older(opened[n].idle)
    BY <1>3, SessionFields, Ages, Zenon
  <2>2. y(n) = Idles(opened[n], a)
    BY <2>1, Zenon DEF Idles
  <2>3. Idles(opened[n], a).ended = opened[n].ended /\ Idles(opened[n], a).excused = opened[n].excused
    BY <1>3, IdlesTyped, Zenon
  <2> HIDE DEF y
  <2>4. QED
    BY <1>3, <2>2, <2>3, SessionFields, Zenon
<1> HIDE DEF older, y
<1>4. ASSUME NEW n \in Nonces, NEW t \in kept, t.nonce = n
      PROVE  /\ opened'[n].ended <=> opened[n].ended
             /\ Out(opened'[n]) <=> Out(opened[n])
             /\ opened[n] # NoSession
  <2>1. opened'[n] = y(n) /\ opened[n] \in Session
    BY <1>1, <1>2, <1>4, Zenon
  <2>2. QED
    BY <1>3, <2>1, Zenon DEF Out
<1>5. ASSUME NEW n \in Nonces, opened'[n] # NoSession
      PROVE  \E t \in kept : t.nonce = n
  BY <1>1, <1>5, Zenon
<1>6. ASSUME NEW u \in tokens'
      PROVE  \E t \in tokens :
              /\ t.left > 0 /\ t.left \in Lives /\ u.left = t.left - 1
              /\ u.nonce = t.nonce /\ u.base = t.base
              /\ Out(opened'[u.nonce]) <=> Out(opened[t.nonce])
  <2>1. PICK t \in kept : u = older(t)
    BY <1>1, <1>6, Zenon
  <2>2. QED
    BY <1>2, <1>4, <2>1, Zenon
<1> HIDE DEF kept
<1>7. QED
  BY <1>4, <1>5, <1>6, Zenon

\* Time passes for a map and for the cookies alike.
LEMMA AgedLasts ==
  ASSUME NEW map \in Seq(Revocation), NEW t, NEW u, Lasting(map, t), t.left > 0, t.left \in Lives,
         u.left = t.left - 1, u.nonce = t.nonce
  PROVE  Lasting(Aged(map), u)
<1>1. ASSUME NEW r \in Entries(Aged(map)), r.nonce = u.nonce
      PROVE  u.left <= r.left
  <2>1. PICK q \in Entries(map) : r = EntryOlder(q)
    BY <1>1, AgedKeeps, Zenon
  <2>2. q \in Revocation /\ q.left \in Lives /\ r.nonce = q.nonce /\ r.left = Less(q.left)
    BY <2>1, EntryOlderTyped, EntriesTyped, Zenon
  <2>3. t.left <= q.left
    BY <1>1, <2>1, <2>2, Zenon DEF Lasting
  <2>4. QED
    BY <2>2, <2>3 DEF Less, Lives
<1>2. QED
  BY <1>1, Zenon DEF Lasting

LEMMA OutTick ==
  ASSUME TypesInv, ProvenInv, OutsInv, Tick
  PROVE  OutsInv'
<1>1. /\ revoked' = Aged(revoked) /\ base' = base /\ unsaved' = unsaved
      /\ disk = NoFile => disk' = NoFile
  BY Zenon DEF Tick
<1>2. /\ revoked \in Seq(Revocation) /\ Len(revoked) <= MaxRevoked
      /\ disk # NoFile => disk.revoked \in Seq(Revocation) /\ Len(disk.revoked) <= MaxRevoked
  BY Zenon DEF OutsInv, MapsInv
<1>3. ASSUME disk # NoFile
      PROVE  /\ disk' \in [base : Bases, revoked : Seq(Revocation)]
             /\ disk'.base = disk.base /\ disk'.revoked = Aged(disk.revoked)
  <2>1. disk \in [base : Bases, revoked : Seq(Revocation)]
    BY <1>3, Zenon DEF OutsInv, MapsInv
  <2>2. disk' = [disk EXCEPT !.revoked = Aged(disk.revoked)]
    BY <1>3, Zenon DEF Tick
  <2>3. Aged(disk.revoked) \in Seq(Revocation)
    BY <1>2, <1>3, AgedKeeps, Zenon
  <2>4. QED
    BY <2>1, <2>2, <2>3, Zenon
<1>4. MapsInv'
  <2>1. Aged(revoked) \in Seq(Revocation) /\ Len(Aged(revoked)) <= MaxRevoked
    BY <1>2, AgedKeeps, Zenon
  <2>2. disk # NoFile => Aged(disk.revoked) \in Seq(Revocation) /\ Len(Aged(disk.revoked)) <= MaxRevoked
    BY <1>2, AgedKeeps, Zenon
  <2>3. QED
    BY <1>1, <1>3, <2>1, <2>2, Zenon DEF MapsInv
<1>5. ASSUME NEW map \in Seq(Revocation), ClosedIn(map)
      PROVE  \A r \in Entries(Aged(map)) : opened'[r.nonce] # NoSession => opened'[r.nonce].ended
  <2>1. ASSUME NEW r \in Entries(Aged(map)), opened'[r.nonce] # NoSession
        PROVE  opened'[r.nonce].ended
    <3>1. PICK q \in Entries(map) : r = EntryOlder(q)
      BY <2>1, AgedKeeps, Zenon
    <3>2. q \in Revocation /\ q.nonce \in Nonces /\ r.nonce = q.nonce
      BY <3>1, EntryOlderTyped, EntriesTyped, Zenon
    <3>3. QED
      BY <1>5, <2>1, <3>1, <3>2, TickFacts, Zenon DEF ClosedIn
  <2>2. QED
    BY <2>1, Zenon
<1>6. ClosedInv'
  BY <1>1, <1>2, <1>3, <1>5, Zenon DEF OutsInv, ClosedInv, ClosedIn
<1>7. ASSUME NEW map \in Seq(Revocation)
      PROVE  \A n : n \in NoncesOf(map) => n \in NoncesOf(Aged(map))
  <2>1. Aged(map) \in Seq(Revocation)
    BY AgedKeeps, Zenon
  <2>2. ASSUME NEW n, n \in NoncesOf(map)
        PROVE  n \in NoncesOf(Aged(map))
    <3>1. PICK q \in Entries(map) : q.nonce = n
      BY <2>2, EntriesTyped, Zenon
    <3>2. EntryOlder(q) \in Entries(Aged(map)) /\ EntryOlder(q).nonce = n
      BY <3>1, AgedKeeps, EntryOlderTyped, EntriesTyped, Zenon
    <3>3. QED
      BY <2>1, <3>2, EntriesTyped, Zenon
  <2>3. QED
    BY <2>2, Zenon
<1>8. OutInv'
  <2>1. ASSUME NEW u \in tokens', u.base = base', u.left > 0, Out(opened'[u.nonce])
        PROVE  u.nonce \in NoncesOf(revoked') /\ Lasting(revoked', u)
    <3>1. PICK t \in tokens :
              /\ t.left > 0 /\ t.left \in Lives /\ u.left = t.left - 1
              /\ u.nonce = t.nonce /\ u.base = t.base
              /\ Out(opened'[u.nonce]) <=> Out(opened[t.nonce])
      BY TickFacts, Zenon
    <3>2. t.nonce \in NoncesOf(revoked) /\ Lasting(revoked, t)
      BY <1>1, <2>1, <3>1, Zenon DEF OutsInv, OutInv
    <3>3. QED
      BY <1>1, <1>2, <1>7, <3>1, <3>2, AgedLasts, Zenon
  <2>2. QED
    BY <2>1, Zenon DEF OutInv
<1>9. DiskInv'
  <2>1. ASSUME disk' # NoFile, NEW u \in tokens', u.base = disk'.base, u.left > 0, Out(opened'[u.nonce])
        PROVE  Lasting(disk'.revoked, u)
    <3>1. PICK t \in tokens :
              /\ t.left > 0 /\ t.left \in Lives /\ u.left = t.left - 1
              /\ u.nonce = t.nonce /\ u.base = t.base
              /\ Out(opened'[u.nonce]) <=> Out(opened[t.nonce])
      BY TickFacts, Zenon
    <3>2. disk # NoFile
      BY <1>1, <2>1, Zenon
    <3>3. Lasting(disk.revoked, t)
      BY <1>3, <2>1, <3>1, <3>2, Zenon DEF OutsInv, DiskInv
    <3>4. QED
      BY <1>2, <1>3, <3>1, <3>2, <3>3, AgedLasts, Zenon
  <2>2. QED
    BY <2>1, Zenon DEF DiskInv
<1>10. SavedInv'
  <2>1. ASSUME ~unsaved', disk' # NoFile
        PROVE  disk'.base = base' /\ \A r \in Entries(revoked') : r.left > 0 => r \in Entries(disk'.revoked)
    <3>1. disk # NoFile /\ disk.base = base /\ \A r \in Entries(revoked) : r.left > 0 => r \in Entries(disk.revoked)
      BY <1>1, <2>1, Zenon DEF OutsInv, SavedInv
    <3>2. ASSUME NEW r \in Entries(Aged(revoked)), r.left > 0
          PROVE  r \in Entries(Aged(disk.revoked))
      <4>1. PICK q \in Entries(revoked) : r = EntryOlder(q)
        BY <1>2, <3>2, AgedKeeps, Zenon
      <4>2. q \in Revocation /\ q.left \in Lives /\ r.left = Less(q.left)
        BY <1>2, <4>1, EntryOlderTyped, EntriesTyped, Zenon
      <4>3. q.left > 0
        BY <3>2, <4>2 DEF Less, Lives
      <4>4. q \in Entries(disk.revoked)
        BY <3>1, <4>1, <4>3, Zenon
      <4>5. QED
        BY <1>2, <3>1, <4>1, <4>4, AgedKeeps, Zenon
    <3>3. QED
      BY <1>1, <1>3, <3>1, <3>2, Zenon
  <2>2. QED
    BY <2>1, Zenon DEF SavedInv
<1>11. QED
  BY <1>4, <1>6, <1>8, <1>9, <1>10, Zenon DEF OutsInv

LEMMA OutStep == TypesInv /\ ProvenInv /\ OutsInv /\ [Next]_vars => OutsInv'
<1> SUFFICES ASSUME TypesInv, ProvenInv, OutsInv, [Next]_vars PROVE OutsInv'
  OBVIOUS
<1>1. attempts \in [Attempts -> Attempt] /\ change \in Change /\ base \in Bases
  BY Zenon DEF TypesInv
<1>2. "checking" # "idle" /\ "saving" # "idle" /\ "reloading" # "idle" /\ "finishing" # "idle"
  OBVIOUS
<1>3. ASSUME NEW a \in Attempts, Post(a) \/ Read(a) \/ Reject(a)
      PROVE  OutsInv'
  BY <1>3, OutStill, Zenon DEF Post, Read, Reject, secrets
<1>4. ASSUME NEW a \in Attempts, Accept(a)
      PROVE  OutsInv'
  <2>1. attempts[a].against \in Hashes /\ Issue(base, attempts[a].against)
    BY <1>1, <1>4, AttemptCases, Zenon DEF Accept
  <2>2. UNCHANGED <<base, revoked, disk, unsaved>>
    BY <1>4, Zenon DEF Accept, secrets
  <2>3. QED
    BY <2>1, <2>2, OutIssued, Zenon
<1>5. ASSUME NEW t \in tokens, OpenPage(t)
      PROVE  OutsInv'
  BY <1>5, OutPage, Zenon
<1>6. ASSUME NEW t \in tokens, SignOut(t)
      PROVE  OutsInv'
  BY <1>6, OutSignOut, Zenon
<1>7. CASE StartChange \/ SaveChange \/ ReloadChange
  BY <1>7, OutStill, Zenon DEF StartChange, SaveChange, ReloadChange, secrets
<1>8. CASE FinishChange
  <2>1. change.new \in Hashes
    BY <1>1, <1>2, <1>8, ChangeCases, Zenon DEF FinishChange
  <2>2. QED
    BY <1>8, <2>1, OutFinish, Zenon DEF FinishChange
<1>9. CASE FinishClaim
  <2>1. change.new \in Hashes
    BY <1>1, <1>2, <1>9, ChangeCases, Zenon DEF FinishClaim
  <2>2. UNCHANGED <<base, revoked, disk, unsaved>>
    BY <1>9, Zenon DEF FinishClaim, secrets
  <2>3. QED
    BY <1>9, <2>1, <2>2, OutIssued, Zenon DEF FinishClaim
<1>10. CASE HandEdit \/ Reload
  BY <1>10, OutStill, Zenon DEF HandEdit, Reload
<1>11. CASE LoseFile
  BY <1>11, OutLose, Zenon
<1>12. CASE Restart
  BY <1>12, OutRead, OutAnew, Zenon
<1>13. CASE Tick
  BY <1>13, OutTick, Zenon
<1>14. CASE UNCHANGED vars
  BY <1>14, OutStill, Zenon DEF vars, secrets
<1>15. QED
  BY <1>3, <1>4, <1>5, <1>6, <1>7, <1>8, <1>9, <1>10, <1>11, <1>12, <1>13, <1>14,
     Zenon DEF Next, SignIn, Present, ChangePassword, Environment

LEMMA OutInit == Init => OutsInv
<1> SUFFICES ASSUME Init PROVE OutsInv
  OBVIOUS
<1>1. disk = [base |-> base, revoked |-> <<>>] /\ base \in Bases /\ tokens = {} /\ revoked = <<>>
  BY Zenon DEF Init
<1>2. disk.base = base /\ disk.revoked = <<>>
  BY <1>1
<1>3. disk \in [base : Bases, revoked : Seq(Revocation)]
  BY <1>1, EmptyMap, Zenon
<1>4. QED
  BY <1>1, <1>2, <1>3, EmptyMap, Zenon
     DEF OutsInv, MapsInv, ClosedInv, ClosedIn, OutInv, DiskInv, SavedInv

LEMMA OutsInvariant == Spec => []OutsInv
<1>1. IInv /\ OutsInv /\ [Next]_vars => OutsInv'
  BY OutStep, Zenon DEF IInv
<1>2. QED
  BY <1>1, OutInit, Invariant, PTL DEF Spec

(* A session that was signed out is out: no cookie of it verifies, however *)
(* often it had been renewed, and no restart brings it back                *)
(* (core/session.ts:264, :139), unless the full set of revoked sessions    *)
(* evicted it or it could not be written before the process ended.         *)
THEOREM SignOutIsFinal == Spec => []SignedOutStaysOut
<1>1. OutsInv => SignedOutStaysOut
  BY Zenon DEF OutsInv, OutInv, SignedOutStaysOut, Verifies, Out
<1>2. QED
  BY <1>1, OutsInvariant, PTL

-----------------------------------------------------------------------------
(* Guesses.                                                                *)

Posts == {a \in Attempts : attempts[a].pc = "posted"}

\* What f failures, a block of b and a time e since the count was cleared have cost.
Paid(f, b, e) ==
  f >= FreeAttempts =>
    /\ e >= Penalty[f - FreeAttempts]
    /\ \/ e + b >= Penalty[f - FreeAttempts + 1]
       \/ e >= Penalty[MaxFailures - FreeAttempts]

CountsInv ==
  /\ throttle \in [failures : 0..MaxFailures, blocked : 0..MaxDelay]
  /\ guessing \in [tried : Nat, carried : Nat, elapsed : Nat]
  /\ guessing.tried + Cardinality(Posts) <= guessing.carried + throttle.failures
  /\ Paid(throttle.failures, throttle.blocked, guessing.elapsed)

LEMMA PaidPost ==
  ASSUME NEW f \in 0..MaxFailures, f < MaxFailures, NEW e \in Nat, Paid(f, 0, e)
  PROVE  Paid(f + 1, IF f + 1 < FreeAttempts THEN 0 ELSE Delay(f + 1 - FreeAttempts), e)
<1> SUFFICES ASSUME f + 1 >= FreeAttempts
             PROVE  /\ e >= Penalty[f + 1 - FreeAttempts]
                    /\ \/ e + Delay(f + 1 - FreeAttempts) >= Penalty[f + 1 - FreeAttempts + 1]
                       \/ e >= Penalty[MaxFailures - FreeAttempts]
  BY TimesAssumption DEF Paid
<1>1. PICK k \in 0..MaxFailures : k = f + 1 - FreeAttempts
  BY TimesAssumption
<1>2. PICK last \in 0..MaxFailures : last = MaxFailures - FreeAttempts
  BY TimesAssumption
<1>3. k <= last /\ k + 1 \in 1..MaxFailures /\ k \in 0..last
  BY <1>1, <1>2, TimesAssumption
<1>4. Penalty[k] \in Nat /\ Penalty[k] <= Penalty[last] /\ Penalty[last] \in Nat
  BY <1>3, PenaltyGrows, Zenon
<1>5. PICK m \in 1..MaxFailures : m = k + 1
  BY <1>3, Zenon
<1>6. Penalty[k + 1] = Penalty[k] + Delay(k)
  <2>1. m - 1 = k
    BY <1>5
  <2>2. Penalty[m] = Penalty[m - 1] + Delay(m - 1)
    BY PenaltyStep, Zenon
  <2>3. QED
    BY <1>5, <2>1, <2>2, Zenon
<1>7. e >= Penalty[k]
  <2>1. CASE f >= FreeAttempts
    <3>1. f - FreeAttempts + 1 = k /\ MaxFailures - FreeAttempts = last /\ e + 0 = e
      BY <1>1, <1>2, TimesAssumption
    <3>2. e >= Penalty[k] \/ e >= Penalty[last]
      BY <2>1, <3>1, Zenon DEF Paid
    <3>3. QED
      BY <1>4, <3>2
  <2>2. CASE ~(f >= FreeAttempts)
    <3>1. k = 0
      BY <1>1, <2>2, TimesAssumption
    <3>2. QED
      BY <3>1, PenaltyStep
  <2>3. QED
    BY <2>1, <2>2
<1>8. PICK d \in 0..MaxDelay : d = Delay(k)
  BY DelayType, Zenon
<1>9. e + d >= Penalty[k + 1]
  BY <1>4, <1>6, <1>7, <1>8, TimesAssumption
<1>10. QED
  BY <1>1, <1>7, <1>8, <1>9, Zenon

LEMMA PaidTick ==
  ASSUME NEW f \in 0..MaxFailures, NEW b \in 0..MaxDelay, NEW e \in Nat, Paid(f, b, e)
  PROVE  Paid(f, Less(b), IF e < Penalty[MaxFailures - FreeAttempts] THEN e + 1 ELSE e)
<1> SUFFICES ASSUME f >= FreeAttempts
             PROVE  LET d == IF e < Penalty[MaxFailures - FreeAttempts] THEN e + 1 ELSE e
                    IN  /\ d >= Penalty[f - FreeAttempts]
                        /\ \/ d + Less(b) >= Penalty[f - FreeAttempts + 1]
                           \/ d >= Penalty[MaxFailures - FreeAttempts]
  BY TimesAssumption, Zenon DEF Paid
<1>1. PICK x : x = Penalty[f - FreeAttempts]
  OBVIOUS
<1>2. PICK y : y = Penalty[f - FreeAttempts + 1]
  OBVIOUS
<1>3. PICK z : z = Penalty[MaxFailures - FreeAttempts]
  OBVIOUS
<1>4. f - FreeAttempts \in 0..MaxFailures /\ f - FreeAttempts + 1 \in 0..MaxFailures
        /\ MaxFailures - FreeAttempts \in 0..MaxFailures
  BY TimesAssumption
<1>5. x \in Nat /\ y \in Nat /\ z \in Nat
  BY <1>1, <1>2, <1>3, <1>4, PenaltyGrows, Zenon
<1>6. e >= x /\ (e + b >= y \/ e >= z)
  BY <1>1, <1>2, <1>3, Zenon DEF Paid
<1>7. LET d == IF e < z THEN e + 1 ELSE e
      IN  d >= x /\ (d + Less(b) >= y \/ d >= z)
  BY <1>5, <1>6, TimesAssumption DEF Less
<1>8. QED
  BY <1>1, <1>2, <1>3, <1>7, Zenon

LEMMA Posted ==
  ASSUME TypesInv
  PROVE  IsFiniteSet(Posts) /\ Cardinality(Posts) \in Nat
<1>1. IsFiniteSet(Posts)
  BY AttemptsAssumption, FS_Subset, Zenon DEF Posts
<1>2. QED
  BY <1>1, FS_CardinalityType, Zenon

LEMMA PcOf ==
  /\ Idle.pc = "idle" /\ [pc |-> "posted"].pc = "posted"
  /\ \A h, r : [pc |-> "checking", against |-> h, right |-> r].pc = "checking"
  /\ "idle" # "posted" /\ "checking" # "posted" /\ "idle" # "checking"
BY DEF Idle

LEMMA CountsStill ==
  ASSUME TypesInv, CountsInv, UNCHANGED <<throttle, guessing>>, Posts' = Posts
  PROVE  CountsInv'
BY Zenon DEF CountsInv

LEMMA CountsPost ==
  ASSUME TypesInv, CountsInv, NEW a \in Attempts, Post(a)
  PROVE  CountsInv'
<1>1. /\ attempts[a] = Idle /\ throttle.blocked = 0 /\ throttle.failures < MaxFailures
      /\ attempts' = [attempts EXCEPT ![a] = [pc |-> "posted"]]
      /\ throttle' = recordFailure(throttle) /\ guessing' = guessing
  BY Zenon DEF Post
<1>2. Posts' = Posts \cup {a} /\ a \notin Posts
  <2>1. attempts'[a].pc = "posted" /\ \A b \in Attempts : b # a => attempts'[b] = attempts[b]
    BY <1>1, PcOf, Zenon DEF TypesInv
  <2>2. attempts[a].pc # "posted"
    BY <1>1, PcOf, Zenon
  <2>3. \A b \in Attempts : attempts'[b].pc = "posted" <=> b = a \/ attempts[b].pc = "posted"
    BY <2>1, Zenon
  <2>4. QED
    BY <2>2, <2>3, Zenon DEF Posts
<1>3. PICK n : n = Cardinality(Posts)
  OBVIOUS
<1>4. n \in Nat /\ Cardinality(Posts') = n + 1
  <2>1. IsFiniteSet(Posts) /\ n \in Nat
    BY <1>3, Posted, Zenon
  <2>2. Cardinality(Posts \cup {a}) = Cardinality(Posts) + 1
    BY <1>2, <2>1, FS_AddElement, Zenon
  <2>3. QED
    BY <1>2, <1>3, <2>1, <2>2, Zenon
<1>5. PICK f \in 0..MaxFailures : f = throttle.failures
  BY DEF CountsInv
<1>6. PICK d \in 0..MaxDelay : d = IF f + 1 < FreeAttempts THEN 0 ELSE Delay(f + 1 - FreeAttempts)
  <2>1. CASE f + 1 < FreeAttempts
    BY <2>1, TimesAssumption
  <2>2. CASE ~(f + 1 < FreeAttempts)
    <3>1. f + 1 - FreeAttempts \in 0..MaxFailures
      BY <1>1, <1>5, <2>2, TimesAssumption
    <3>2. Delay(f + 1 - FreeAttempts) \in 0..MaxDelay
      BY <3>1, DelayType, Zenon
    <3>3. QED
      BY <2>2, <3>2, Zenon
  <2>3. QED
    BY <2>1, <2>2
<1>7. throttle' = [failures |-> f + 1, blocked |-> d]
  <2>1. d = IF f + 1 < FreeAttempts THEN throttle.blocked ELSE Delay(f + 1 - FreeAttempts)
    BY <1>1, <1>6, Zenon
  <2>2. recordFailure(throttle) = [failures |-> f + 1, blocked |-> d]
    <3>1. CASE f + 1 < FreeAttempts
      <4>1. d = throttle.blocked
        BY <2>1, <3>1, Zenon
      <4>2. QED
        BY <1>5, <3>1, <4>1, TimesAssumption DEF recordFailure
    <3>2. CASE ~(f + 1 < FreeAttempts)
      <4>1. d = Delay(f + 1 - FreeAttempts)
        BY <2>1, <3>2, Zenon
      <4>2. QED
        BY <1>5, <3>2, <4>1, TimesAssumption DEF recordFailure
    <3>3. QED
      BY <3>1, <3>2
  <2>3. QED
    BY <1>1, <2>2, Zenon
<1>8. /\ throttle' \in [failures : 0..MaxFailures, blocked : 0..MaxDelay]
      /\ throttle'.failures = f + 1 /\ throttle'.blocked = d
  BY <1>1, <1>5, <1>7, TimesAssumption
<1>9. guessing \in [tried : Nat, carried : Nat, elapsed : Nat]
  BY Zenon DEF CountsInv
<1>10. Paid(f + 1, d, guessing.elapsed)
  <2>1. Paid(f, 0, guessing.elapsed) /\ guessing.elapsed \in Nat
    BY <1>1, <1>5, <1>9, Zenon DEF CountsInv
  <2>2. QED
    BY <1>1, <1>5, <1>6, <2>1, PaidPost, Zenon
<1>11. guessing.tried + (n + 1) <= guessing.carried + (f + 1)
  <2>1. guessing.tried + n <= guessing.carried + f
    BY <1>3, <1>5, Zenon DEF CountsInv
  <2>2. guessing.tried \in Nat /\ guessing.carried \in Nat
    BY <1>9
  <2>3. QED
    BY <1>4, <2>1, <2>2
<1>12. QED
  BY <1>1, <1>4, <1>8, <1>9, <1>10, <1>11, Zenon DEF CountsInv

LEMMA CountsRead ==
  ASSUME TypesInv, CountsInv, NEW a \in Attempts, Read(a)
  PROVE  CountsInv'
<1>1. attempts[a].pc = "posted" /\ throttle' = throttle
  BY Zenon DEF Read
<1>2. PICK x \in {Idle} \cup [pc : {"checking"}, against : Hashes \cup {NoHash}, right : BOOLEAN] :
        attempts' = [attempts EXCEPT ![a] = x]
  <2>1. CASE attempts' = [attempts EXCEPT ![a] = Idle]
    BY <2>1, Zenon
  <2>2. CASE \E right \in BOOLEAN :
               attempts' = [attempts EXCEPT ![a] = [pc |-> "checking", against |-> hash, right |-> right]]
    <3>1. PICK right \in BOOLEAN :
               attempts' = [attempts EXCEPT ![a] = [pc |-> "checking", against |-> hash, right |-> right]]
      BY <2>2, Zenon
    <3>2. [pc |-> "checking", against |-> hash, right |-> right]
            \in [pc : {"checking"}, against : Hashes \cup {NoHash}, right : BOOLEAN]
      BY Zenon DEF TypesInv
    <3>3. QED
      BY <3>1, <3>2, Zenon
  <2>3. QED
    BY <2>1, <2>2, Zenon DEF Read
<1>3. x.pc # "posted"
  BY PcOf, Zenon
<1>4. Posts' = Posts \ {a} /\ a \in Posts
  <2>1. attempts'[a] = x /\ \A b \in Attempts : b # a => attempts'[b] = attempts[b]
    BY <1>2, Zenon DEF TypesInv
  <2>2. QED
    BY <1>1, <1>3, <2>1, Zenon DEF Posts
<1>5. PICK n : n = Cardinality(Posts)
  OBVIOUS
<1>6. n \in Nat /\ Cardinality(Posts') = n - 1
  <2>1. IsFiniteSet(Posts) /\ n \in Nat
    BY <1>5, Posted, Zenon
  <2>2. Cardinality(Posts \ {a}) = Cardinality(Posts) - 1
    BY <1>4, <2>1, FS_RemoveElement, Zenon
  <2>3. QED
    BY <1>4, <1>5, <2>1, <2>2, Zenon
<1>7. guessing \in [tried : Nat, carried : Nat, elapsed : Nat]
  BY Zenon DEF CountsInv
<1>8. \/ guessing' = guessing
      \/ guessing' = [guessing EXCEPT !.tried = guessing.tried + 1]
  BY Zenon DEF Read
<1>9. /\ guessing' \in [tried : Nat, carried : Nat, elapsed : Nat]
      /\ guessing'.carried = guessing.carried /\ guessing'.elapsed = guessing.elapsed
      /\ guessing'.tried \in Nat /\ guessing'.tried <= guessing.tried + 1
  BY <1>7, <1>8
<1>10. guessing'.tried + (n - 1) <= guessing.carried + throttle.failures
  <2>1. guessing.tried + n <= guessing.carried + throttle.failures
    BY <1>5, Zenon DEF CountsInv
  <2>2. guessing.tried \in Nat /\ guessing.carried \in Nat /\ throttle.failures \in Nat
    BY <1>7, TimesAssumption DEF CountsInv
  <2>3. QED
    BY <1>6, <1>9, <2>1, <2>2
<1>11. QED
  BY <1>1, <1>6, <1>9, <1>10, Zenon DEF CountsInv

\* The count is cleared: what is on its way is carried over.
LEMMA CountsCleared ==
  ASSUME throttle' = Unthrottled, NEW p \in Nat, guessing' = Guesses(p), Cardinality(Posts') = p
  PROVE  CountsInv'
<1>1. throttle' = [failures |-> 0, blocked |-> 0] /\ guessing' = [tried |-> 0, carried |-> p, elapsed |-> 0]
  BY Zenon DEF Unthrottled, Guesses
<1>2. /\ throttle'.failures = 0 /\ throttle'.blocked = 0
      /\ guessing'.tried = 0 /\ guessing'.carried = p /\ guessing'.elapsed = 0
      /\ throttle' \in [failures : 0..MaxFailures, blocked : 0..MaxDelay]
      /\ guessing' \in [tried : Nat, carried : Nat, elapsed : Nat]
  BY <1>1, TimesAssumption
<1>3. Paid(0, 0, 0)
  BY TimesAssumption DEF Paid
<1>4. 0 + p <= p + 0
  OBVIOUS
<1>5. QED
  BY <1>2, <1>3, <1>4, Zenon DEF CountsInv

LEMMA CountsTick ==
  ASSUME TypesInv, CountsInv, Tick
  PROVE  CountsInv'
<1>1. PICK f \in 0..MaxFailures, b \in 0..MaxDelay : throttle.failures = f /\ throttle.blocked = b
  BY DEF CountsInv
<1>2. PICK e \in Nat : e = guessing.elapsed
  BY DEF CountsInv
<1>3. PICK d : d = IF e < Penalty[MaxFailures - FreeAttempts] THEN e + 1 ELSE e
  OBVIOUS
<1>4. PICK c : c = Less(b)
  OBVIOUS
<1>5. d \in Nat /\ c \in 0..MaxDelay
  <2>1. d = e \/ d = e + 1
    BY <1>3, Zenon
  <2>2. QED
    BY <1>4, <2>1, TimesAssumption DEF Less
<1>6. throttle' = [throttle EXCEPT !.blocked = c] /\ guessing' = [guessing EXCEPT !.elapsed = d]
        /\ attempts' = attempts
  BY <1>1, <1>2, <1>3, <1>4, Zenon DEF Tick
<1>7. throttle \in [failures : 0..MaxFailures, blocked : 0..MaxDelay]
        /\ guessing \in [tried : Nat, carried : Nat, elapsed : Nat]
  BY Zenon DEF CountsInv
<1>8. /\ throttle' \in [failures : 0..MaxFailures, blocked : 0..MaxDelay]
      /\ guessing' \in [tried : Nat, carried : Nat, elapsed : Nat]
      /\ throttle'.failures = f /\ throttle'.blocked = c
      /\ guessing'.elapsed = d /\ guessing'.tried = guessing.tried /\ guessing'.carried = guessing.carried
  BY <1>1, <1>5, <1>6, <1>7
<1>9. Posts' = Posts
  BY <1>6, Zenon DEF Posts
<1>10. Paid(f, c, d)
  <2>1. Paid(f, b, e)
    BY <1>1, <1>2, Zenon DEF CountsInv
  <2>2. QED
    BY <1>3, <1>4, <2>1, PaidTick, Zenon
<1>11. guessing.tried + Cardinality(Posts) <= guessing.carried + f
  BY <1>1, Zenon DEF CountsInv
<1>12. QED
  BY <1>8, <1>9, <1>10, <1>11, Zenon DEF CountsInv

LEMMA CountsStep == TypesInv /\ TypesInv' /\ CountsInv /\ [Next]_vars => CountsInv'
<1> SUFFICES ASSUME TypesInv, TypesInv', CountsInv, [Next]_vars PROVE CountsInv'
  OBVIOUS
<1>1. attempts \in [Attempts -> Attempt] /\ attempts' \in [Attempts -> Attempt]
  BY Zenon DEF TypesInv
<1>2. ASSUME NEW a \in Attempts, attempts[a].pc = "checking", attempts' = [attempts EXCEPT ![a] = Idle]
      PROVE  Posts' = Posts /\ Posts = {b \in Attempts \ {a} : attempts[b].pc = "posted"}
  <2>1. attempts'[a] = Idle /\ \A b \in Attempts : b # a => attempts'[b] = attempts[b]
    BY <1>1, <1>2, Zenon
  <2>2. attempts[a].pc # "posted" /\ attempts'[a].pc # "posted"
    BY <1>2, <2>1, PcOf, Zenon
  <2>3. \A b \in Attempts : attempts'[b].pc = "posted" <=> attempts[b].pc = "posted"
    BY <2>1, <2>2, Zenon
  <2>4. QED
    BY <2>2, <2>3, Zenon DEF Posts
<1>3. ASSUME UNCHANGED <<attempts, throttle, guessing>>
      PROVE  CountsInv'
  BY <1>3, CountsStill, Zenon DEF Posts
<1>4. ASSUME NEW a \in Attempts, Post(a)
      PROVE  CountsInv'
  BY <1>4, CountsPost, Zenon
<1>5. ASSUME NEW a \in Attempts, Read(a)
      PROVE  CountsInv'
  BY <1>5, CountsRead, Zenon
<1>6. ASSUME NEW a \in Attempts, Reject(a)
      PROVE  CountsInv'
  BY <1>2, <1>6, CountsStill, Zenon DEF Reject
<1>7. ASSUME NEW a \in Attempts, Accept(a)
      PROVE  CountsInv'
  <2>1. Posts' = Posts /\ Posts = {b \in Attempts \ {a} : attempts[b].pc = "posted"}
    BY <1>2, <1>7, Zenon DEF Accept
  <2>2. PICK p : p = Cardinality(Posts)
    OBVIOUS
  <2>3. p \in Nat
    BY <2>2, Posted, Zenon
  <2>4. throttle' = Unthrottled /\ guessing' = Guesses(p) /\ Cardinality(Posts') = p
    BY <1>7, <2>1, <2>2, Zenon DEF Accept
  <2>5. QED
    BY <2>3, <2>4, CountsCleared, Zenon
<1>8. ASSUME NEW t \in tokens, OpenPage(t) \/ SignOut(t)
      PROVE  CountsInv'
  BY <1>3, <1>8, Zenon DEF OpenPage, SignOut, routes
<1>9. CASE ChangePassword
  BY <1>3, <1>9, Zenon
     DEF ChangePassword, StartChange, SaveChange, ReloadChange, FinishChange, FinishClaim
<1>10. CASE HandEdit \/ LoseFile \/ Reload
  BY <1>3, <1>10, Zenon DEF HandEdit, LoseFile, Reload, routes
<1>11. CASE Restart
  <2>1. attempts' = [a \in Attempts |-> Idle] /\ throttle' = Unthrottled /\ guessing' = Guesses(0)
    BY <1>11, Zenon DEF Restart
  <2>2. Posts' = {}
    BY <2>1, PcOf, Zenon DEF Posts
  <2>3. Cardinality(Posts') = 0 /\ 0 \in Nat
    BY <2>2, FS_EmptySet
  <2>4. QED
    BY <2>1, <2>3, CountsCleared, Zenon
<1>12. CASE Tick
  BY <1>12, CountsTick, Zenon
<1>13. CASE UNCHANGED vars
  BY <1>3, <1>13, Zenon DEF vars, routes
<1>14. QED
  BY <1>4, <1>5, <1>6, <1>7, <1>8, <1>9, <1>10, <1>11, <1>12, <1>13,
     Zenon DEF Next, SignIn, Present, Environment

LEMMA CountsInit == Init => CountsInv
<1> SUFFICES ASSUME Init PROVE CountsInv
  OBVIOUS
<1>1. /\ throttle = [failures |-> 0, blocked |-> 0]
      /\ guessing = [tried |-> 0, carried |-> 0, elapsed |-> 0]
  BY Zenon DEF Init, Unthrottled, Guesses
<1>2. /\ throttle.failures = 0 /\ throttle.blocked = 0
      /\ guessing.tried = 0 /\ guessing.carried = 0 /\ guessing.elapsed = 0
      /\ throttle \in [failures : 0..MaxFailures, blocked : 0..MaxDelay]
      /\ guessing \in [tried : Nat, carried : Nat, elapsed : Nat]
  BY <1>1, TimesAssumption
<1>3. Posts = {}
  BY PcOf, Zenon DEF Posts, Init
<1>4. Cardinality(Posts) = 0
  BY <1>3, FS_EmptySet
<1>5. Paid(0, 0, 0) /\ 0 + 0 <= 0 + 0
  BY TimesAssumption DEF Paid
<1>6. QED
  BY <1>2, <1>4, <1>5, Zenon DEF CountsInv

LEMMA CountsInvariant == Spec => []CountsInv
<1>1. IInv /\ IInv' /\ CountsInv /\ [Next]_vars => CountsInv'
  BY CountsStep, Zenon DEF IInv
<1>2. QED
  BY <1>1, CountsInit, Invariant, PTL DEF Spec

(* Beyond the free ones, and those on their way when the last right        *)
(* password cleared the count, every guess of a password has been waited   *)
(* for, however many posts are under way together (web/routes.ts:198).     *)
THEOREM GuessingIsSlow == Spec => []GuessesAreSlow
<1>1. ASSUME IInv, CountsInv
      PROVE  GuessesAreSlow
  <2>1. PICK n : n = Cardinality(Posts)
    OBVIOUS
  <2>2. n \in Nat
    BY <1>1, <2>1, Posted, Zenon DEF IInv
  <2>3. PICK f \in 0..MaxFailures, b \in 0..MaxDelay : throttle.failures = f /\ throttle.blocked = b
    BY <1>1 DEF CountsInv
  <2>4. PICK m \in Nat, c \in Nat, e \in Nat :
          guessing.tried = m /\ guessing.carried = c /\ guessing.elapsed = e
    BY <1>1 DEF CountsInv
  <2>5. m + n <= c + f /\ Paid(f, b, e)
    BY <1>1, <2>1, <2>3, <2>4, Zenon DEF CountsInv
  <2>6. PICK over : over = m - c - FreeAttempts
    OBVIOUS
  <2>7. ASSUME over > 0
        PROVE  over \in 0..MaxFailures /\ e >= Penalty[over]
    <3>1. PICK k \in 0..MaxFailures : k = f - FreeAttempts
      BY <2>2, <2>5, <2>6, <2>7, TimesAssumption
    <3>2. f >= FreeAttempts /\ over \in 0..k /\ over \in 0..MaxFailures
      BY <2>2, <2>5, <2>6, <2>7, <3>1, TimesAssumption
    <3>3. e >= Penalty[k]
      BY <2>5, <3>1, <3>2, Zenon DEF Paid
    <3>4. Penalty[over] \in Nat /\ Penalty[k] \in Nat /\ Penalty[over] <= Penalty[k]
      BY <3>2, PenaltyGrows, Zenon
    <3>5. QED
      BY <3>2, <3>3, <3>4
  <2>8. DOMAIN Penalty = 0..MaxFailures
    BY PenaltyStep, Zenon
  <2>9. guessing.tried - guessing.carried - FreeAttempts = over /\ guessing.elapsed = e
    BY <2>4, <2>6, Zenon
  <2>10. QED
    BY <2>7, <2>8, <2>9, Zenon DEF GuessesAreSlow
<1>2. IInv /\ CountsInv => GuessesAreSlow
  BY <1>1
<1>3. QED
  BY <1>2, Invariant, CountsInvariant, PTL

-----------------------------------------------------------------------------
(* The types.                                                              *)

WrittenInv == unsaved \in BOOLEAN

LEMMA WrittenStep == WrittenInv /\ [Next]_vars => WrittenInv'
BY Zenon DEF WrittenInv, Next, SignIn, Post, Read, Reject, Accept, Present, OpenPage, SignOut, ChangePassword,
  StartChange, SaveChange, ReloadChange, FinishChange, FinishClaim, Environment, HandEdit, LoseFile,
  Reload, Restart, Tick, Persist, vars

(* Every variable keeps its type: the map and the file never hold more than *)
(* MAX_REVOKED revocations (core/session.ts:287), and no block is longer   *)
(* than MAX_DELAY_MS (core/loginThrottle.ts:43).                           *)
THEOREM TypeCorrect == Spec => []TypeOK
<1>1. Init => WrittenInv
  BY Zenon DEF Init, WrittenInv
<1>2. IInv /\ OutsInv /\ CountsInv /\ WrittenInv => TypeOK
  BY Zenon DEF IInv, TypesInv, OutsInv, MapsInv, CountsInv, WrittenInv, TypeOK
<1>3. QED
  BY <1>1, <1>2, WrittenStep, Invariant, OutsInvariant, CountsInvariant, PTL DEF Spec

=============================================================================
