--------------------------- MODULE Startup_proofs ---------------------------
(***************************************************************************)
(* Theorems about Startup, for any number of claims, saves, hand edits,    *)
(* sign-ins and restarts.                                                  *)
(*                                                                         *)
(* RuntimeIsFile alone is not inductive: it says nothing of what is about  *)
(* to be written.  TurnInv says that the saves take turns and that the     *)
(* page is still served while one writes.  ClaimInv says the same of a     *)
(* claim past its latch, and that nobody has a password by then; that a    *)
(* save and a claim never write at once follows from EditorInv, since      *)
(* whoever saves is signed in.  FollowInv and what it rests on hold only   *)
(* while no sign-in straddles a promotion, and are kept apart from IInv.   *)
(***************************************************************************)
EXTENDS Startup, TLAPS

-----------------------------------------------------------------------------
(* Texts, claims and saves under EXCEPT.                                   *)

LEMMA TextEdits ==
  ASSUME NEW t \in Text, NEW e \in SUBSET Edits, NEW p \in Passwords \cup {NoPassword, Unusable}
  PROVE  [t EXCEPT !.edits = @ \cup e, !.password = p] \in Text
BY Zenon DEF Text

LEMMA ClaimMoves ==
  ASSUME NEW x \in Claim, NEW pc \in {"idle", "hashing", "reading", "writing", "over"}
  PROVE  /\ [x EXCEPT !.pc = pc] \in Claim
         /\ [x EXCEPT !.pc = pc].pc = pc
         /\ [x EXCEPT !.pc = pc].text = x.text
         /\ [x EXCEPT !.pc = pc].raced = x.raced
BY Zenon DEF Claim

LEMMA ClaimsMove ==
  ASSUME claims \in [Claims -> Claim], NEW c \in Claims,
         NEW pc \in {"idle", "hashing", "reading", "writing", "over"}, ClaimIs(c, pc)
  PROVE  /\ claims' \in [Claims -> Claim]
         /\ claims'[c].pc = pc
         /\ \A d \in Claims : d # c => claims'[d] = claims[d]
<1>1. claims' = [claims EXCEPT ![c] = [claims[c] EXCEPT !.pc = pc]]
  BY Zenon DEF ClaimIs
<1>2. [claims[c] EXCEPT !.pc = pc] \in Claim /\ [claims[c] EXCEPT !.pc = pc].pc = pc
  BY ClaimMoves
<1> HIDE DEF ClaimIs
<1>3. QED
  BY <1>1, <1>2, Zenon

LEMMA ClaimWrites ==
  ASSUME claims \in [Claims -> Claim], NEW c \in Claims, NEW t \in Text,
         claims' = [claims EXCEPT ![c] = [pc |-> "writing", raced |-> FALSE, text |-> t]]
  PROVE  claims' \in [Claims -> Claim]
<1>1. [pc |-> "writing", raced |-> FALSE, text |-> t] \in Claim
  BY Zenon DEF Claim
<1>2. QED
  BY <1>1, Zenon

LEMMA SavesMove ==
  ASSUME saves \in [Saves -> Save], NEW s \in Saves,
         NEW pc \in {"idle", "open", "queued", "writing", "promoting", "started", "refused",
               "failed", "redirected", "lost"}, SaveIs(s, pc)
  PROVE  /\ saves' \in [Saves -> Save]
         /\ saves'[s].pc = pc
         /\ \A r \in Saves : r # s => saves'[r] = saves[r]
<1>1. saves' = [saves EXCEPT ![s] = [saves[s] EXCEPT !.pc = pc]]
  BY Zenon DEF SaveIs
<1>2. [saves[s] EXCEPT !.pc = pc] \in Save /\ [saves[s] EXCEPT !.pc = pc].pc = pc
  BY Zenon DEF Save
<1>3. QED
  BY <1>1, <1>2, Zenon

LEMMA SaveWrites ==
  ASSUME saves \in [Saves -> Save], NEW s \in Saves, NEW t \in Text,
         NEW pc \in {"open", "queued"},
         saves' = [saves EXCEPT ![s] = [pc |-> pc, text |-> t]]
  PROVE  saves' \in [Saves -> Save] /\ saves'[s].pc = pc
         /\ \A r \in Saves : r # s => saves'[r] = saves[r]
<1>1. [pc |-> pc, text |-> t] \in Save /\ [pc |-> pc, text |-> t].pc = pc
  BY Zenon DEF Save
<1>2. QED
  BY <1>1, Zenon

-----------------------------------------------------------------------------
(* Types.                                                                  *)

LEMMA ClaimRaces ==
  ASSUME NEW x \in Claim, NEW b \in BOOLEAN
  PROVE  /\ [x EXCEPT !.raced = b] \in Claim
         /\ [x EXCEPT !.raced = b].pc = x.pc
         /\ [x EXCEPT !.raced = b].text = x.text
         /\ [x EXCEPT !.raced = b].raced = b
BY Zenon DEF Claim

LEMMA Blanks ==
  /\ Blank \in Text
  /\ \A p \in Passwords \cup {NoPassword, Unusable} :
       /\ [Blank EXCEPT !.password = p] \in Text
       /\ [Blank EXCEPT !.password = p].password = p
<1>1. {} \in SUBSET Edits
  OBVIOUS
<1>2. Blank \in Text
  BY <1>1, Zenon DEF Blank, Text
<1>3. QED
  BY <1>2, Zenon DEF Text

LEMMA InitType == Init => TypeOK
<1> SUFFICES ASSUME Init PROVE TypeOK
  OBVIOUS
<1> DEFINE noClaim == [pc |-> "idle", text |-> Blank, raced |-> FALSE]
           noSave == [pc |-> "idle", text |-> Blank]
<1>1. noClaim \in Claim /\ noSave \in Save
  BY Blanks, Zenon DEF Claim, Save
<1>2. claims \in [Claims -> Claim] /\ saves \in [Saves -> Save]
  <2>1. claims = [c \in Claims |-> noClaim] /\ saves = [s \in Saves |-> noSave]
    BY DEF Init
  <2> HIDE DEF noClaim, noSave
  <2>2. QED
    BY <1>1, <2>1
<1>3. PICK password \in {Owner, NoPassword} :
        /\ file = [Blank EXCEPT !.password = password]
        /\ cookies \in SUBSET ({password} \cap Passwords)
  BY DEF Init
<1>4. password \in Passwords \cup {NoPassword, Unusable}
  BY DEF Passwords
<1>5. file \in Text /\ file.password = password
  BY <1>3, <1>4, Blanks, Zenon
<1>6. cookies \subseteq Passwords
  BY <1>3
<1>7. queue \in Seq(Saves)
  BY DEF Init
<1>8. restarts \in 0..MaxRestarts
  BY BoundAssumption DEF Init
<1>9. QED
  BY <1>2, <1>4, <1>5, <1>6, <1>7, <1>8, Zenon DEF Init, TypeOK

\* Whoever signs in presented a password.
SignInInv == logins # {} => auth \in Passwords

(* A save in its turn is the first of the queue; while one writes the page *)
(* is still served, and while one is promoted no promotion is forgotten.   *)
TurnInv ==
  /\ \A s \in Saves :
       /\ saves[s].pc \in {"writing", "promoting"} => AtHead(s)
       /\ saves[s].pc = "writing" => runtime = NoRuntime
       /\ saves[s].pc = "promoting" => promoting \in {"running", "done"}
  /\ promoting # "failed"

LEMMA TailType ==
  ASSUME queue \in Seq(Saves), queue # <<>>
  PROVE  Tail(queue) \in Seq(Saves)
OBVIOUS

\* A claim that is not written changes the password asked for to one that was found, if at all.
LEMMA AdoptedPassword ==
  ASSUME TypeOK, NEW c \in Claims, ReadForClaim(c)
  PROVE  auth' = auth \/ auth' \in Passwords
BY Zenon DEF ReadForClaim, Adopted

LEMMA TypeStep == TypeOK /\ SignInInv /\ TurnInv /\ [Next]_vars => TypeOK'
<1> SUFFICES ASSUME TypeOK, SignInInv, TurnInv, [Next]_vars PROVE TypeOK'
  OBVIOUS
<1> USE DEF page, posts
<1>1. ASSUME NEW c \in Claims, PostClaim(c) PROVE TypeOK'
  <2>1. claims' \in [Claims -> Claim]
    BY <1>1, ClaimsMove, Zenon DEF PostClaim, TypeOK
  <2>2. QED
    BY <1>1, <2>1, Zenon DEF PostClaim, TypeOK
<1>2. ASSUME NEW c \in Claims, Latch(c) PROVE TypeOK'
  <2>1. claims' \in [Claims -> Claim]
    BY <1>2, ClaimsMove, Zenon DEF Latch, TypeOK
  <2>2. claiming' \in BOOLEAN
    BY <1>2, Zenon DEF Latch, TypeOK
  <2>3. QED
    BY <1>2, <2>1, <2>2, Zenon DEF Latch, TypeOK
<1>3. ASSUME NEW c \in Claims, ReadForClaim(c) PROVE TypeOK'
  <2>1. CASE file.parses /\ file.password = NoPassword
    <3>1. [file EXCEPT !.edits = @ \cup {c}, !.password = c] \in Text
      BY TextEdits, Zenon DEF Edits, Passwords, TypeOK
    <3>2. claims' \in [Claims -> Claim]
      BY <1>3, <2>1, <3>1, ClaimWrites, Zenon DEF ReadForClaim, TypeOK
    <3>3. QED
      BY <1>3, <2>1, <3>2, Zenon DEF ReadForClaim, TypeOK
  <2>2. CASE ~(file.parses /\ file.password = NoPassword)
    <3>1. claims' \in [Claims -> Claim]
      BY <1>3, <2>2, ClaimsMove, Zenon DEF ReadForClaim, TypeOK
    <3>2. auth' \in Passwords \cup {NoPassword, Unusable}
      BY <1>3, AdoptedPassword, Zenon DEF TypeOK
    <3>3. QED
      BY <1>3, <2>2, <3>1, <3>2, Zenon DEF ReadForClaim, TypeOK
  <2>3. QED
    BY <2>1, <2>2
<1>4. ASSUME NEW c \in Claims, WriteClaim(c) PROVE TypeOK'
  <2>1. claims' \in [Claims -> Claim]
    BY <1>4, ClaimsMove, Zenon DEF WriteClaim, TypeOK
  <2>2. claims[c].text \in Text
    BY Zenon DEF TypeOK, Claim
  <2>3. c \in Passwords
    BY DEF Passwords, Edits
  <2>4. QED
    BY <1>4, <2>1, <2>2, <2>3, Zenon DEF WriteClaim, TypeOK
<1>5. ASSUME NEW c \in Claims, ClaimFails(c) PROVE TypeOK'
  <2>1. claims' \in [Claims -> Claim]
    BY <1>5, ClaimsMove, Zenon DEF ClaimFails, TypeOK
  <2>2. QED
    BY <1>5, <2>1, Zenon DEF ClaimFails, TypeOK
<1>6. ASSUME NEW l \in Logins, PostLogin(l) PROVE TypeOK'
  <2>1. logins' \subseteq Logins
    BY <1>6 DEF PostLogin, TypeOK
  <2>2. QED
    BY <1>6, <2>1, Zenon DEF PostLogin, TypeOK
<1>7. ASSUME NEW l \in Logins, Login(l) PROVE TypeOK'
  <2>1. auth \in Passwords
    BY <1>7 DEF Login, SignInInv
  <2>2. cookies' \subseteq Passwords /\ logins' \subseteq Logins
    BY <1>7, <2>1 DEF Login, TypeOK
  <2>3. QED
    BY <1>7, <2>1, <2>2, Zenon DEF Login, TypeOK
<1>8. ASSUME NEW s \in Saves, OpenPage(s) PROVE TypeOK'
  <2>1. saves' \in [Saves -> Save]
    BY <1>8, SaveWrites, Zenon DEF OpenPage, TypeOK
  <2>2. QED
    BY <1>8, <2>1, Zenon DEF OpenPage, TypeOK
<1>9. ASSUME NEW s \in Saves, PostSave(s) PROVE TypeOK'
  <2>1. PICK password \in ({saves[s].text.password} \ {Unusable}) \cup {s, NoPassword} :
          saves' = [saves EXCEPT ![s] =
            [pc |-> "queued",
             text |-> [edits |-> saves[s].text.edits \cup {s}, password |-> password,
                       parses |-> TRUE, valid |-> TRUE]]]
    BY <1>9, Zenon DEF PostSave
  <2>2. saves[s].text \in Text
    BY Zenon DEF TypeOK, Save
  <2>3. /\ saves[s].text.edits \cup {s} \in SUBSET Edits
        /\ password \in Passwords \cup {NoPassword, Unusable}
    BY <2>2, Zenon DEF Text, Passwords, Edits
  <2>4. [edits |-> saves[s].text.edits \cup {s}, password |-> password,
         parses |-> TRUE, valid |-> TRUE] \in Text
    BY <2>3, Zenon DEF Text
  <2>5. saves' \in [Saves -> Save]
    BY <2>1, <2>4, SaveWrites, Zenon DEF TypeOK
  <2>6. queue' \in Seq(Saves)
    BY <1>9 DEF PostSave, TypeOK
  <2>7. QED
    BY <1>9, <2>5, <2>6, Zenon DEF PostSave, TypeOK
<1>10. ASSUME NEW s \in Saves, TakeTurn(s) PROVE TypeOK'
  <2>1. saves' \in [Saves -> Save]
    BY <1>10, SavesMove, Zenon DEF TakeTurn, TypeOK
  <2>2. queue' \in Seq(Saves)
    BY <1>10, TailType, Zenon DEF TakeTurn, AtHead, TypeOK
  <2>3. QED
    BY <1>10, <2>1, <2>2, Zenon DEF TakeTurn, TypeOK
<1>11. ASSUME NEW s \in Saves, WriteSave(s) PROVE TypeOK'
  <2>1. saves' \in [Saves -> Save]
    BY <1>11, SavesMove, Zenon DEF WriteSave, TypeOK
  <2>2. saves[s].text \in Text
    BY Zenon DEF TypeOK, Save
  <2>3. QED
    BY <1>11, <2>1, <2>2, Zenon DEF WriteSave, TypeOK
<1>12. ASSUME NEW s \in Saves, Promote(s) PROVE TypeOK'
  <2>0. AtHead(s)
    BY <1>12, Zenon DEF Promote, TurnInv
  <2>1. saves' \in [Saves -> Save]
    BY <1>12, SavesMove, Zenon DEF Promote, TypeOK
  <2>2. queue' \in Seq(Saves)
    BY <1>12, <2>0, TailType, Zenon DEF Promote, AtHead, TypeOK
  <2>3. file.password \in Passwords \cup {NoPassword, Unusable}
    BY Zenon DEF TypeOK, Text
  <2>4. QED
    BY <1>12, <2>1, <2>2, <2>3, Zenon DEF Promote, Start, Unlatch, TypeOK
<1>13. ASSUME NEW s \in Saves, SaveFails(s) PROVE TypeOK'
  <2>0. AtHead(s)
    BY <1>13, Zenon DEF SaveFails, TurnInv
  <2>1. saves' \in [Saves -> Save]
    BY <1>13, SavesMove, Zenon DEF SaveFails, TypeOK
  <2>2. queue' \in Seq(Saves)
    BY <1>13, <2>0, TailType, Zenon DEF SaveFails, AtHead, TypeOK
  <2>3. bound' \in Passwords \cup {NoPassword, Unusable}
    BY <1>13, Zenon DEF SaveFails, BoundBy, TypeOK, Text
  <2>4. QED
    BY <1>13, <2>1, <2>2, <2>3, Zenon DEF SaveFails, Unlatch, TypeOK
<1>14. ASSUME NEW h \in Hands, HandEdit(h) PROVE TypeOK'
  <2>1. file' \in Text
    <3>1. PICK text \in [edits : {file.edits \cup {h}}, password : {file.password, h, NoPassword, Unusable},
                  parses : BOOLEAN, valid : BOOLEAN] : file' = text
      BY <1>14, Zenon DEF HandEdit
    <3>2. file.edits \cup {h} \in SUBSET Edits
      BY Zenon DEF TypeOK, Text, Edits
    <3>3. {file.password, h, NoPassword, Unusable} \subseteq Passwords \cup {NoPassword, Unusable}
      BY Zenon DEF TypeOK, Text, Edits, Passwords
    <3>4. QED
      BY <3>1, <3>2, <3>3, Zenon DEF Text
  <2>2. claims' \in [Claims -> Claim]
    <3>1. claims' = [c \in Claims |-> [claims[c] EXCEPT !.raced = claims[c].raced \/ claims[c].pc = "writing"]]
      BY <1>14, Zenon DEF HandEdit
    <3>2. ASSUME NEW c \in Claims
          PROVE [claims[c] EXCEPT !.raced = claims[c].raced \/ claims[c].pc = "writing"] \in Claim
      BY ClaimRaces, Zenon DEF TypeOK
    <3>3. QED
      BY <3>1, <3>2, Zenon
  <2>3. QED
    BY <1>14, <2>1, <2>2, Zenon DEF HandEdit, TypeOK
<1>15. CASE Restart
  <2>1. claims' \in [Claims -> Claim]
    <3>1. ASSUME NEW c \in Claims
          PROVE (IF claims[c].pc = "idle" THEN claims[c] ELSE [claims[c] EXCEPT !.pc = "over"]) \in Claim
      BY ClaimMoves, Zenon DEF TypeOK
    <3>2. QED
      BY <1>15, <3>1, Zenon DEF Restart
  <2>2. saves' \in [Saves -> Save]
    <3>1. ASSUME NEW s \in Saves
          PROVE (IF saves[s].pc \in {"open", "queued", "writing", "promoting"}
                   THEN [saves[s] EXCEPT !.pc = "lost"] ELSE saves[s]) \in Save
      BY Zenon DEF TypeOK, Save
    <3>2. QED
      BY <1>15, <3>1, Zenon DEF Restart
  <2>3. auth' \in Passwords \cup {NoPassword, Unusable}
    BY <1>15, Zenon DEF Restart, TypeOK, Text
  <2>4. restarts' \in 0..MaxRestarts
    BY <1>15, BoundAssumption DEF Restart, TypeOK
  <2>5. queue' \in Seq(Saves)
    BY <1>15 DEF Restart
  <2>6. runtime' \in Text \cup {NoRuntime}
    BY <1>15, Zenon DEF Restart, TypeOK
  <2>7. QED
    BY <1>15, <2>1, <2>2, <2>3, <2>4, <2>5, <2>6, Zenon DEF Restart, TypeOK
<1>16. CASE UNCHANGED vars
  BY <1>16, Zenon DEF vars, TypeOK
<1>17. QED
  BY <1>1, <1>2, <1>3, <1>4, <1>5, <1>6, <1>7, <1>8, <1>9, <1>10, <1>11, <1>12, <1>13, <1>14,
     <1>15, <1>16, Zenon DEF Next

-----------------------------------------------------------------------------
(* The parts of the invariant.                                             *)

(* A claim past the latch is the only one, and until it is over nobody has *)
(* a password and the page is served.                                      *)
ClaimInv ==
  \A c \in Claims :
    claims[c].pc \in {"reading", "writing"}
      => /\ claiming /\ auth = NoPassword /\ runtime = NoRuntime
         /\ \A d \in Claims : claims[d].pc \in {"reading", "writing"} => d = c

\* A claim on its way to the latch of a page without a password is still served.
HashingInv ==
  \A c \in Claims : claims[c].pc = "hashing" /\ auth = NoPassword => runtime = NoRuntime

(* What a claim is about to write says all that the file says, and sets a  *)
(* password where there was none.                                          *)
ClaimTextInv ==
  \A c \in Claims :
    claims[c].pc = "writing" /\ ~claims[c].raced
      => file.password = NoPassword /\ file.edits \subseteq claims[c].text.edits

(* Whoever edits is signed in, and nobody is signed in without a password. *)
EditorInv ==
  /\ \A s \in Saves : saves[s].pc \in {"open", "queued", "writing", "promoting"} => auth # NoPassword
  /\ runtime = NoRuntime /\ auth = NoPassword => bound = NoPassword

IInv == TypeOK /\ SignInInv /\ TurnInv /\ HashingInv /\ ClaimInv /\ ClaimTextInv /\ EditorInv
          /\ RuntimeIsFile /\ NobodyWaitsInVain

-----------------------------------------------------------------------------
(* Every step keeps each part, given the others.                           *)

LEMMA SignInStep == TypeOK /\ SignInInv /\ [Next]_vars => SignInInv'
<1> SUFFICES ASSUME TypeOK, SignInInv, [Next]_vars PROVE SignInInv'
  OBVIOUS
<1> USE DEF page, posts
<1>1. ASSUME NEW c \in Claims, ReadForClaim(c) PROVE SignInInv'
  <2>1. auth' = auth \/ auth' \in Passwords
    BY <1>1, AdoptedPassword
  <2>2. QED
    BY <1>1, <2>1, Zenon DEF ReadForClaim, SignInInv
<1>2. ASSUME NEW c \in Claims, WriteClaim(c) PROVE SignInInv'
  BY <1>2, Zenon DEF WriteClaim, SignInInv, Passwords, Edits
<1>3. ASSUME NEW c \in Claims, PostClaim(c) \/ Latch(c) \/ ClaimFails(c) PROVE SignInInv'
  BY <1>3, Zenon DEF PostClaim, Latch, ClaimFails, SignInInv
<1>4. ASSUME NEW l \in Logins, PostLogin(l) PROVE SignInInv'
  BY <1>4, Zenon DEF PostLogin, Served, unclaimed, SignInInv, TypeOK
<1>5. ASSUME NEW l \in Logins, Login(l) PROVE SignInInv'
  BY <1>5, Zenon DEF Login, SignInInv
<1>6. ASSUME NEW s \in Saves, OpenPage(s) \/ PostSave(s) \/ TakeTurn(s) \/ WriteSave(s)
                                \/ Promote(s) \/ SaveFails(s)
      PROVE SignInInv'
  BY <1>6, Zenon DEF OpenPage, PostSave, TakeTurn, WriteSave, Promote, SaveFails, SignInInv
<1>7. ASSUME NEW h \in Hands, HandEdit(h) PROVE SignInInv'
  BY <1>7, Zenon DEF HandEdit, SignInInv
<1>8. CASE Restart
  BY <1>8, Zenon DEF Restart, SignInInv
<1>9. CASE UNCHANGED vars
  BY <1>9, Zenon DEF vars, SignInInv
<1>10. QED
  BY <1>1, <1>2, <1>3, <1>4, <1>5, <1>6, <1>7, <1>8, <1>9, Zenon DEF Next

LEMMA TurnStep == TypeOK /\ TurnInv /\ ClaimInv /\ EditorInv /\ [Next]_vars => TurnInv'
<1> SUFFICES ASSUME TypeOK, TurnInv, ClaimInv, EditorInv, [Next]_vars PROVE TurnInv'
  OBVIOUS
<1> USE DEF page, posts
<1>1. ASSUME NEW c \in Claims, PostClaim(c) \/ Latch(c) \/ ReadForClaim(c) \/ WriteClaim(c) \/ ClaimFails(c)
      PROVE TurnInv'
  BY <1>1, Zenon DEF PostClaim, Latch, ReadForClaim, WriteClaim, ClaimFails, AtHead, TurnInv
<1>2. ASSUME NEW l \in Logins, PostLogin(l) \/ Login(l) PROVE TurnInv'
  BY <1>2, Zenon DEF PostLogin, Login, AtHead, TurnInv
<1>3. ASSUME NEW s \in Saves, OpenPage(s) PROVE TurnInv'
  <2>1. saves'[s].pc = "open" /\ \A r \in Saves : r # s => saves'[r] = saves[r]
    BY <1>3, SaveWrites, Zenon DEF OpenPage, TypeOK
  <2>2. QED
    BY <1>3, <2>1 DEF OpenPage, AtHead, TurnInv
<1>4. ASSUME NEW s \in Saves, PostSave(s) PROVE TurnInv'
  <2>1. /\ saves'[s].pc = "queued" /\ \A r \in Saves : r # s => saves'[r] = saves[r]
    <3>1. PICK password \in ({saves[s].text.password} \ {Unusable}) \cup {s, NoPassword} :
          saves' = [saves EXCEPT ![s] =
            [pc |-> "queued",
             text |-> [edits |-> saves[s].text.edits \cup {s}, password |-> password,
                       parses |-> TRUE, valid |-> TRUE]]]
      BY <1>4, Zenon DEF PostSave
    <3>2. QED
      BY <3>1, Zenon DEF TypeOK
  <2>2. queue' = Append(queue, s) /\ queue \in Seq(Saves)
    BY <1>4 DEF PostSave, TypeOK
  <2>3. \A r \in Saves : AtHead(r) => AtHead(r)'
    BY <2>2 DEF AtHead
  <2>4. runtime' = runtime /\ promoting' = promoting
    BY <1>4 DEF PostSave
  <2>5. QED
    BY <2>1, <2>3, <2>4 DEF TurnInv
<1>5. ASSUME NEW s \in Saves, TakeTurn(s) PROVE TurnInv'
  <2>1. CASE runtime = NoRuntime
    <3>1. saves'[s].pc = "writing" /\ \A r \in Saves : r # s => saves'[r] = saves[r]
      BY <1>5, <2>1, SavesMove, Zenon DEF TakeTurn, TypeOK
    <3>2. QED
      BY <1>5, <2>1, <3>1 DEF TakeTurn, AtHead, TurnInv
  <2>2. CASE runtime # NoRuntime
    <3>1. saves'[s].pc = "redirected" /\ \A r \in Saves : r # s => saves'[r] = saves[r]
      BY <1>5, <2>2, SavesMove, Zenon DEF TakeTurn, TypeOK
    <3>2. QED
      BY <1>5, <2>2, <3>1 DEF TakeTurn, AtHead, TurnInv
  <2>3. QED
    BY <2>1, <2>2
<1>6. ASSUME NEW s \in Saves, WriteSave(s) PROVE TurnInv'
  <2>1. saves'[s].pc = "promoting" /\ \A r \in Saves : r # s => saves'[r] = saves[r]
    BY <1>6, SavesMove, Zenon DEF WriteSave, TypeOK
  <2>2. promoting' \in {"running", "done"}
    BY <1>6 DEF WriteSave, TypeOK, TurnInv
  <2>3. QED
    BY <1>6, <2>1, <2>2 DEF WriteSave, AtHead, TurnInv
<1>7. ASSUME NEW s \in Saves, Promote(s) \/ SaveFails(s) PROVE TurnInv'
  <2>1. /\ saves'[s].pc \notin {"writing", "promoting"}
        /\ \A r \in Saves : r # s => saves'[r] = saves[r]
    BY <1>7, SavesMove, Zenon DEF Promote, SaveFails, TypeOK
  <2>2. \A r \in Saves : saves'[r].pc \notin {"writing", "promoting"}
    BY <1>7, <2>1 DEF Promote, SaveFails, AtHead, TurnInv
  <2>3. promoting' # "failed"
    BY <1>7, Zenon DEF Promote, SaveFails, Unlatch, TurnInv
  <2>4. QED
    BY <2>2, <2>3 DEF TurnInv
<1>8. ASSUME NEW h \in Hands, HandEdit(h) PROVE TurnInv'
  BY <1>8, Zenon DEF HandEdit, AtHead, TurnInv
<1>9. CASE Restart
  <2>1. \A s \in Saves : saves'[s].pc \notin {"writing", "promoting"}
    <3>1. ASSUME NEW s \in Saves PROVE saves'[s].pc \notin {"writing", "promoting"}
      <4>1. saves'[s] = IF saves[s].pc \in {"open", "queued", "writing", "promoting"}
                          THEN [saves[s] EXCEPT !.pc = "lost"] ELSE saves[s]
        BY <1>9, Zenon DEF Restart
      <4>2. saves[s] \in Save
        BY Zenon DEF TypeOK
      <4>3. [saves[s] EXCEPT !.pc = "lost"].pc = "lost"
        BY <4>2, Zenon DEF Save
      <4>4. QED
        BY <4>1, <4>3
    <3>2. QED
      BY <3>1
  <2>2. QED
    BY <1>9, <2>1 DEF Restart, TurnInv
<1>10. CASE UNCHANGED vars
  BY <1>10, Zenon DEF vars, AtHead, TurnInv
<1>11. QED
  BY <1>1, <1>2, <1>3, <1>4, <1>5, <1>6, <1>7, <1>8, <1>9, <1>10, Zenon DEF Next

\* A name of nothing is no password, so that nobody is signed in under it.
LEMMA NoPasswordSignsNobodyIn == TypeOK => NoPassword \notin cookies
BY NamesAssumption DEF TypeOK

LEMMA HashingStep == TypeOK /\ HashingInv /\ EditorInv /\ SignInInv /\ [Next]_vars => HashingInv'
<1> SUFFICES ASSUME TypeOK, HashingInv, EditorInv, SignInInv, [Next]_vars PROVE HashingInv'
  OBVIOUS
<1> USE DEF page, posts
<1>a. ASSUME runtime' = runtime,
             auth' = auth \/ auth' # NoPassword,
             \A d \in Claims : claims'[d].pc = claims[d].pc \/ claims'[d].pc # "hashing"
      PROVE  HashingInv'
  BY <1>a, Zenon DEF HashingInv
<1>1. ASSUME NEW c \in Claims, PostClaim(c) PROVE HashingInv'
  BY <1>1, Zenon DEF PostClaim, Served, HashingInv
<1>2. ASSUME NEW c \in Claims, Latch(c) PROVE HashingInv'
  <2>1. claims'[c].pc # "hashing" /\ \A d \in Claims : d # c => claims'[d] = claims[d]
    BY <1>2, ClaimsMove, Zenon DEF Latch, TypeOK
  <2>2. QED
    BY <1>a, <1>2, <2>1, Zenon DEF Latch
<1>3. ASSUME NEW c \in Claims, ReadForClaim(c) PROVE HashingInv'
  <2>1. claims'[c].pc # "hashing" /\ \A d \in Claims : d # c => claims'[d] = claims[d]
    <3>1. CASE file.parses /\ file.password = NoPassword
      <4>1. claims' = [claims EXCEPT ![c] = [pc |-> "writing", raced |-> FALSE,
              text |-> [file EXCEPT !.edits = file.edits \cup {c}, !.password = c]]]
        BY <1>3, <3>1, Zenon DEF ReadForClaim
      <4>2. QED
        BY <4>1, Zenon DEF TypeOK
    <3>2. CASE ~(file.parses /\ file.password = NoPassword)
      <4>1. ClaimIs(c, "over")
        BY <1>3, <3>2, Zenon DEF ReadForClaim
      <4>2. QED
        BY <4>1, ClaimsMove, Zenon DEF TypeOK
    <3>3. QED
      BY <3>1, <3>2
  <2>2. auth' = auth \/ auth' # NoPassword
    BY <1>3, AdoptedPassword, NamesAssumption, Zenon
  <2>3. QED
    BY <1>a, <1>3, <2>1, <2>2, Zenon DEF ReadForClaim
<1>4. ASSUME NEW c \in Claims, WriteClaim(c) \/ ClaimFails(c) PROVE HashingInv'
  <2>1. claims'[c].pc # "hashing" /\ \A d \in Claims : d # c => claims'[d] = claims[d]
    BY <1>4, ClaimsMove, Zenon DEF WriteClaim, ClaimFails, TypeOK
  <2>2. auth' = auth \/ auth' # NoPassword
    BY <1>4, NamesAssumption DEF WriteClaim, ClaimFails, Passwords, Edits
  <2>3. QED
    BY <1>a, <1>4, <2>1, <2>2, Zenon DEF WriteClaim, ClaimFails
<1>5. ASSUME NEW l \in Logins, PostLogin(l) \/ Login(l) PROVE HashingInv'
  BY <1>a, <1>5, Zenon DEF PostLogin, Login
<1>6. ASSUME NEW s \in Saves, OpenPage(s) \/ PostSave(s) \/ TakeTurn(s) \/ WriteSave(s) \/ SaveFails(s)
      PROVE HashingInv'
  BY <1>a, <1>6, Zenon DEF OpenPage, PostSave, TakeTurn, WriteSave, SaveFails
<1>7. ASSUME NEW s \in Saves, Promote(s) PROVE HashingInv'
  <2>1. auth' # NoPassword
    BY <1>7, Zenon DEF Promote, EditorInv
  <2>2. QED
    BY <2>1, Zenon DEF HashingInv
<1>8. ASSUME NEW h \in Hands, HandEdit(h) PROVE HashingInv'
  <2>1. ASSUME NEW d \in Claims PROVE claims'[d].pc = claims[d].pc
    <3>1. claims'[d] = [claims[d] EXCEPT !.raced = claims[d].raced \/ claims[d].pc = "writing"]
      BY <1>8, Zenon DEF HandEdit
    <3>2. QED
      BY <3>1, ClaimRaces, Zenon DEF TypeOK
  <2>2. QED
    BY <1>a, <1>8, <2>1, Zenon DEF HandEdit
<1>9. CASE Restart
  <2>1. ASSUME NEW d \in Claims PROVE claims'[d].pc \in {"idle", "over"}
    <3>1. claims'[d] = IF claims[d].pc = "idle" THEN claims[d] ELSE [claims[d] EXCEPT !.pc = "over"]
      BY <1>9, Zenon DEF Restart
    <3>2. [claims[d] EXCEPT !.pc = "over"].pc = "over"
      BY ClaimMoves, Zenon DEF TypeOK
    <3>3. QED
      BY <3>1, <3>2
  <2>2. QED
    BY <2>1, Zenon DEF HashingInv
<1>10. CASE UNCHANGED vars
  BY <1>10, Zenon DEF vars, HashingInv
<1>11. QED
  BY <1>1, <1>2, <1>3, <1>4, <1>5, <1>6, <1>7, <1>8, <1>9, <1>10, Zenon DEF Next

LEMMA ClaimStep == TypeOK /\ HashingInv /\ ClaimInv /\ EditorInv /\ [Next]_vars => ClaimInv'
<1> SUFFICES ASSUME TypeOK, HashingInv, ClaimInv, EditorInv, [Next]_vars PROVE ClaimInv'
  OBVIOUS
<1> USE DEF page, posts
<1> DEFINE Past(d) == claims[d].pc \in {"reading", "writing"}
\* A claim that leaves its place behind the latch leaves it empty.
<1>a. ASSUME NEW c \in Claims, Past(c), claims'[c].pc = "over",
             \A d \in Claims : d # c => claims'[d] = claims[d]
      PROVE  ClaimInv'
  BY <1>a, Zenon DEF ClaimInv
<1>b. ASSUME claims' = claims, claiming' = claiming, auth' = auth, runtime' = runtime
      PROVE  ClaimInv'
  BY <1>b, Zenon DEF ClaimInv
<1>1. ASSUME NEW c \in Claims, PostClaim(c) PROVE ClaimInv'
  <2>1. claims'[c].pc = "hashing" /\ \A d \in Claims : d # c => claims'[d] = claims[d]
    BY <1>1, ClaimsMove, Zenon DEF PostClaim, TypeOK
  <2>2. QED
    BY <1>1, <2>1 DEF PostClaim, ClaimInv
<1>2. ASSUME NEW c \in Claims, Latch(c) PROVE ClaimInv'
  <2>1. CASE unclaimed /\ ~claiming
    <3>1. claims'[c].pc = "reading" /\ \A d \in Claims : d # c => claims'[d] = claims[d]
      BY <1>2, <2>1, ClaimsMove, Zenon DEF Latch, TypeOK
    <3>2. QED
      <4>1. \A d \in Claims : ~Past(d)
        BY <2>1 DEF ClaimInv
      <4>2. claiming' /\ auth' = NoPassword /\ runtime' = NoRuntime
        BY <1>2, <2>1, Zenon DEF Latch, HashingInv, unclaimed
      <4>3. \A d \in Claims : claims'[d].pc \in {"reading", "writing"} => d = c
        BY <3>1, <4>1, Zenon
      <4>4. QED
        BY <4>2, <4>3, Zenon DEF ClaimInv
  <2>2. CASE ~(unclaimed /\ ~claiming)
    <3>1. claims'[c].pc = "over" /\ \A d \in Claims : d # c => claims'[d] = claims[d]
      BY <1>2, <2>2, ClaimsMove, Zenon DEF Latch, TypeOK
    <3>2. QED
      BY <1>2, <2>2, <3>1 DEF Latch, ClaimInv
  <2>3. QED
    BY <2>1, <2>2
<1>3. ASSUME NEW c \in Claims, ReadForClaim(c) PROVE ClaimInv'
  <2>0. Past(c)
    BY <1>3, Zenon DEF ReadForClaim
  <2>1. CASE file.parses /\ file.password = NoPassword
    <3>1. \A d \in Claims : d # c => claims'[d] = claims[d]
      BY <1>3, <2>1, Zenon DEF ReadForClaim, TypeOK
    <3>2. claiming' = claiming /\ auth' = auth /\ runtime' = runtime
      BY <1>3, <2>1, Zenon DEF ReadForClaim
    <3>3. QED
      BY <2>0, <3>1, <3>2, Zenon DEF ClaimInv
  <2>2. CASE ~(file.parses /\ file.password = NoPassword)
    <3>1. claims'[c].pc = "over" /\ \A d \in Claims : d # c => claims'[d] = claims[d]
      BY <1>3, <2>2, ClaimsMove, Zenon DEF ReadForClaim, TypeOK
    <3>2. QED
      BY <1>a, <2>0, <3>1, Zenon
  <2>3. QED
    BY <2>1, <2>2
<1>4. ASSUME NEW c \in Claims, WriteClaim(c) \/ ClaimFails(c) PROVE ClaimInv'
  <2>0. Past(c)
    BY <1>4, Zenon DEF WriteClaim, ClaimFails
  <2>1. claims'[c].pc = "over" /\ \A d \in Claims : d # c => claims'[d] = claims[d]
    BY <1>4, ClaimsMove, Zenon DEF WriteClaim, ClaimFails, TypeOK
  <2>2. QED
    BY <1>a, <2>0, <2>1, Zenon
<1>5. ASSUME NEW l \in Logins, PostLogin(l) \/ Login(l) PROVE ClaimInv'
  BY <1>b, <1>5, Zenon DEF PostLogin, Login
<1>6. ASSUME NEW s \in Saves, OpenPage(s) \/ PostSave(s) \/ TakeTurn(s) \/ WriteSave(s) \/ SaveFails(s)
      PROVE ClaimInv'
  BY <1>b, <1>6, Zenon DEF OpenPage, PostSave, TakeTurn, WriteSave, SaveFails
<1>7. ASSUME NEW s \in Saves, Promote(s) PROVE ClaimInv'
  <2>1. auth # NoPassword
    BY <1>7, Zenon DEF Promote, EditorInv
  <2>2. claims' = claims
    BY <1>7, Zenon DEF Promote
  <2>3. QED
    BY <2>1, <2>2, Zenon DEF ClaimInv
<1>8. ASSUME NEW h \in Hands, HandEdit(h) PROVE ClaimInv'
  <2>1. ASSUME NEW d \in Claims PROVE claims'[d].pc = claims[d].pc
    <3>1. claims'[d] = [claims[d] EXCEPT !.raced = claims[d].raced \/ claims[d].pc = "writing"]
      BY <1>8, Zenon DEF HandEdit
    <3>2. QED
      BY <3>1, ClaimRaces, Zenon DEF TypeOK
  <2>2. claiming' = claiming /\ auth' = auth /\ runtime' = runtime
    BY <1>8 DEF HandEdit
  <2>3. QED
    BY <2>1, <2>2, Zenon DEF ClaimInv
<1>9. CASE Restart
  <2>1. ASSUME NEW d \in Claims PROVE claims'[d].pc \in {"idle", "over"}
    <3>1. claims'[d] = IF claims[d].pc = "idle" THEN claims[d] ELSE [claims[d] EXCEPT !.pc = "over"]
      BY <1>9, Zenon DEF Restart
    <3>2. [claims[d] EXCEPT !.pc = "over"].pc = "over"
      BY ClaimMoves, Zenon DEF TypeOK
    <3>3. QED
      BY <3>1, <3>2
  <2>2. QED
    BY <2>1 DEF ClaimInv
<1>10. CASE UNCHANGED vars
  BY <1>10, Zenon DEF vars, ClaimInv
<1>11. QED
  BY <1>1, <1>2, <1>3, <1>4, <1>5, <1>6, <1>7, <1>8, <1>9, <1>10, Zenon DEF Next

LEMMA EditorStep == TypeOK /\ SignInInv /\ EditorInv /\ [Next]_vars => EditorInv'
<1> SUFFICES ASSUME TypeOK, SignInInv, EditorInv, [Next]_vars PROVE EditorInv'
  OBVIOUS
<1> USE DEF page, posts
<1>1. ASSUME NEW c \in Claims, PostClaim(c) \/ Latch(c) \/ ClaimFails(c) PROVE EditorInv'
  BY <1>1, Zenon DEF PostClaim, Latch, ClaimFails, EditorInv
<1>2. ASSUME NEW c \in Claims, ReadForClaim(c) PROVE EditorInv'
  <2>1. auth' # auth => auth' # NoPassword
    BY <1>2, AdoptedPassword, NamesAssumption, Zenon
  <2>2. saves' = saves /\ bound' = bound /\ runtime' = runtime
    BY <1>2, Zenon DEF ReadForClaim
  <2>3. QED
    BY <2>1, <2>2, Zenon DEF EditorInv
<1>3. ASSUME NEW c \in Claims, WriteClaim(c) PROVE EditorInv'
  <2>1. auth' # NoPassword
    BY <1>3, NamesAssumption DEF WriteClaim, Passwords, Edits
  <2>2. QED
    BY <2>1, Zenon DEF EditorInv
<1>4. ASSUME NEW l \in Logins, PostLogin(l) PROVE EditorInv'
  BY <1>4, Zenon DEF PostLogin, EditorInv
<1>5. ASSUME NEW l \in Logins, Login(l) PROVE EditorInv'
  <2>1. auth' # NoPassword
    BY <1>5, NamesAssumption DEF Login, SignInInv
  <2>2. QED
    BY <2>1, Zenon DEF EditorInv
<1>6. ASSUME NEW s \in Saves, OpenPage(s) PROVE EditorInv'
  <2>1. auth # NoPassword
    BY <1>6, NoPasswordSignsNobodyIn, Zenon DEF OpenPage, Served, SignedIn, EditorInv
  <2>2. auth' = auth
    BY <1>6, Zenon DEF OpenPage
  <2>3. QED
    BY <2>1, <2>2, Zenon DEF EditorInv
<1>7. ASSUME NEW s \in Saves, PostSave(s) \/ TakeTurn(s) \/ WriteSave(s) \/ Promote(s) \/ SaveFails(s)
      PROVE EditorInv'
  <2>1. auth # NoPassword
    BY <1>7, Zenon DEF PostSave, TakeTurn, WriteSave, Promote, SaveFails, EditorInv
  <2>2. auth' = auth
    BY <1>7, Zenon DEF PostSave, TakeTurn, WriteSave, Promote, SaveFails
  <2>3. QED
    BY <2>1, <2>2, Zenon DEF EditorInv
<1>8. ASSUME NEW h \in Hands, HandEdit(h) PROVE EditorInv'
  BY <1>8, Zenon DEF HandEdit, EditorInv
<1>9. CASE Restart
  <2>1. \A s \in Saves : saves'[s].pc \notin {"open", "queued", "writing", "promoting"}
    <3>1. ASSUME NEW s \in Saves
          PROVE saves'[s].pc \notin {"open", "queued", "writing", "promoting"}
      <4>1. saves'[s] = IF saves[s].pc \in {"open", "queued", "writing", "promoting"}
                          THEN [saves[s] EXCEPT !.pc = "lost"] ELSE saves[s]
        BY <1>9, Zenon DEF Restart
      <4>2. saves[s] \in Save
        BY Zenon DEF TypeOK
      <4>3. [saves[s] EXCEPT !.pc = "lost"].pc = "lost"
        BY <4>2, Zenon DEF Save
      <4>4. QED
        BY <4>1, <4>3
    <3>2. QED
      BY <3>1
  <2>2. bound' = auth'
    BY <1>9, Zenon DEF Restart
  <2>3. QED
    BY <2>1, <2>2, Zenon DEF EditorInv
<1>10. CASE UNCHANGED vars
  BY <1>10, Zenon DEF vars, EditorInv
<1>11. QED
  BY <1>1, <1>2, <1>3, <1>4, <1>5, <1>6, <1>7, <1>8, <1>9, <1>10, Zenon DEF Next

LEMMA ClaimTextStep ==
  TypeOK /\ ClaimInv /\ EditorInv /\ ClaimTextInv /\ [Next]_vars => ClaimTextInv'
<1> SUFFICES ASSUME TypeOK, ClaimInv, EditorInv, ClaimTextInv, [Next]_vars PROVE ClaimTextInv'
  OBVIOUS
<1> USE DEF page, posts
\* A step that touches neither the file nor a claim that writes.
<1>a. ASSUME file' = file,
             \A d \in Claims : claims'[d] = claims[d] \/ claims'[d].pc # "writing"
      PROVE  ClaimTextInv'
  BY <1>a, Zenon DEF ClaimTextInv
<1>1. ASSUME NEW c \in Claims, PostClaim(c) \/ ClaimFails(c) PROVE ClaimTextInv'
  <2>1. claims'[c].pc # "writing" /\ \A d \in Claims : d # c => claims'[d] = claims[d]
    BY <1>1, ClaimsMove, Zenon DEF PostClaim, ClaimFails, TypeOK
  <2>2. QED
    BY <1>a, <1>1, <2>1, Zenon DEF PostClaim, ClaimFails
<1>2. ASSUME NEW c \in Claims, Latch(c) PROVE ClaimTextInv'
  <2>1. claims'[c].pc # "writing" /\ \A d \in Claims : d # c => claims'[d] = claims[d]
    BY <1>2, ClaimsMove, Zenon DEF Latch, TypeOK
  <2>2. QED
    BY <1>a, <1>2, <2>1, Zenon DEF Latch
<1>3. ASSUME NEW c \in Claims, ReadForClaim(c) PROVE ClaimTextInv'
  <2>0. file' = file
    BY <1>3, Zenon DEF ReadForClaim
  <2>1. CASE file.parses /\ file.password = NoPassword
    <3> DEFINE t == [file EXCEPT !.edits = file.edits \cup {c}, !.password = c]
    <3>1. t.edits = file.edits \cup {c}
      BY Zenon DEF TypeOK, Text
    <3>2. claims' = [claims EXCEPT ![c] = [pc |-> "writing", raced |-> FALSE, text |-> t]]
      BY <1>3, <2>1, Zenon DEF ReadForClaim
    <3> HIDE DEF t
    <3>3. claims'[c].text = t /\ \A d \in Claims : d # c => claims'[d] = claims[d]
      BY <3>2, Zenon DEF TypeOK
    <3>4. file.edits \subseteq claims'[c].text.edits
      BY <3>1, <3>3
    <3>5. QED
      BY <2>0, <2>1, <3>3, <3>4, Zenon DEF ClaimTextInv
  <2>2. CASE ~(file.parses /\ file.password = NoPassword)
    <3>1. claims'[c].pc = "over" /\ \A d \in Claims : d # c => claims'[d] = claims[d]
      BY <1>3, <2>2, ClaimsMove, Zenon DEF ReadForClaim, TypeOK
    <3>2. QED
      BY <1>a, <2>0, <3>1, Zenon
  <2>3. QED
    BY <2>1, <2>2
<1>4. ASSUME NEW c \in Claims, WriteClaim(c) PROVE ClaimTextInv'
  <2>1. claims'[c].pc = "over" /\ \A d \in Claims : d # c => claims'[d] = claims[d]
    BY <1>4, ClaimsMove, Zenon DEF WriteClaim, TypeOK
  <2>2. \A d \in Claims : claims'[d].pc # "writing"
    BY <1>4, <2>1, Zenon DEF WriteClaim, ClaimInv
  <2>3. QED
    BY <2>2, Zenon DEF ClaimTextInv
<1>5. ASSUME NEW l \in Logins, PostLogin(l) \/ Login(l) PROVE ClaimTextInv'
  BY <1>5, Zenon DEF PostLogin, Login, ClaimTextInv
<1>6. ASSUME NEW s \in Saves, OpenPage(s) \/ PostSave(s) \/ TakeTurn(s) \/ Promote(s) \/ SaveFails(s)
      PROVE ClaimTextInv'
  BY <1>6, Zenon DEF OpenPage, PostSave, TakeTurn, Promote, SaveFails, ClaimTextInv
<1>7. ASSUME NEW s \in Saves, WriteSave(s) PROVE ClaimTextInv'
  <2>1. auth # NoPassword /\ claims' = claims
    BY <1>7, Zenon DEF WriteSave, EditorInv
  <2>2. QED
    BY <2>1, Zenon DEF ClaimInv, ClaimTextInv
<1>8. ASSUME NEW h \in Hands, HandEdit(h) PROVE ClaimTextInv'
  <2>1. ASSUME NEW d \in Claims PROVE claims'[d].pc = "writing" => claims'[d].raced
    <3>1. claims'[d] = [claims[d] EXCEPT !.raced = claims[d].raced \/ claims[d].pc = "writing"]
      BY <1>8, Zenon DEF HandEdit
    <3>2. QED
      BY <3>1, ClaimRaces, Zenon DEF TypeOK
  <2>2. QED
    BY <2>1, Zenon DEF ClaimTextInv
<1>9. CASE Restart
  <2>1. ASSUME NEW d \in Claims PROVE claims'[d].pc # "writing"
    <3>1. claims'[d] = IF claims[d].pc = "idle" THEN claims[d] ELSE [claims[d] EXCEPT !.pc = "over"]
      BY <1>9, Zenon DEF Restart
    <3>2. [claims[d] EXCEPT !.pc = "over"].pc = "over"
      BY ClaimMoves, Zenon DEF TypeOK
    <3>3. QED
      BY <3>1, <3>2
  <2>2. QED
    BY <2>1, Zenon DEF ClaimTextInv
<1>10. CASE UNCHANGED vars
  BY <1>10, Zenon DEF vars, ClaimTextInv
<1>11. QED
  BY <1>1, <1>2, <1>3, <1>4, <1>5, <1>6, <1>7, <1>8, <1>9, <1>10, Zenon DEF Next

LEMMA RuntimeStep == TypeOK /\ TurnInv /\ ClaimInv /\ RuntimeIsFile /\ [Next]_vars => RuntimeIsFile'
<1> SUFFICES ASSUME TypeOK, TurnInv, ClaimInv, RuntimeIsFile, [Next]_vars PROVE RuntimeIsFile'
  OBVIOUS
<1> USE DEF page, posts
<1>1. ASSUME NEW c \in Claims, PostClaim(c) \/ Latch(c) \/ ReadForClaim(c) \/ ClaimFails(c)
      PROVE RuntimeIsFile'
  BY <1>1, Zenon DEF PostClaim, Latch, ReadForClaim, ClaimFails, RuntimeIsFile
<1>2. ASSUME NEW c \in Claims, WriteClaim(c) PROVE RuntimeIsFile'
  BY <1>2, Zenon DEF WriteClaim, ClaimInv, RuntimeIsFile
<1>3. ASSUME NEW l \in Logins, PostLogin(l) \/ Login(l) PROVE RuntimeIsFile'
  BY <1>3, Zenon DEF PostLogin, Login, RuntimeIsFile
<1>4. ASSUME NEW s \in Saves, OpenPage(s) \/ PostSave(s) \/ TakeTurn(s) \/ SaveFails(s)
      PROVE RuntimeIsFile'
  BY <1>4, Zenon DEF OpenPage, PostSave, TakeTurn, SaveFails, RuntimeIsFile
<1>5. ASSUME NEW s \in Saves, WriteSave(s) PROVE RuntimeIsFile'
  BY <1>5, Zenon DEF WriteSave, TurnInv, RuntimeIsFile
<1>6. ASSUME NEW s \in Saves, Promote(s) PROVE RuntimeIsFile'
  BY <1>6, Zenon DEF Promote, Start, RuntimeIsFile
<1>7. ASSUME NEW h \in Hands, HandEdit(h) PROVE RuntimeIsFile'
  BY <1>7, Zenon DEF HandEdit, RuntimeIsFile
<1>8. CASE Restart
  BY <1>8, Zenon DEF Restart, RuntimeIsFile
<1>9. CASE UNCHANGED vars
  BY <1>9, Zenon DEF vars, RuntimeIsFile
<1>10. QED
  BY <1>1, <1>2, <1>3, <1>4, <1>5, <1>6, <1>7, <1>8, <1>9, Zenon DEF Next

\* Only the promotion of a save refuses it, and only over the file it found.
LEMMA RefusedInPromote ==
  ASSUME TypeOK, TurnInv, Next, NEW s \in Saves, saves[s].pc # "refused", saves'[s].pc = "refused"
  PROVE  ~file.valid
<1> USE DEF page, posts
<1>1. ASSUME NEW c \in Claims, PostClaim(c) \/ Latch(c) \/ ReadForClaim(c) \/ WriteClaim(c) \/ ClaimFails(c)
      PROVE FALSE
  BY <1>1, Zenon DEF PostClaim, Latch, ReadForClaim, WriteClaim, ClaimFails
<1>2. ASSUME NEW l \in Logins, PostLogin(l) \/ Login(l) PROVE FALSE
  BY <1>2, Zenon DEF PostLogin, Login
<1>3. ASSUME NEW r \in Saves, OpenPage(r) PROVE FALSE
  <2>1. saves'[r].pc = "open" /\ \A q \in Saves : q # r => saves'[q] = saves[q]
    BY <1>3, SaveWrites, Zenon DEF OpenPage, TypeOK
  <2>2. QED
    BY <2>1
<1>4. ASSUME NEW r \in Saves, PostSave(r) PROVE FALSE
  <2>1. PICK password \in ({saves[r].text.password} \ {Unusable}) \cup {r, NoPassword} :
          saves' = [saves EXCEPT ![r] =
            [pc |-> "queued",
             text |-> [edits |-> saves[r].text.edits \cup {r}, password |-> password,
                       parses |-> TRUE, valid |-> TRUE]]]
    BY <1>4, Zenon DEF PostSave
  <2>2. saves'[r].pc = "queued" /\ \A q \in Saves : q # r => saves'[q] = saves[q]
    BY <2>1, Zenon DEF TypeOK
  <2>3. QED
    BY <2>2
<1>5. ASSUME NEW r \in Saves, TakeTurn(r) \/ WriteSave(r) \/ SaveFails(r) PROVE FALSE
  <2>1. saves'[r].pc \in {"writing", "redirected", "promoting", "failed"}
        /\ \A q \in Saves : q # r => saves'[q] = saves[q]
    BY <1>5, SavesMove, Zenon DEF TakeTurn, WriteSave, SaveFails, TypeOK
  <2>2. QED
    BY <2>1
<1>6. ASSUME NEW r \in Saves, Promote(r) PROVE ~file.valid
  <2>1. \A q \in Saves : q # r => saves'[q] = saves[q]
    BY <1>6, SavesMove, Zenon DEF Promote, TypeOK
  <2>2. promoting \in {"running", "done"}
    BY <1>6, Zenon DEF Promote, TurnInv
  <2>3. CASE promoting = "running" /\ file.valid
    <3>1. saves'[r].pc = "started"
      BY <1>6, <2>3, SavesMove, Zenon DEF Promote, TypeOK
    <3>2. QED
      BY <2>1, <3>1
  <2>4. CASE promoting = "done"
    <3>1. saves'[r].pc = "started"
      BY <1>6, <2>4, SavesMove, Zenon DEF Promote, TypeOK
    <3>2. QED
      BY <2>1, <3>1
  <2>5. QED
    BY <2>2, <2>3, <2>4
<1>7. ASSUME NEW h \in Hands, HandEdit(h) PROVE FALSE
  BY <1>7, Zenon DEF HandEdit
<1>8. ASSUME Restart PROVE FALSE
  <2>1. saves'[s] = IF saves[s].pc \in {"open", "queued", "writing", "promoting"}
                      THEN [saves[s] EXCEPT !.pc = "lost"] ELSE saves[s]
    BY <1>8, Zenon DEF Restart
  <2>2. [saves[s] EXCEPT !.pc = "lost"].pc = "lost"
    BY Zenon DEF TypeOK, Save
  <2>3. QED
    BY <2>1, <2>2
<1>9. QED
  BY <1>1, <1>2, <1>3, <1>4, <1>5, <1>6, <1>7, <1>8, Zenon DEF Next

-----------------------------------------------------------------------------
(* The queue of the saves.                                                 *)

InLine(pc) == pc \in {"queued", "writing", "promoting"}

\* A save moves on in its place.
LEMMA QueueStays ==
  ASSUME NobodyWaitsInVain, queue' = queue,
         \A r \in Saves : InLine(saves'[r].pc) <=> InLine(saves[r].pc),
         queue \in Seq(Saves)
  PROVE  NobodyWaitsInVain'
BY DEF NobodyWaitsInVain, InLine

\* The save at the head is over, and the next one follows.
LEMMA QueueMoves ==
  ASSUME NobodyWaitsInVain, queue \in Seq(Saves), NEW s \in Saves, AtHead(s),
         queue' = Tail(queue), ~InLine(saves'[s].pc),
         \A r \in Saves : r # s => saves'[r] = saves[r]
  PROVE  NobodyWaitsInVain'
<1>1. /\ queue # <<>> /\ s = queue[1] /\ Len(queue) \in Nat /\ DOMAIN queue = 1..Len(queue)
      /\ \A i \in 1..Len(queue) : queue[i] \in Saves
      /\ \A i, j \in 1..Len(queue) : queue[i] = queue[j] => i = j
  BY DEF AtHead, NobodyWaitsInVain
<1>2. /\ Len(queue) >= 1
      /\ DOMAIN queue' = 1 .. (Len(queue) - 1)
      /\ \A i \in 1 .. (Len(queue) - 1) : queue'[i] = queue[i + 1] /\ queue'[i] # s
  BY <1>1
<1>3. ASSUME NEW r \in Saves, InLine(saves'[r].pc)
      PROVE  \E i \in DOMAIN queue' : queue'[i] = r
  <2>1. r # s /\ InLine(saves[r].pc)
    BY <1>3
  <2>2. PICK i \in DOMAIN queue : queue[i] = r
    BY <2>1 DEF NobodyWaitsInVain, InLine
  <2>3. i - 1 \in DOMAIN queue' /\ queue'[i - 1] = r
    BY <1>1, <1>2, <2>1, <2>2
  <2>4. QED
    BY <2>3
<1>4. ASSUME NEW i \in DOMAIN queue'
      PROVE  InLine(saves'[queue'[i]].pc)
  BY <1>1, <1>2 DEF NobodyWaitsInVain, InLine
<1>5. \A i, j \in DOMAIN queue' : queue'[i] = queue'[j] => i = j
  BY <1>1, <1>2
<1>6. QED
  BY <1>3, <1>4, <1>5 DEF NobodyWaitsInVain, InLine

LEMMA QueueStep == TypeOK /\ TurnInv /\ NobodyWaitsInVain /\ [Next]_vars => NobodyWaitsInVain'
<1> SUFFICES ASSUME TypeOK, TurnInv, NobodyWaitsInVain, [Next]_vars PROVE NobodyWaitsInVain'
  OBVIOUS
<1> USE DEF page, posts
<1>0. queue \in Seq(Saves)
  BY DEF TypeOK
<1>a. ASSUME queue' = queue, saves' = saves PROVE NobodyWaitsInVain'
  BY <1>0, <1>a, QueueStays, Zenon
<1>1. ASSUME NEW c \in Claims, PostClaim(c) \/ Latch(c) \/ ReadForClaim(c) \/ WriteClaim(c) \/ ClaimFails(c)
      PROVE  NobodyWaitsInVain'
  BY <1>a, <1>1, Zenon DEF PostClaim, Latch, ReadForClaim, WriteClaim, ClaimFails
<1>2. ASSUME NEW l \in Logins, PostLogin(l) \/ Login(l) PROVE NobodyWaitsInVain'
  BY <1>a, <1>2, Zenon DEF PostLogin, Login
<1>3. ASSUME NEW s \in Saves, OpenPage(s) PROVE NobodyWaitsInVain'
  <2>1. /\ saves[s].pc = "idle" /\ saves'[s].pc = "open" /\ queue' = queue
        /\ \A r \in Saves : r # s => saves'[r] = saves[r]
    BY <1>3, SaveWrites, Zenon DEF OpenPage, TypeOK
  <2>2. QED
    BY <1>0, <2>1, QueueStays DEF InLine
<1>4. ASSUME NEW s \in Saves, PostSave(s) PROVE NobodyWaitsInVain'
  <2>1. saves'[s].pc = "queued" /\ \A r \in Saves : r # s => saves'[r] = saves[r]
    <3>1. PICK password \in ({saves[s].text.password} \ {Unusable}) \cup {s, NoPassword} :
          saves' = [saves EXCEPT ![s] =
            [pc |-> "queued",
             text |-> [edits |-> saves[s].text.edits \cup {s}, password |-> password,
                       parses |-> TRUE, valid |-> TRUE]]]
      BY <1>4, Zenon DEF PostSave
    <3>2. QED
      BY <3>1, Zenon DEF TypeOK
  <2>2. saves[s].pc = "open" /\ queue' = Append(queue, s)
    BY <1>4 DEF PostSave
  <2>3. /\ Len(queue) \in Nat /\ DOMAIN queue = 1..Len(queue)
        /\ \A i \in 1..Len(queue) : queue[i] \in Saves /\ queue[i] # s
        /\ \A i, j \in 1..Len(queue) : queue[i] = queue[j] => i = j
    BY <1>0, <2>2 DEF NobodyWaitsInVain
  <2>4. /\ DOMAIN queue' = 1..(Len(queue) + 1) /\ queue'[Len(queue) + 1] = s
        /\ \A i \in 1..Len(queue) : queue'[i] = queue[i]
    BY <1>0, <2>2
  <2>5. ASSUME NEW r \in Saves, saves'[r].pc \in {"queued", "writing", "promoting"}
        PROVE  \E i \in DOMAIN queue' : queue'[i] = r
    <3>1. CASE r = s
      BY <2>3, <2>4, <3>1
    <3>2. CASE r # s
      <4>1. PICK i \in DOMAIN queue : queue[i] = r
        BY <2>1, <2>5, <3>2 DEF NobodyWaitsInVain
      <4>2. QED
        BY <2>3, <2>4, <4>1
    <3>3. QED
      BY <3>1, <3>2
  <2>6. ASSUME NEW i \in DOMAIN queue'
        PROVE  saves'[queue'[i]].pc \in {"queued", "writing", "promoting"}
    <3>1. CASE i = Len(queue) + 1
      BY <2>1, <2>4, <3>1
    <3>2. CASE i # Len(queue) + 1
      <4>1. i \in DOMAIN queue /\ queue'[i] = queue[i] /\ saves'[queue[i]] = saves[queue[i]]
        BY <2>1, <2>3, <2>4, <3>2
      <4>2. QED
        BY <4>1 DEF NobodyWaitsInVain
    <3>3. QED
      BY <3>1, <3>2
  <2>7. \A i, j \in DOMAIN queue' : queue'[i] = queue'[j] => i = j
    BY <2>3, <2>4
  <2>8. QED
    BY <2>5, <2>6, <2>7 DEF NobodyWaitsInVain
<1>5. ASSUME NEW s \in Saves, TakeTurn(s) PROVE NobodyWaitsInVain'
  <2>1. CASE runtime = NoRuntime
    <3>1. /\ saves[s].pc = "queued" /\ saves'[s].pc = "writing" /\ queue' = queue
          /\ \A r \in Saves : r # s => saves'[r] = saves[r]
      BY <1>5, <2>1, SavesMove, Zenon DEF TakeTurn, TypeOK
    <3>2. QED
      BY <1>0, <3>1, QueueStays DEF InLine
  <2>2. CASE runtime # NoRuntime
    <3>1. /\ AtHead(s) /\ saves'[s].pc = "redirected" /\ queue' = Tail(queue)
          /\ \A r \in Saves : r # s => saves'[r] = saves[r]
      BY <1>5, <2>2, SavesMove, Zenon DEF TakeTurn, TypeOK
    <3>2. QED
      BY <1>0, <3>1, QueueMoves DEF InLine
  <2>3. QED
    BY <2>1, <2>2
<1>6. ASSUME NEW s \in Saves, WriteSave(s) PROVE NobodyWaitsInVain'
  <2>1. /\ saves[s].pc = "writing" /\ saves'[s].pc = "promoting" /\ queue' = queue
        /\ \A r \in Saves : r # s => saves'[r] = saves[r]
    BY <1>6, SavesMove, Zenon DEF WriteSave, TypeOK
  <2>2. QED
    BY <1>0, <2>1, QueueStays DEF InLine
<1>7. ASSUME NEW s \in Saves, Promote(s) \/ SaveFails(s) PROVE NobodyWaitsInVain'
  <2>1. /\ saves[s].pc \in {"writing", "promoting"}
        /\ saves'[s].pc \in {"started", "refused", "failed"} /\ queue' = Tail(queue)
        /\ \A r \in Saves : r # s => saves'[r] = saves[r]
    BY <1>7, SavesMove, Zenon DEF Promote, SaveFails, TypeOK
  <2>2. AtHead(s)
    BY <2>1, Zenon DEF TurnInv
  <2>3. QED
    BY <1>0, <2>1, <2>2, QueueMoves DEF InLine
<1>8. ASSUME NEW h \in Hands, HandEdit(h) PROVE NobodyWaitsInVain'
  BY <1>a, <1>8, Zenon DEF HandEdit
<1>9. CASE Restart
  <2>1. ASSUME NEW s \in Saves PROVE saves'[s].pc \notin {"queued", "writing", "promoting"}
    <3>1. saves'[s] = IF saves[s].pc \in {"open", "queued", "writing", "promoting"}
                        THEN [saves[s] EXCEPT !.pc = "lost"] ELSE saves[s]
      BY <1>9, Zenon DEF Restart
    <3>2. [saves[s] EXCEPT !.pc = "lost"].pc = "lost"
      BY Zenon DEF TypeOK, Save
    <3>3. QED
      BY <3>1, <3>2
  <2>2. queue' = <<>>
    BY <1>9 DEF Restart
  <2>3. QED
    BY <2>1, <2>2 DEF NobodyWaitsInVain
<1>10. CASE UNCHANGED vars
  BY <1>a, <1>10, Zenon DEF vars
<1>11. QED
  BY <1>1, <1>2, <1>3, <1>4, <1>5, <1>6, <1>7, <1>8, <1>9, <1>10, Zenon DEF Next

-----------------------------------------------------------------------------
(* The sessions of the page and of the application that replaces it.       *)

\* A promotion under way has not started the application yet.
SwapInv == promoting = "running" => runtime = NoRuntime

\* What the process starts with can be parsed, and so can what is about to be written.
Sound(text) == text.valid => text.parses

ParsesInv ==
  /\ Sound(file)
  /\ \A c \in Claims : claims[c].pc = "writing" => Sound(claims[c].text)
  /\ \A s \in Saves : saves[s].pc \in {"queued", "writing"} => Sound(saves[s].text)

(* The sessions are bound to the password in force, and so will they be by *)
(* a sign-in in progress.                                                  *)
FollowInv ==
  runtime # NoRuntime =>
    bound = runtime.password /\ (logins = {} \/ auth = runtime.password)

LEMMA SwapStep == TypeOK /\ TurnInv /\ SwapInv /\ [Next]_vars => SwapInv'
<1> SUFFICES ASSUME TypeOK, TurnInv, SwapInv, [Next]_vars PROVE SwapInv'
  OBVIOUS
<1> USE DEF page, posts
<1>1. ASSUME NEW c \in Claims, PostClaim(c) \/ Latch(c) \/ ReadForClaim(c) \/ WriteClaim(c) \/ ClaimFails(c)
      PROVE  SwapInv'
  BY <1>1, Zenon DEF PostClaim, Latch, ReadForClaim, WriteClaim, ClaimFails, SwapInv
<1>2. ASSUME NEW l \in Logins, PostLogin(l) \/ Login(l) PROVE SwapInv'
  BY <1>2, Zenon DEF PostLogin, Login, SwapInv
<1>3. ASSUME NEW s \in Saves, OpenPage(s) \/ PostSave(s) \/ TakeTurn(s) PROVE SwapInv'
  BY <1>3, Zenon DEF OpenPage, PostSave, TakeTurn, SwapInv
<1>4. ASSUME NEW s \in Saves, WriteSave(s) PROVE SwapInv'
  BY <1>4, Zenon DEF WriteSave, TurnInv, SwapInv
<1>5. ASSUME NEW s \in Saves, Promote(s) \/ SaveFails(s) PROVE SwapInv'
  <2>1. promoting' # "running"
    BY <1>5 DEF Promote, SaveFails, Unlatch
  <2>2. QED
    BY <2>1 DEF SwapInv
<1>6. ASSUME NEW h \in Hands, HandEdit(h) PROVE SwapInv'
  BY <1>6, Zenon DEF HandEdit, SwapInv
<1>7. CASE Restart
  BY <1>7 DEF Restart, SwapInv
<1>8. CASE UNCHANGED vars
  BY <1>8, Zenon DEF vars, SwapInv
<1>9. QED
  BY <1>1, <1>2, <1>3, <1>4, <1>5, <1>6, <1>7, <1>8, Zenon DEF Next

LEMMA ParsesStep == TypeOK /\ ParsesInv /\ [Next]_vars => ParsesInv'
<1> SUFFICES ASSUME TypeOK, ParsesInv, [Next]_vars PROVE ParsesInv'
  OBVIOUS
<1> USE DEF page, posts
<1>a. ASSUME file' = file,
             \A c \in Claims : claims'[c] = claims[c] \/ claims'[c].pc # "writing",
             \A s \in Saves : \/ saves'[s] = saves[s]
                             \/ saves'[s].pc \notin {"queued", "writing"}
      PROVE  ParsesInv'
  BY <1>a, Zenon DEF ParsesInv
<1>1. ASSUME NEW c \in Claims, PostClaim(c) \/ ClaimFails(c) PROVE ParsesInv'
  <2>1. claims'[c].pc # "writing" /\ \A d \in Claims : d # c => claims'[d] = claims[d]
    BY <1>1, ClaimsMove, Zenon DEF PostClaim, ClaimFails, TypeOK
  <2>2. QED
    BY <1>a, <1>1, <2>1, Zenon DEF PostClaim, ClaimFails
<1>2. ASSUME NEW c \in Claims, Latch(c) PROVE ParsesInv'
  <2>1. claims'[c].pc # "writing" /\ \A d \in Claims : d # c => claims'[d] = claims[d]
    BY <1>2, ClaimsMove, Zenon DEF Latch, TypeOK
  <2>2. QED
    BY <1>a, <1>2, <2>1, Zenon DEF Latch
<1>3. ASSUME NEW c \in Claims, ReadForClaim(c) PROVE ParsesInv'
  <2>0. file' = file /\ saves' = saves
    BY <1>3, Zenon DEF ReadForClaim
  <2>1. CASE file.parses /\ file.password = NoPassword
    <3> DEFINE t == [file EXCEPT !.edits = file.edits \cup {c}, !.password = c]
    <3>1. t.parses <=> file.parses
      BY Zenon DEF TypeOK, Text
    <3>2. claims' = [claims EXCEPT ![c] = [pc |-> "writing", raced |-> FALSE, text |-> t]]
      BY <1>3, <2>1, Zenon DEF ReadForClaim
    <3> HIDE DEF t
    <3>3. claims'[c].text = t /\ \A d \in Claims : d # c => claims'[d] = claims[d]
      BY <3>2, Zenon DEF TypeOK
    <3>4. Sound(t)
      BY <2>1, <3>1, Zenon DEF Sound
    <3>5. QED
      BY <2>0, <3>3, <3>4, Zenon DEF ParsesInv
  <2>2. CASE ~(file.parses /\ file.password = NoPassword)
    <3>1. claims'[c].pc = "over" /\ \A d \in Claims : d # c => claims'[d] = claims[d]
      BY <1>3, <2>2, ClaimsMove, Zenon DEF ReadForClaim, TypeOK
    <3>2. QED
      BY <1>a, <2>0, <3>1, Zenon
  <2>3. QED
    BY <2>1, <2>2
<1>4. ASSUME NEW c \in Claims, WriteClaim(c) PROVE ParsesInv'
  <2>1. claims'[c].pc = "over" /\ \A d \in Claims : d # c => claims'[d] = claims[d]
    BY <1>4, ClaimsMove, Zenon DEF WriteClaim, TypeOK
  <2>2. file' = claims[c].text /\ saves' = saves /\ claims[c].pc = "writing"
    BY <1>4, Zenon DEF WriteClaim
  <2>3. QED
    BY <2>1, <2>2, Zenon DEF ParsesInv
<1>5. ASSUME NEW l \in Logins, PostLogin(l) \/ Login(l) PROVE ParsesInv'
  BY <1>5, Zenon DEF PostLogin, Login, ParsesInv
<1>6. ASSUME NEW s \in Saves, OpenPage(s) PROVE ParsesInv'
  <2>1. /\ saves'[s].pc = "open" /\ file' = file /\ claims' = claims
        /\ \A r \in Saves : r # s => saves'[r] = saves[r]
    BY <1>6, SaveWrites, Zenon DEF OpenPage, TypeOK
  <2>2. QED
    BY <1>a, <2>1, Zenon
<1>7. ASSUME NEW s \in Saves, PostSave(s) PROVE ParsesInv'
  <2>1. PICK password \in ({saves[s].text.password} \ {Unusable}) \cup {s, NoPassword} :
          saves' = [saves EXCEPT ![s] =
            [pc |-> "queued",
             text |-> [edits |-> saves[s].text.edits \cup {s}, password |-> password,
                       parses |-> TRUE, valid |-> TRUE]]]
    BY <1>7, Zenon DEF PostSave
  <2>2. /\ saves'[s].text.parses /\ \A r \in Saves : r # s => saves'[r] = saves[r]
    BY <2>1, Zenon DEF TypeOK
  <2>3. file' = file /\ claims' = claims
    BY <1>7, Zenon DEF PostSave
  <2>4. QED
    BY <2>2, <2>3, Zenon DEF ParsesInv, Sound
<1>8. ASSUME NEW s \in Saves, TakeTurn(s) PROVE ParsesInv'
  <2>1. file' = file /\ claims' = claims /\ saves[s].pc = "queued"
    BY <1>8, Zenon DEF TakeTurn
  <2>2. saves'[s].text = saves[s].text /\ \A r \in Saves : r # s => saves'[r] = saves[r]
    BY <1>8, Zenon DEF TakeTurn, SaveIs, TypeOK, Save
  <2>3. QED
    BY <2>1, <2>2, Zenon DEF ParsesInv
<1>9. ASSUME NEW s \in Saves, WriteSave(s) PROVE ParsesInv'
  <2>1. saves'[s].pc = "promoting" /\ \A r \in Saves : r # s => saves'[r] = saves[r]
    BY <1>9, SavesMove, Zenon DEF WriteSave, TypeOK
  <2>2. file' = saves[s].text /\ claims' = claims /\ saves[s].pc = "writing"
    BY <1>9, Zenon DEF WriteSave
  <2>3. saves'[s].pc \notin {"queued", "writing"}
    BY <2>1
  <2>4. QED
    BY <2>1, <2>2, <2>3, Zenon DEF ParsesInv
<1>10. ASSUME NEW s \in Saves, Promote(s) \/ SaveFails(s) PROVE ParsesInv'
  <2>1. /\ saves'[s].pc \in {"started", "refused", "failed"}
        /\ \A r \in Saves : r # s => saves'[r] = saves[r]
    BY <1>10, SavesMove, Zenon DEF Promote, SaveFails, TypeOK
  <2>2. saves'[s].pc \notin {"queued", "writing"}
    BY <2>1
  <2>3. file' = file /\ claims' = claims
    BY <1>10, Zenon DEF Promote, SaveFails
  <2>4. QED
    BY <1>a, <2>1, <2>2, <2>3, Zenon
<1>11. ASSUME NEW h \in Hands, HandEdit(h) PROVE ParsesInv'
  <2>1. Sound(file')
    BY <1>11, Zenon DEF HandEdit, Sound
  <2>2. ASSUME NEW c \in Claims
        PROVE  claims'[c].pc = claims[c].pc /\ claims'[c].text = claims[c].text
    <3>1. claims'[c] = [claims[c] EXCEPT !.raced = claims[c].raced \/ claims[c].pc = "writing"]
      BY <1>11, Zenon DEF HandEdit
    <3>2. QED
      BY <3>1, ClaimRaces, Zenon DEF TypeOK
  <2>3. saves' = saves
    BY <1>11, Zenon DEF HandEdit
  <2>4. QED
    BY <2>1, <2>2, <2>3, Zenon DEF ParsesInv
<1>12. CASE Restart
  <2>1. ASSUME NEW c \in Claims PROVE claims'[c].pc # "writing"
    <3>1. claims'[c] = IF claims[c].pc = "idle" THEN claims[c] ELSE [claims[c] EXCEPT !.pc = "over"]
      BY <1>12, Zenon DEF Restart
    <3>2. [claims[c] EXCEPT !.pc = "over"].pc = "over"
      BY ClaimMoves, Zenon DEF TypeOK
    <3>3. QED
      BY <3>1, <3>2
  <2>2. ASSUME NEW s \in Saves PROVE saves'[s].pc \notin {"queued", "writing"}
    <3>1. saves'[s] = IF saves[s].pc \in {"open", "queued", "writing", "promoting"}
                        THEN [saves[s] EXCEPT !.pc = "lost"] ELSE saves[s]
      BY <1>12, Zenon DEF Restart
    <3>2. [saves[s] EXCEPT !.pc = "lost"].pc = "lost"
      BY Zenon DEF TypeOK, Save
    <3>3. QED
      BY <3>1, <3>2
  <2>3. file' = file
    BY <1>12, Zenon DEF Restart
  <2>4. QED
    BY <1>a, <2>1, <2>2, <2>3, Zenon
<1>13. CASE UNCHANGED vars
  BY <1>13, Zenon DEF vars, ParsesInv
<1>14. QED
  BY <1>1, <1>2, <1>3, <1>4, <1>5, <1>6, <1>7, <1>8, <1>9, <1>10, <1>11, <1>12, <1>13, Zenon DEF Next

NoneStraddles == runtime = NoRuntime /\ runtime' # NoRuntime => logins' = {} \/ runtime'.password = auth'

LEMMA FollowStep ==
  TypeOK /\ ClaimInv /\ SwapInv /\ ParsesInv /\ FollowInv /\ [Next]_vars /\ [NoneStraddles]_vars
    => FollowInv'
<1> SUFFICES ASSUME TypeOK, ClaimInv, SwapInv, ParsesInv, FollowInv, [Next]_vars, [NoneStraddles]_vars
             PROVE  FollowInv'
  OBVIOUS
<1> USE DEF page, posts
<1>1. ASSUME NEW c \in Claims, PostClaim(c) \/ Latch(c) \/ ClaimFails(c) PROVE FollowInv'
  BY <1>1, Zenon DEF PostClaim, Latch, ClaimFails, FollowInv
<1>2. ASSUME NEW c \in Claims, ReadForClaim(c) \/ WriteClaim(c) PROVE FollowInv'
  BY <1>2, Zenon DEF ReadForClaim, WriteClaim, ClaimInv, FollowInv
<1>3. ASSUME NEW l \in Logins, PostLogin(l) PROVE FollowInv'
  BY <1>3, Zenon DEF PostLogin, Served, FollowInv
<1>4. ASSUME NEW l \in Logins, Login(l) PROVE FollowInv'
  BY <1>4, Zenon DEF Login, FollowInv
<1>5. ASSUME NEW s \in Saves, OpenPage(s) \/ PostSave(s) \/ TakeTurn(s) \/ WriteSave(s)
      PROVE  FollowInv'
  BY <1>5, Zenon DEF OpenPage, PostSave, TakeTurn, WriteSave, FollowInv
<1>6. ASSUME NEW s \in Saves, SaveFails(s) PROVE FollowInv'
  <2>1. runtime # NoRuntime => bound' = bound
    BY <1>6, Zenon DEF SaveFails, BoundBy, SwapInv
  <2>2. QED
    BY <1>6, <2>1, Zenon DEF SaveFails, FollowInv
<1>7. ASSUME NEW s \in Saves, Promote(s) PROVE FollowInv'
  <2>1. CASE promoting = "running" /\ file.valid
    <3>1. runtime' = file /\ bound' = file.password /\ runtime = NoRuntime
      BY <1>7, <2>1, Zenon DEF Promote, Start, SwapInv
    <3>2. runtime' # NoRuntime => logins' = {} \/ runtime'.password = auth'
      BY <3>1, Zenon DEF NoneStraddles, vars
    <3>3. QED
      BY <3>1, <3>2, Zenon DEF FollowInv
  <2>2. CASE ~(promoting = "running" /\ file.valid)
    BY <1>7, <2>2, Zenon DEF Promote, FollowInv
  <2>3. QED
    BY <2>1, <2>2
<1>8. ASSUME NEW h \in Hands, HandEdit(h) PROVE FollowInv'
  BY <1>8, Zenon DEF HandEdit, FollowInv
<1>9. CASE Restart
  <2>1. runtime' # NoRuntime => runtime' = file /\ file.valid
    BY <1>9, Zenon DEF Restart
  <2>2. runtime' # NoRuntime => bound' = file.password /\ logins' = {}
    BY <1>9, <2>1, Zenon DEF Restart, ParsesInv, Sound
  <2>3. QED
    BY <2>1, <2>2, Zenon DEF FollowInv
<1>10. CASE UNCHANGED vars
  BY <1>10, Zenon DEF vars, FollowInv
<1>11. QED
  BY <1>1, <1>2, <1>3, <1>4, <1>5, <1>6, <1>7, <1>8, <1>9, <1>10, Zenon DEF Next

LEMMA InitFollow == Init => SwapInv /\ ParsesInv /\ FollowInv
<1> SUFFICES ASSUME Init PROVE SwapInv /\ ParsesInv /\ FollowInv
  OBVIOUS
<1>1. \A p : [Blank EXCEPT !.password = p].parses
  BY Zenon DEF Blank
<1>2. Sound(file)
  BY <1>1, Zenon DEF Init, Sound
<1>3. /\ \A c \in Claims : claims[c].pc = "idle"
      /\ \A s \in Saves : saves[s].pc = "idle"
  BY DEF Init
<1>4. QED
  BY <1>2, <1>3 DEF Init, SwapInv, ParsesInv, FollowInv

LEMMA InitInv == Init => IInv
<1> SUFFICES ASSUME Init PROVE IInv
  OBVIOUS
<1>1. TypeOK
  BY InitType
<1>2. /\ \A c \in Claims : claims[c].pc = "idle"
      /\ \A s \in Saves : saves[s].pc = "idle"
  BY DEF Init
<1>3. SignInInv /\ TurnInv /\ HashingInv /\ ClaimInv /\ ClaimTextInv /\ EditorInv /\ RuntimeIsFile
  BY <1>2 DEF Init, SignInInv, TurnInv, HashingInv, ClaimInv, ClaimTextInv, EditorInv, RuntimeIsFile
<1>4. NobodyWaitsInVain
  BY <1>2 DEF Init, NobodyWaitsInVain
<1>5. QED
  BY <1>1, <1>3, <1>4 DEF IInv

LEMMA InvStep == IInv /\ [Next]_vars => IInv'
BY TypeStep, SignInStep, TurnStep, HashingStep, ClaimStep, ClaimTextStep, EditorStep, RuntimeStep,
   QueueStep, Zenon DEF IInv

LEMMA Inductive == Spec => []IInv
<1>1. QED
  BY InitInv, InvStep, PTL DEF Spec

-----------------------------------------------------------------------------
(* The theorems.                                                           *)

(* Every variable keeps its type: no cookie is given to anybody without a  *)
(* password, by any sign-in that overlaps a claim, a save or a restart.    *)
THEOREM TypeCorrect == Spec => []TypeOK
<1>1. IInv => TypeOK
  BY DEF IInv
<1>2. QED
  BY <1>1, Inductive, PTL

(* repair.ts: "the runtime and the file can never disagree about which save  *)
(* won", of any number of saves and claims that overlap.                   *)
THEOREM RuntimeRunsTheFile == Spec => []RuntimeIsFile
<1>1. IInv => RuntimeIsFile
  BY DEF IInv
<1>2. QED
  BY <1>1, Inductive, PTL

(* repair.ts chains the saves one behind the other.  Every save that was   *)
(* posted is in that queue once, and the queue holds nobody else: a save   *)
(* that throws, is refused or is redirected makes way for the next.        *)
THEOREM SavesStayInLine == Spec => []NobodyWaitsInVain
<1>1. IInv => NobodyWaitsInVain
  BY DEF IInv
<1>2. QED
  BY <1>1, Inductive, PTL

(* session.ts: the sessions are bound to the password in force.  They can  *)
(* come to be bound to another when the application takes over             *)
(* (MCStartupSessions), and only in one way: if no sign-in is being checked  *)
(* at that moment, or the page knew the password the application starts    *)
(* with, they follow it through any claims, saves, hand edits and restarts.  *)
THEOREM SessionsFollow == Spec /\ NoSignInStraddles => []SessionsFollowConfig
<1>1. NoSignInStraddles <=> [][NoneStraddles]_vars
  BY DEF NoSignInStraddles, NoneStraddles
<1>2. FollowInv => SessionsFollowConfig
  BY DEF FollowInv, SessionsFollowConfig
<1>3. IInv => TypeOK /\ TurnInv /\ ClaimInv
  BY DEF IInv
<1>4. QED
  BY <1>1, <1>2, <1>3, InitFollow, SwapStep, ParsesStep, FollowStep, Inductive, PTL DEF Spec

(* A claim on the repair page replaces no password and reverts no edit, of *)
(* any number of claims, saves and hand edits, short of a hand edit in the *)
(* moment of its write.                                                    *)
THEOREM ClaimsReplaceNothing == Spec => ClaimReplacesNothing
<1> DEFINE A == \A c \in Claims :
       WriteClaim(c) /\ ~claims[c].raced => file.password = NoPassword /\ file.edits \subseteq file'.edits
<1>1. IInv => A
  <2> SUFFICES ASSUME IInv, NEW c \in Claims, WriteClaim(c), ~claims[c].raced
               PROVE  file.password = NoPassword /\ file.edits \subseteq file'.edits
    OBVIOUS
  <2>1. claims[c].pc = "writing" /\ file' = claims[c].text
    BY DEF WriteClaim
  <2>2. QED
    BY <2>1, Zenon DEF IInv, ClaimTextInv
<1>2. IInv /\ [Next]_vars => [A]_vars
  BY <1>1
<1>3. ClaimReplacesNothing <=> [][A]_vars
  BY DEF ClaimReplacesNothing
<1> HIDE DEF A
<1>4. QED
  BY <1>2, <1>3, Inductive, PTL DEF Spec

(* bootstrap.ts: "a corrected save can try again".  A save is refused only *)
(* because the file does not load, whatever earlier saves were told.       *)
THEOREM RefusalsHaveACause == Spec => RefusedForCause
<1> DEFINE A == \A s \in Saves :
       saves[s].pc # "refused" /\ saves'[s].pc = "refused" => ~file.valid
<1>1. IInv /\ [Next]_vars => [A]_vars
  <2> SUFFICES ASSUME IInv, Next, NEW s \in Saves, saves[s].pc # "refused", saves'[s].pc = "refused"
               PROVE  ~file.valid
    BY DEF vars, posts
  <2>1. TypeOK /\ TurnInv
    BY DEF IInv
  <2>2. QED
    BY <2>1, RefusedInPromote
<1>2. RefusedForCause <=> [][A]_vars
  BY DEF RefusedForCause
<1> HIDE DEF A
<1>3. QED
  BY <1>1, <1>2, Inductive, PTL DEF Spec

=============================================================================
