------------------------------- MODULE Startup -------------------------------
(***************************************************************************)
(* How the process comes up (bootstrap.ts) and the page it serves when     *)
(* config.yaml does not load (repair.ts): whoever holds the password, or   *)
(* claims an instance that has none, edits the file there, and a save that *)
(* loads replaces the page by the real application without a restart.      *)
(* The two share one Sessions.  A person may edit the file meanwhile.      *)
(*                                                                         *)
(* What a file says is the set of edits in it, whose password it has, and  *)
(* whether it can be parsed and loaded.  A password has the name of the    *)
(* edit that set it.  The page reads the file once, when the process       *)
(* starts; requests it was still serving go on after it was replaced.      *)
(***************************************************************************)
EXTENDS Naturals, Sequences

CONSTANTS
  Claims,     \* posts of the setup form, each of which may be made once
  Saves,      \* posts of the repair form, likewise
  Hands,      \* hand edits, likewise
  Logins,     \* posts of the sign-in form in progress
  Owner,      \* the password of an instance that is claimed from the start
  NoPassword, \* no password_hash
  Unusable,   \* a password_hash that cannot be read
  NoRuntime,  \* the repair page is served
  MaxRestarts \* bound: ends of the process

Edits == Claims \cup Saves \cup Hands
Passwords == Edits \cup {Owner}

ASSUME NamesAssumption ==
  /\ Claims \cap Saves = {} /\ (Claims \cup Saves) \cap Hands = {}
  /\ Owner \notin Edits
  /\ {NoPassword, Unusable} \cap Passwords = {} /\ NoPassword # Unusable

ASSUME BoundAssumption == MaxRestarts \in Nat

VARIABLES
  file,      \* config.yaml
  runtime,   \* what the Runtime in force read
  raw,       \* the text the repair page shows
  auth,      \* the password it asks for
  claiming,  \* a claim is being written
  queue,     \* `saves` of repair.ts
  promoting, \* the promotion under way, done or, in a mutant, failed
  bound,     \* the password the Sessions are bound to
  cookies,   \* passwords somebody was given a cookie under
  claims, saves, logins,
  made,      \* hand edits made
  unread,    \* history: the file was edited by hand since the Runtime read it
  restarts

page == <<raw, auth, claiming, queue, promoting>>
posts == <<claims, saves, logins>>
vars == <<file, runtime, page, bound, cookies, posts, made, unread, restarts>>

Text == [edits : SUBSET Edits,
         password : Passwords \cup {NoPassword, Unusable},
         parses : BOOLEAN,
         valid : BOOLEAN]   \* the process starts with it

Blank == [edits |-> {}, password |-> NoPassword, parses |-> TRUE, valid |-> FALSE]

Claim == [pc : {"idle", "hashing", "reading", "writing", "over"},
          text : Text,
          raced : BOOLEAN]  \* history: a hand edit came between its read and its write
Save == [pc : {"idle", "open", "queued", "writing", "promoting", "started", "refused",
               "failed", "redirected", "lost"},
         text : Text]

\* The process came up before with this file, and somebody may still have a cookie.
Init ==
  /\ \E password \in {Owner, NoPassword} :
       /\ file = [Blank EXCEPT !.password = password]
       /\ cookies \in SUBSET ({password} \cap Passwords)
  /\ runtime = NoRuntime
  /\ raw = file /\ auth = file.password /\ bound = file.password
  /\ claiming = FALSE /\ queue = <<>> /\ promoting = "none"
  /\ claims = [c \in Claims |-> [pc |-> "idle", text |-> Blank, raced |-> FALSE]]
  /\ saves = [s \in Saves |-> [pc |-> "idle", text |-> Blank]]
  /\ logins = {}
  /\ made = {} /\ unread = FALSE /\ restarts = 0

\* A new request reaches the page, and there is a readable auth block.
Served == runtime = NoRuntime /\ auth # Unusable
unclaimed == auth = NoPassword
SignedIn == bound \in cookies

-----------------------------------------------------------------------------
(* POST /ui/setup.                                                         *)

ClaimIs(c, pc) == claims' = [claims EXCEPT ![c].pc = pc]

\* Up to hashPassword.
PostClaim(c) ==
  /\ Served /\ unclaimed /\ ~claiming
  /\ claims[c].pc = "idle"
  /\ ClaimIs(c, "hashing")
  /\ UNCHANGED <<file, runtime, page, bound, cookies, saves, logins, made, unread, restarts>>

\* Fault: the first check is taken to be enough.
LatchUnchecked(c) ==
  /\ claims[c].pc = "hashing"
  /\ claiming' = TRUE /\ ClaimIs(c, "reading")
  /\ UNCHANGED <<file, runtime, raw, auth, queue, promoting, bound, cookies, saves, logins,
                 made, unread, restarts>>

\* Checked again after the awaits, and latched.
Latch(c) ==
  /\ claims[c].pc = "hashing"
  /\ IF unclaimed /\ ~claiming
       THEN claiming' = TRUE /\ ClaimIs(c, "reading")
       ELSE claiming' = claiming /\ ClaimIs(c, "over")
  /\ UNCHANGED <<file, runtime, raw, auth, queue, promoting, bound, cookies, saves, logins,
                 made, unread, restarts>>

\* What the page asks for after a claim that found a password, or a file it cannot
\* read one in: of a file that does not parse, the password may be found all the same.
Adopted ==
  ({file.password} \cap Passwords)
    \cup (IF file.parses /\ file.password \in Passwords THEN {} ELSE {auth})

\* A password found in the file is adopted, one that cannot be read is refused.
ReadForClaim(c) ==
  /\ claims[c].pc = "reading"
  /\ IF file.parses /\ file.password = NoPassword
       THEN /\ claims' = [claims EXCEPT ![c] =
                 [pc |-> "writing", raced |-> FALSE,
                  text |-> [file EXCEPT !.edits = @ \cup {c}, !.password = c]]]
            /\ UNCHANGED <<auth, claiming>>
       ELSE /\ auth' \in Adopted
            /\ claiming' = FALSE
            /\ ClaimIs(c, "over")
  /\ UNCHANGED <<file, runtime, raw, queue, promoting, bound, cookies, saves, logins,
                 made, unread, restarts>>

\* The rename, what follows it without an await, and signIn.
WriteClaim(c) ==
  /\ claims[c].pc = "writing"
  /\ file' = claims[c].text /\ raw' = claims[c].text
  /\ auth' = c /\ bound' = c /\ cookies' = cookies \cup {c}
  /\ claiming' = FALSE
  /\ ClaimIs(c, "over")
  /\ UNCHANGED <<runtime, queue, promoting, saves, logins, made, unread, restarts>>

\* The file cannot be read, or it cannot be written.
ClaimFails(c) ==
  /\ claims[c].pc \in {"reading", "writing"}
  /\ claiming' = FALSE
  /\ ClaimIs(c, "over")
  /\ UNCHANGED <<file, runtime, raw, auth, queue, promoting, bound, cookies, saves, logins,
                 made, unread, restarts>>

-----------------------------------------------------------------------------
(* POST /ui/login, by somebody who knows the password; its throttle is     *)
(* that of Sessions.                                                       *)

\* Fault: an instance without a password is signed in to.
PostLoginUnclaimed(l) ==
  /\ Served
  /\ l \notin logins
  /\ logins' = logins \cup {l}
  /\ UNCHANGED <<file, runtime, page, bound, cookies, claims, saves, made, unread, restarts>>

PostLogin(l) ==
  /\ Served /\ ~unclaimed
  /\ l \notin logins
  /\ logins' = logins \cup {l}
  /\ UNCHANGED <<file, runtime, page, bound, cookies, claims, saves, made, unread, restarts>>

\* signIn: the Sessions are bound to the password the page knows.
Login(l) ==
  /\ l \in logins
  /\ logins' = logins \ {l}
  /\ bound' = auth /\ cookies' = cookies \cup {auth}
  /\ UNCHANGED <<file, runtime, page, claims, saves, made, unread, restarts>>

-----------------------------------------------------------------------------
(* The repair form: GET and POST /ui/repair, and the promotion.            *)

OpenPage(s) ==
  /\ Served /\ SignedIn
  /\ saves[s].pc = "idle"
  /\ saves' = [saves EXCEPT ![s] = [pc |-> "open", text |-> raw]]
  /\ UNCHANGED <<file, runtime, page, bound, cookies, claims, logins, made, unread, restarts>>

\* A text that validates, with the password of the page, another or none.
PostSave(s) ==
  /\ Served /\ SignedIn
  /\ saves[s].pc = "open"
  /\ \E password \in ({saves[s].text.password} \ {Unusable}) \cup {s, NoPassword} :
       saves' = [saves EXCEPT ![s] =
         [pc |-> "queued",
          text |-> [edits |-> saves[s].text.edits \cup {s}, password |-> password,
                    parses |-> TRUE, valid |-> TRUE]]]
  /\ queue' = Append(queue, s)
  /\ UNCHANGED <<file, runtime, raw, auth, claiming, promoting, bound, cookies, claims, logins,
                 made, unread, restarts>>

SaveIs(s, pc) == saves' = [saves EXCEPT ![s].pc = pc]
AtHead(s) == queue # <<>> /\ Head(queue) = s

\* Fault: a save is written although another has started the application.
TakeTurnAnyway(s) ==
  /\ AtHead(s) /\ saves[s].pc = "queued"
  /\ SaveIs(s, "writing")
  /\ UNCHANGED <<file, runtime, page, bound, cookies, claims, logins, made, unread, restarts>>

\* `apply` begins when the save before it is over, however that ended.
TakeTurn(s) ==
  /\ AtHead(s) /\ saves[s].pc = "queued"
  /\ IF runtime = NoRuntime
       THEN SaveIs(s, "writing") /\ queue' = queue
       ELSE SaveIs(s, "redirected") /\ queue' = Tail(queue)
  /\ UNCHANGED <<file, runtime, raw, auth, claiming, promoting, bound, cookies, claims, logins,
                 made, unread, restarts>>

\* The rename; `promote` joins a promotion there is.
WriteSave(s) ==
  /\ saves[s].pc = "writing"
  /\ file' = saves[s].text /\ raw' = saves[s].text
  /\ SaveIs(s, "promoting")
  /\ promoting' = IF promoting = "none" THEN "running" ELSE promoting
  /\ UNCHANGED <<runtime, auth, claiming, queue, bound, cookies, claims, logins, made, unread,
                 restarts>>

\* Fault: a promotion that failed stays latched.
UnlatchNever == promoting' = IF promoting = "running" THEN "failed" ELSE promoting

\* The promotion under way failed: a corrected save can try again.
Unlatch == promoting' = IF promoting = "running" THEN "none" ELSE promoting

\* Runtime.start of this file: the Sessions are bound to its password.
Start(text) == runtime' = text /\ bound' = text.password /\ unread' = FALSE

(* doPromote reads what is on the disk by then.  A save that finds a       *)
(* promotion latched is answered as that was.                              *)
Promote(s) ==
  /\ saves[s].pc = "promoting"
  /\ queue' = Tail(queue)
  /\ IF promoting = "running" /\ file.valid
       THEN Start(file) /\ promoting' = "done" /\ SaveIs(s, "started")
       ELSE /\ Unlatch
            /\ SaveIs(s, IF promoting = "done" THEN "started" ELSE "refused")
            /\ UNCHANGED <<runtime, bound, unread>>
  /\ UNCHANGED <<file, raw, auth, claiming, cookies, claims, logins, made, restarts>>

\* A Runtime that throws for another reason than the file may have bound the Sessions.
BoundBy(s) ==
  {bound} \cup (IF saves[s].pc = "promoting" /\ promoting = "running" /\ file.valid
                 THEN {file.password} ELSE {})

\* Fault: a save that throws leaves the queue rejected, and nobody catches it.
SaveFailsUncaught(s) ==
  /\ saves[s].pc \in {"writing", "promoting"}
  /\ SaveIs(s, "failed")
  /\ Unlatch
  /\ bound' \in BoundBy(s)
  /\ UNCHANGED <<file, runtime, raw, auth, claiming, queue, cookies, claims, logins, made,
                 unread, restarts>>

\* The file cannot be written, or the Runtime throws for another reason than the file.
SaveFails(s) ==
  /\ saves[s].pc \in {"writing", "promoting"}
  /\ SaveIs(s, "failed")
  /\ queue' = Tail(queue)
  /\ Unlatch
  /\ bound' \in BoundBy(s)
  /\ UNCHANGED <<file, runtime, raw, auth, claiming, cookies, claims, logins, made, unread,
                 restarts>>

-----------------------------------------------------------------------------
\* External: somebody edits config.yaml, for better or worse.
HandEdit(h) ==
  /\ h \notin made
  /\ made' = made \cup {h}
  /\ \E text \in [edits : {file.edits \cup {h}}, password : {file.password, h, NoPassword, Unusable},
                  parses : BOOLEAN, valid : BOOLEAN] :
       /\ text.valid => text.parses /\ text.password # Unusable
       /\ file' = text
  /\ unread' = TRUE
  /\ claims' = [c \in Claims |-> [claims[c] EXCEPT !.raced = @ \/ claims[c].pc = "writing"]]
  /\ UNCHANGED <<runtime, page, bound, cookies, saves, logins, restarts>>

(* The process ends and bootstrap runs again: it starts normally, or       *)
(* serves the page anew.  Requests are lost; sessions.json keeps the       *)
(* cookies.                                                                *)
Restart ==
  /\ restarts < MaxRestarts
  /\ restarts' = restarts + 1
  /\ runtime' = IF file.valid THEN file ELSE NoRuntime
  /\ raw' = file
  /\ auth' = IF file.parses THEN file.password ELSE Unusable
  /\ bound' = auth'
  /\ unread' = FALSE
  /\ claiming' = FALSE /\ queue' = <<>> /\ promoting' = "none"
  /\ claims' = [c \in Claims |->
       IF claims[c].pc = "idle" THEN claims[c] ELSE [claims[c] EXCEPT !.pc = "over"]]
  /\ saves' = [s \in Saves |->
       IF saves[s].pc \in {"open", "queued", "writing", "promoting"}
         THEN [saves[s] EXCEPT !.pc = "lost"] ELSE saves[s]]
  /\ logins' = {}
  /\ UNCHANGED <<file, cookies, made>>

Next ==
  \/ \E c \in Claims :
       \/ PostClaim(c) \/ Latch(c) \/ ReadForClaim(c) \/ WriteClaim(c) \/ ClaimFails(c)
  \/ \E l \in Logins : PostLogin(l) \/ Login(l)
  \/ \E s \in Saves :
       \/ OpenPage(s) \/ PostSave(s) \/ TakeTurn(s) \/ WriteSave(s)
       \/ Promote(s) \/ SaveFails(s)
  \/ \E h \in Hands : HandEdit(h)
  \/ Restart

Spec == Init /\ [][Next]_vars

\* A turn that has begun is carried to its end.
Fairness ==
  \A s \in Saves : WF_vars(TakeTurn(s) \/ WriteSave(s) \/ Promote(s) \/ SaveFails(s))

FairSpec == Spec /\ Fairness

-----------------------------------------------------------------------------
TypeOK ==
  /\ file \in Text /\ raw \in Text
  /\ runtime \in Text \cup {NoRuntime}
  /\ auth \in Passwords \cup {NoPassword, Unusable}
  /\ bound \in Passwords \cup {NoPassword, Unusable}
  /\ claiming \in BOOLEAN
  /\ queue \in Seq(Saves)
  /\ promoting \in {"none", "running", "done", "failed"}
  /\ cookies \subseteq Passwords
  /\ claims \in [Claims -> Claim]
  /\ saves \in [Saves -> Save]
  /\ logins \subseteq Logins
  /\ made \subseteq Hands
  /\ unread \in BOOLEAN
  /\ restarts \in 0..MaxRestarts

(* repair.ts on two concurrent posts and on the re-read: a claim replaces  *)
(* no password, be it that of another claim or one added by hand, and      *)
(* reverts no edit, short of a hand edit in the moment of its write.       *)
ClaimReplacesNothing ==
  [][\A c \in Claims :
       WriteClaim(c) /\ ~claims[c].raced => file.password = NoPassword /\ file.edits \subseteq file'.edits
    ]_vars

(* repair.ts: "the runtime and the file can never disagree about which     *)
(* save won", of however many that overlap.                                *)
RuntimeIsFile == runtime # NoRuntime /\ ~unread => runtime = file

(* bootstrap.ts: "a corrected save can try again".  A save is only told    *)
(* that the file does not load if the file it left on the disk does not,   *)
(* whatever an earlier save was told.                                      *)
RefusedForCause ==
  [][\A s \in Saves :
       saves[s].pc # "refused" /\ saves'[s].pc = "refused" => ~file.valid]_vars

\* Every save is answered, also behind one that threw.
EverySaveAnswered ==
  \A s \in Saves : saves[s].pc = "queued" ~> saves[s].pc \notin {"queued", "writing", "promoting"}

(* session.ts on bindCredentials: "a changed hash ends them all"; and      *)
(* repair.ts: a cookie survives the promotion "unless a save really did    *)
(* change the password".  In normal operation the sessions that count are  *)
(* those of the password in force.                                         *)
SessionsFollowConfig == runtime # NoRuntime => bound = runtime.password

(* They are, if no sign-in is being checked when the application takes     *)
(* over, or the page knew the password it starts with.                     *)
NoSignInStraddles ==
  [][runtime = NoRuntime /\ runtime' # NoRuntime => logins' = {} \/ runtime'.password = auth']_vars

(* A save that was posted is in the queue, and the head of the queue is    *)
(* somebody whose move it is, also behind a save that threw.               *)
NobodyWaitsInVain ==
  /\ \A s \in Saves :
       saves[s].pc \in {"queued", "writing", "promoting"} => \E i \in DOMAIN queue : queue[i] = s
  /\ \A i \in DOMAIN queue : saves[queue[i]].pc \in {"queued", "writing", "promoting"}
  /\ \A i, j \in DOMAIN queue : queue[i] = queue[j] => i = j

(* repair.ts at the claim: "editing config.yaml directly is the obvious    *)
(* answer to being told it is invalid. Writing the snapshot back would     *)
(* silently revert that edit."  So a save should not revert one either.    *)
SaveRevertsNothing ==
  [][\A s \in Saves : WriteSave(s) => file.edits \subseteq file'.edits]_vars

=============================================================================
