-------------------------- MODULE ConfigStore_proofs --------------------------
(***************************************************************************)
(* The safety properties of ConfigStore for any number of claims, saves,   *)
(* hand edits and crashes.                                                 *)
(*                                                                         *)
(* The inductive invariant IInv is a conjunction of parts with a section   *)
(* each.  All rest on QueuesInv, which says what the three queues of the   *)
(* code let happen: one save and the loader at most wait to replace the    *)
(* file, and a reload under way always has the save that asked for it at   *)
(* the head of its queue.  Records are taken apart by the lemmas of the    *)
(* first two sections, which say of each action what becomes of the save   *)
(* it is about; the parts are then proved from fields alone.               *)
(***************************************************************************)
EXTENDS ConfigStore, FiniteSetTheorems, SequenceTheorems, TLAPS

-----------------------------------------------------------------------------
(* The records, one operation on them at a time.                           *)

\* What a file may say, and where a save may be.
Texts == SUBSET Edits
Pcs == {"idle", "built", "queued", "replacing", "reloading", "drifted",
        "saved", "refused", "failed", "lost"}

LEMMA SeedTyped ==
  /\ Seed \in Content
  /\ Seed.edits = {} /\ Seed.valid
BY Zenon DEF Seed, Content, Texts

LEMMA Saved ==
  ASSUME NEW edits \in Texts
  PROVE  LET y == [Seed EXCEPT !.edits = edits]
         IN y \in Content /\ y.edits = edits /\ y.valid
BY Zenon DEF Seed, Content, Texts

LEMMA HashedTyped ==
  ASSUME NEW x \in Content
  PROVE  /\ Hashed(x) \in Content
         /\ Hashed(x).edits = x.edits /\ Hashed(x).valid = x.valid
BY Zenon DEF Hashed, Content, Texts

LEMMA Edited ==
  ASSUME NEW x \in Content, NEW edits \in Texts,
         NEW plain \in BOOLEAN, NEW auth \in BOOLEAN, NEW valid \in BOOLEAN
  PROVE  [x EXCEPT !.edits = edits, !.plain = plain, !.auth = auth, !.valid = valid] \in Content
BY Zenon DEF Content, Texts

LEMMA ContentFields ==
  ASSUME NEW x \in Content
  PROVE  x.edits \in Texts /\ x.plain \in BOOLEAN /\ x.auth \in BOOLEAN /\ x.valid \in BOOLEAN
BY Zenon DEF Content, Texts

LEMMA SaveFields ==
  ASSUME NEW x \in Save
  PROVE  x.pc \in Pcs /\ x.expected \in Texts
BY Zenon DEF Save, Pcs, Texts

LEMMA SaveMoves ==
  ASSUME NEW x \in Save, NEW pc \in Pcs
  PROVE  LET y == [x EXCEPT !.pc = pc]
         IN y \in Save /\ y.pc = pc /\ y.expected = x.expected
BY Zenon DEF Save, Pcs, Texts

LEMMA SaveBuilt ==
  ASSUME NEW x \in Save, NEW edits \in Texts
  PROVE  LET y == [x EXCEPT !.pc = "built", !.expected = edits]
         IN y \in Save /\ y.pc = "built" /\ y.expected = edits
BY Zenon DEF Save, Pcs, Texts

LEMMA SaveOver ==
  ASSUME NEW pc \in Pcs
  PROVE  Finished(pc) \in Save /\ Finished(pc).pc = pc
BY Zenon DEF Finished, Save, Pcs

-----------------------------------------------------------------------------
(* What becomes of the saves in a step.                                    *)

\* Only save r changes, and is at pc now.
Turns(r, pc) ==
  /\ saves' \in [Requests -> Save]
  /\ saves'[r].pc = pc
  /\ \A q \in Requests : q # r => saves'[q] = saves[q]

LEMMA OneSave ==
  ASSUME TypeOK, NEW r \in Requests, NEW y \in Save, saves' = [saves EXCEPT ![r] = y]
  PROVE  Turns(r, y.pc) /\ saves'[r] = y
BY Zenon DEF TypeOK, Turns

LEMMA GoesTurns ==
  ASSUME TypeOK, NEW r \in Requests, NEW pc \in Pcs, Goes(r, pc)
  PROVE  Turns(r, pc) /\ saves'[r].expected = saves[r].expected
<1>1. saves[r] \in Save
  BY Zenon DEF TypeOK
<1>2. PICK y : y = [saves[r] EXCEPT !.pc = pc]
  OBVIOUS
<1>3. y \in Save /\ y.pc = pc /\ y.expected = saves[r].expected
  BY <1>1, <1>2, SaveMoves, Zenon
<1>4. saves' = [saves EXCEPT ![r] = y]
  BY <1>2, Zenon DEF Goes
<1>5. QED
  BY <1>3, <1>4, OneSave, Zenon

LEMMA EndsTurns ==
  ASSUME TypeOK, NEW r \in Requests, NEW pc \in Pcs, Ends(r, pc)
  PROVE  Turns(r, pc)
<1>1. Finished(pc) \in Save /\ Finished(pc).pc = pc
  BY SaveOver, Zenon
<1>2. saves' = [saves EXCEPT ![r] = Finished(pc)]
  BY Zenon DEF Ends
<1>3. QED
  BY <1>1, <1>2, OneSave, Zenon

LEMMA AllPcs ==
  /\ "built" \in Pcs /\ "queued" \in Pcs /\ "replacing" \in Pcs /\ "reloading" \in Pcs
  /\ "drifted" \in Pcs /\ "saved" \in Pcs /\ "refused" \in Pcs /\ "failed" \in Pcs /\ "lost" \in Pcs
BY DEF Pcs

LEMMA Captured ==
  ASSUME TypeOK, NEW r \in Requests, Capture(r)
  PROVE  /\ Turns(r, "built") /\ saves'[r].expected = running
         /\ running \in Texts
<1> DEFINE y == [saves[r] EXCEPT !.pc = "built", !.expected = running]
<1>1. saves[r] \in Save /\ running \in Texts
  BY Zenon DEF TypeOK, Capture, Texts
<1>2. y \in Save /\ y.pc = "built" /\ y.expected = running
  BY <1>1, SaveBuilt, Zenon
<1>3. saves' = [saves EXCEPT ![r] = y]
  BY Zenon DEF Capture
<1> HIDE DEF y
<1>4. QED
  BY <1>1, <1>2, <1>3, OneSave, Zenon

LEMMA Submitted ==
  ASSUME TypeOK, NEW r \in Requests, Submit(r)
  PROVE  Turns(r, "queued") /\ saves'[r].expected = saves[r].expected
BY GoesTurns, AllPcs, Zenon DEF Submit

LEMMA Rejected ==
  ASSUME TypeOK, NEW r \in Requests, SaveRejected(r)
  PROVE  Turns(r, "failed")
BY EndsTurns, AllPcs, Zenon DEF SaveRejected

\* Of the three ends of a reading of the file.
LEMMA Read ==
  ASSUME TypeOK, NEW r \in Requests, SaveReads(r)
  PROVE  \/ /\ Turns(r, "replacing") /\ saves'[r].expected = saves[r].expected
            /\ file.edits = saves[r].expected
            /\ replaceQueue' = Append(replaceQueue, r)
            /\ UNCHANGED <<saveQueue, reloadQueue>>
         \/ /\ Turns(r, "refused")
            /\ saveQueue' = Tail(saveQueue)
            /\ UNCHANGED <<replaceQueue, reloadQueue>>
         \/ /\ Turns(r, "drifted")
            /\ saveQueue' = Tail(saveQueue)
            /\ reloadQueue' = Append(reloadQueue, r)
            /\ UNCHANGED replaceQueue
<1>1. CASE ~driftedFrom(file, saves[r].expected)
  BY <1>1, AllPcs, GoesTurns, Zenon DEF SaveReads, driftedFrom
<1>2. CASE driftedFrom(file, saves[r].expected) /\ r \in Setups
  BY <1>2, AllPcs, EndsTurns, Zenon DEF SaveReads
<1>3. CASE driftedFrom(file, saves[r].expected) /\ r \notin Setups
  BY <1>3, AllPcs, GoesTurns, Zenon DEF SaveReads
<1>4. QED
  BY <1>1, <1>2, <1>3, Zenon

LEMMA Replaced ==
  ASSUME TypeOK, NEW r \in Requests, Replace(r)
  PROVE  /\ Turns(r, "reloading")
         /\ reloadQueue' = Append(reloadQueue, r)
         /\ file' \in Content
         /\ file'.edits = saves[r].expected \cup {r}
         /\ file'.valid
<1>1. saves[r].expected \cup {r} \in Texts
  BY SaveFields, Zenon DEF TypeOK, Edits, Texts
<1>2. file' = [Seed EXCEPT !.edits = saves[r].expected \cup {r}]
  BY Zenon DEF Replace
<1>3. file' \in Content /\ file'.edits = saves[r].expected \cup {r} /\ file'.valid
  BY <1>1, <1>2, Saved, Zenon
<1>4. Turns(r, "reloading") /\ reloadQueue' = Append(reloadQueue, r)
  BY AllPcs, GoesTurns, Zenon DEF Replace, AsksToReload
<1>5. QED
  BY <1>3, <1>4, Zenon

LEMMA NotReplaced ==
  ASSUME TypeOK, NEW r \in Requests, ReplaceFails(r)
  PROVE  Turns(r, "failed")
BY AllPcs, EndsTurns, Zenon DEF ReplaceFails

LEMMA NotReloaded ==
  ASSUME TypeOK, NEW r \in Requests, ReloadFails(r)
  PROVE  Turns(r, "failed")
BY AllPcs, EndsTurns, Zenon DEF ReloadFails

LEMMA Applied ==
  ASSUME TypeOK, NEW r \in Requests, ReloadApplies(r)
  PROVE  Turns(r, "refused") \/ Turns(r, "saved")
BY AllPcs, EndsTurns, Zenon DEF ReloadApplies

LEMMA Crashed ==
  ASSUME TypeOK, Crash
  PROVE  /\ saves' \in [Requests -> Save]
         /\ \A r \in Requests : saves'[r].pc \notin InProgress
<1> DEFINE y(r) == IF saves[r].pc \in InProgress THEN [saves[r] EXCEPT !.pc = "lost"] ELSE saves[r]
<1>1. saves' = [r \in Requests |-> y(r)]
  BY Zenon DEF Crash
<1>2. ASSUME NEW r \in Requests
      PROVE  y(r) \in Save /\ y(r).pc \notin InProgress
  <2>1. saves[r] \in Save
    BY Zenon DEF TypeOK
  <2>2. "lost" \notin InProgress
    BY DEF InProgress
  <2>3. PICK z : z = [saves[r] EXCEPT !.pc = "lost"]
    OBVIOUS
  <2>4. z \in Save /\ z.pc = "lost"
    BY <2>1, <2>3, AllPcs, SaveMoves, Zenon
  <2>5. y(r) = IF saves[r].pc \in InProgress THEN z ELSE saves[r]
    BY <2>3
  <2> HIDE DEF y
  <2>6. QED
    BY <2>1, <2>2, <2>4, <2>5, Zenon
<1> HIDE DEF y
<1>3. QED
  BY <1>1, <1>2, Zenon

\* Hand edits and the start of the process.
LEMMA HandEdited ==
  ASSUME TypeOK, NEW h \in Hands, HandEdit(h)
  PROVE  file \in Content /\ file' \in Content /\ file'.edits = file.edits \cup {h}
<1>1. file \in Content
  BY Zenon DEF TypeOK, HandEdit
<1>2. PICK plain, valid \in BOOLEAN :
        file' = [file EXCEPT !.edits = file.edits \cup {h}, !.plain = file.plain \/ plain,
                             !.auth = file.auth \/ plain, !.valid = valid]
  BY Zenon DEF HandEdit
<1>3. file.edits \cup {h} \in Texts
  BY <1>1, ContentFields, Zenon DEF Edits, Texts
<1>4. PICK e \in Texts, p, a \in BOOLEAN :
        e = file.edits \cup {h} /\ p = (file.plain \/ plain) /\ a = (file.auth \/ plain)
  BY <1>3, Zenon
<1> DEFINE y == [file EXCEPT !.edits = e, !.plain = p, !.auth = a, !.valid = valid]
<1>5. file' = y
  BY <1>2, <1>4, Zenon
<1>6. y \in Content
  BY <1>1, Edited, Zenon
<1>7. y.edits = e
  BY <1>1, Zenon DEF Content
<1> HIDE DEF y
<1>8. QED
  BY <1>1, <1>4, <1>5, <1>6, <1>7, Zenon

LEMMA StartedFrom ==
  ASSUME TypeOK, Start
  PROVE  /\ file' \in Content /\ file'.valid
         /\ running' = file'.edits
         /\ \/ file = Missing /\ file'.edits = {}
            \/ file \in Content /\ file'.edits = file.edits
<1>1. CASE file = Missing
  BY <1>1, SeedTyped, Zenon DEF Start
<1>2. CASE file # Missing
  BY <1>2, HashedTyped, Zenon DEF Start, Loads, TypeOK
<1>3. QED
  BY <1>1, <1>2, Zenon

-----------------------------------------------------------------------------
(* The queues.                                                             *)

NoneReplacing == \A r \in Requests : saves[r].pc # "replacing"

OnlyReplacing(r) ==
  saves[r].pc = "replacing" /\ \A q \in Requests : q # r => saves[q].pc # "replacing"

\* One save at most waits to replace the file, and one rewrite of the loader.
ReplaceInv ==
  \/ replaceQueue = <<>> /\ NoneReplacing /\ loader.pc # "rewriting"
  \/ replaceQueue = <<Loader>> /\ NoneReplacing /\ loader.pc = "rewriting"
  \/ \E r \in Requests : replaceQueue = <<r>> /\ OnlyReplacing(r) /\ loader.pc # "rewriting"
  \/ \E r \in Requests : /\ replaceQueue = <<r, Loader>> \/ replaceQueue = <<Loader, r>>
                         /\ OnlyReplacing(r) /\ loader.pc = "rewriting"

\* It is the save whose turn it is.
HeadInv == \A r \in Requests : saves[r].pc = "replacing" => FirstOf(saveQueue, r)

\* What waits for a reload is in the queue for it, once.
Waiting(r) == saves[r].pc \in {"reloading", "drifted"}

ReloadInv ==
  /\ \A i \in 1 .. Len(reloadQueue) : Waiting(reloadQueue[i])
  /\ \A i, j \in 1 .. Len(reloadQueue) : i # j => reloadQueue[i] # reloadQueue[j]
  /\ loader.pc # "idle" => reloadQueue # <<>>

\* Without a process nothing is under way.
DownInv == running = Down => loader.pc = "idle" /\ \A r \in Requests : saves[r].pc \notin InProgress

QueuesInv == ReplaceInv /\ HeadInv /\ ReloadInv /\ DownInv

LEMMA Pairs ==
  ASSUME NEW x, NEW y
  PROVE  /\ <<x>> # <<>> /\ <<x, y>> # <<>> /\ <<x, y>> # <<x>>
         /\ Head(<<x>>) = x /\ Tail(<<x>>) = <<>>
         /\ Head(<<x, y>>) = x /\ Tail(<<x, y>>) = <<y>>
         /\ Append(<<>>, x) = <<x>> /\ Append(<<x>>, y) = <<x, y>>
<1>1. <<x>> \in Seq({x, y}) /\ <<x, y>> \in Seq({x, y}) /\ Append(<<x>>, y) \in Seq({x, y})
  OBVIOUS
<1>2. Len(Append(<<x>>, y)) = 2 /\ Append(<<x>>, y)[1] = x /\ Append(<<x>>, y)[2] = y
  BY <1>1
<1>3. Len(<<x, y>>) = 2 /\ <<x, y>>[1] = x /\ <<x, y>>[2] = y
  OBVIOUS
<1>4. \A i \in 1 .. 2 : Append(<<x>>, y)[i] = <<x, y>>[i]
  BY <1>2, <1>3
<1>5. Append(<<x>>, y) = <<x, y>>
  BY <1>1, <1>2, <1>3, <1>4, SeqEqual
<1>6. <<x>> # <<>> /\ <<x, y>> # <<>> /\ <<x, y>> # <<x>>
  OBVIOUS
<1>7. Head(<<x>>) = x /\ Tail(<<x>>) = <<>>
  OBVIOUS
<1>8. Head(<<x, y>>) = x /\ Tail(<<x, y>>) = <<y>>
  OBVIOUS
<1>9. Append(<<>>, x) = <<x>>
  OBVIOUS
<1>10. QED
  BY <1>5, <1>6, <1>7, <1>8, <1>9

\* A step that leaves the queue of replacements alone.
LEMMA ReplaceSteady ==
  ASSUME ReplaceInv, UNCHANGED replaceQueue,
         loader.pc = "rewriting" <=> loader'.pc = "rewriting",
         \A r \in Requests : saves[r].pc = "replacing" <=> saves'[r].pc = "replacing"
  PROVE  ReplaceInv'
BY Zenon DEF ReplaceInv, NoneReplacing, OnlyReplacing

LEMMA ReplaceTurn ==
  ASSUME ReplaceInv, UNCHANGED replaceQueue,
         loader.pc = "rewriting" <=> loader'.pc = "rewriting",
         NEW r \in Requests, NEW pc, Turns(r, pc), pc # "replacing", saves[r].pc # "replacing"
  PROVE  ReplaceInv'
BY ReplaceSteady, Zenon DEF Turns

\* Which save replaces the file.
LEMMA ReplacingAlone ==
  ASSUME ReplaceInv, NEW r \in Requests, FirstOf(replaceQueue, r)
  PROVE  /\ OnlyReplacing(r)
         /\ \/ Tail(replaceQueue) = <<>> /\ loader.pc # "rewriting"
            \/ Tail(replaceQueue) = <<Loader>> /\ loader.pc = "rewriting"
<1>1. r # Loader
  BY EditsAssumption
<1>2. Head(replaceQueue) = r /\ replaceQueue # <<>>
  BY Zenon DEF FirstOf
<1>3. CASE replaceQueue = <<Loader>>
  BY <1>1, <1>2, <1>3, Pairs, Zenon
<1>4. ASSUME NEW q \in Requests, replaceQueue = <<q>>
      PROVE  q = r /\ Tail(replaceQueue) = <<>>
  BY <1>2, <1>4
<1>5. ASSUME NEW q \in Requests, replaceQueue = <<q, Loader>>
      PROVE  q = r /\ Tail(replaceQueue) = <<Loader>>
  BY <1>2, <1>5
<1>6. ASSUME NEW q \in Requests
      PROVE  replaceQueue # <<Loader, q>>
  BY <1>1, <1>2, <1>6, Pairs, Zenon
<1>7. QED
  BY <1>2, <1>3, <1>4, <1>5, <1>6, Zenon DEF ReplaceInv

LEMMA LoaderAlone ==
  ASSUME ReplaceInv, FirstOf(replaceQueue, Loader)
  PROVE  /\ loader.pc = "rewriting"
         /\ \/ Tail(replaceQueue) = <<>> /\ NoneReplacing
            \/ \E r \in Requests : Tail(replaceQueue) = <<r>> /\ OnlyReplacing(r)
<1>1. Loader \notin Requests
  BY EditsAssumption
<1>2. Head(replaceQueue) = Loader /\ replaceQueue # <<>>
  BY Zenon DEF FirstOf
<1>3. ASSUME replaceQueue = <<Loader>>
      PROVE  Tail(replaceQueue) = <<>>
  BY <1>3, Pairs, Zenon
<1>4. ASSUME NEW q \in Requests
      PROVE  replaceQueue # <<q>> /\ replaceQueue # <<q, Loader>>
  <2>1. Head(<<q>>) = q /\ Head(<<q, Loader>>) = q
    BY Pairs
  <2>2. q # Loader
    BY <1>1
  <2>3. QED
    BY <1>2, <2>1, <2>2, Zenon
<1>5. ASSUME NEW q \in Requests, replaceQueue = <<Loader, q>>
      PROVE  Tail(replaceQueue) = <<q>>
  BY <1>5
<1>6. QED
  BY <1>2, <1>3, <1>4, <1>5, Zenon DEF ReplaceInv

\* While a save reads the file none replaces it.
LEMMA NoneBefore ==
  ASSUME HeadInv, NEW r \in Requests, FirstOf(saveQueue, r), saves[r].pc # "replacing"
  PROVE  NoneReplacing
BY Zenon DEF HeadInv, NoneReplacing, FirstOf

LEMMA WaitingFirst ==
  ASSUME TypeOK, ReloadInv, NEW r \in Requests, FirstOf(reloadQueue, r)
  PROVE  Waiting(r) /\ saves[r].pc # "replacing"
<1>1. reloadQueue \in Seq(Requests) /\ reloadQueue # <<>> /\ Head(reloadQueue) = r
  BY Zenon DEF TypeOK, FirstOf
<1>2. 1 \in 1 .. Len(reloadQueue) /\ reloadQueue[1] = r
  BY <1>1
<1>3. Waiting(r)
  BY <1>2, Zenon DEF ReloadInv
<1>4. "replacing" \notin {"reloading", "drifted"}
  OBVIOUS
<1>5. QED
  BY <1>3, <1>4, Zenon DEF Waiting

LEMMA PcsDiffer ==
  /\ "built" # "replacing" /\ "queued" # "replacing" /\ "reloading" # "replacing"
  /\ "drifted" # "replacing" /\ "failed" # "replacing" /\ "refused" # "replacing"
  /\ "saved" # "replacing" /\ "idle" # "replacing"
OBVIOUS

LEMMA ReplaceStep == TypeOK /\ QueuesInv /\ [Next]_vars => ReplaceInv'
<1> SUFFICES ASSUME TypeOK, QueuesInv, [Next]_vars PROVE ReplaceInv'
  OBVIOUS
<1> USE DEF QueuesInv
<1>1. ASSUME NEW r \in Requests, Capture(r)
      PROVE  ReplaceInv'
  BY <1>1, Captured, ReplaceTurn, PcsDiffer, Zenon DEF Capture, queues
<1>2. ASSUME NEW r \in Requests, Submit(r)
      PROVE  ReplaceInv'
  BY <1>2, Submitted, ReplaceTurn, PcsDiffer, Zenon DEF Submit
<1>3. ASSUME NEW r \in Requests, SaveRejected(r)
      PROVE  ReplaceInv'
  BY <1>3, Rejected, ReplaceTurn, PcsDiffer, Zenon DEF SaveRejected
<1>4. ASSUME NEW r \in Requests, SaveReads(r)
      PROVE  ReplaceInv'
  <2>1. saves[r].pc = "queued" /\ FirstOf(saveQueue, r) /\ loader' = loader
    BY <1>4, Zenon DEF SaveReads
  <2>2. NoneReplacing
    BY <2>1, NoneBefore, PcsDiffer, Zenon
  <2>3. ASSUME Turns(r, "replacing"), replaceQueue' = Append(replaceQueue, r)
        PROVE  ReplaceInv'
    <3>1. OnlyReplacing(r)'
      BY <2>2, <2>3, Zenon DEF NoneReplacing, OnlyReplacing, Turns
    <3>2. \/ replaceQueue = <<>> /\ loader.pc # "rewriting"
          \/ replaceQueue = <<Loader>> /\ loader.pc = "rewriting"
      BY <2>2, Zenon DEF ReplaceInv, NoneReplacing, OnlyReplacing
    <3>3. \/ replaceQueue' = <<r>> /\ loader'.pc # "rewriting"
          \/ replaceQueue' = <<Loader, r>> /\ loader'.pc = "rewriting"
      BY <2>1, <2>3, <3>2, Pairs, Zenon
    <3>4. QED
      BY <3>1, <3>3, Zenon DEF ReplaceInv
  <2>4. ASSUME NEW pc \in {"refused", "drifted"}, Turns(r, pc), UNCHANGED replaceQueue
        PROVE  ReplaceInv'
    BY <2>1, <2>4, ReplaceTurn, PcsDiffer, Zenon
  <2>5. QED
    BY <1>4, <2>3, <2>4, Read, Zenon
<1>5. ASSUME NEW r \in Requests, NEW pc \in {"reloading", "failed"}, Turns(r, pc),
             FirstOf(replaceQueue, r), replaceQueue' = Tail(replaceQueue), UNCHANGED loader
      PROVE  ReplaceInv'
  <2>1. NoneReplacing'
    BY <1>5, ReplacingAlone, PcsDiffer, Zenon DEF NoneReplacing, OnlyReplacing, Turns
  <2>2. QED
    BY <1>5, <2>1, ReplacingAlone, Zenon DEF ReplaceInv
<1>6. ASSUME NEW r \in Requests, Replace(r)
      PROVE  ReplaceInv'
  BY <1>5, <1>6, Replaced, Zenon DEF Replace
<1>7. ASSUME NEW r \in Requests, ReplaceFails(r)
      PROVE  ReplaceInv'
  BY <1>5, <1>7, NotReplaced, Zenon DEF ReplaceFails
<1>8. ASSUME NEW r \in Requests, ReloadReads(r)
      PROVE  ReplaceInv'
  <2>1. loader.pc # "rewriting" /\ saves' = saves
    BY <1>8, Zenon DEF ReloadReads
  <2>2. \/ replaceQueue = <<>> /\ NoneReplacing
        \/ \E q \in Requests : replaceQueue = <<q>> /\ OnlyReplacing(q)
    BY <2>1, Zenon DEF ReplaceInv
  <2>3. \/ loader'.pc = "rewriting" /\ replaceQueue' = Append(replaceQueue, Loader)
        \/ loader'.pc = "read" /\ replaceQueue' = replaceQueue
    BY <1>8, Zenon DEF ReloadReads
  <2>4. CASE replaceQueue = <<>> /\ NoneReplacing
    <3>1. NoneReplacing'
      BY <2>1, <2>4, Zenon DEF NoneReplacing
    <3>2. \/ loader'.pc = "rewriting" /\ replaceQueue' = <<Loader>>
          \/ loader'.pc = "read" /\ replaceQueue' = <<>>
      BY <2>3, <2>4, Pairs, Zenon
    <3>3. QED
      BY <3>1, <3>2, Zenon DEF ReplaceInv
  <2>5. ASSUME NEW q \in Requests, replaceQueue = <<q>>, OnlyReplacing(q)
        PROVE  ReplaceInv'
    <3>1. OnlyReplacing(q)'
      BY <2>1, <2>5, Zenon DEF OnlyReplacing
    <3>2. \/ loader'.pc = "rewriting" /\ replaceQueue' = <<q, Loader>>
          \/ loader'.pc = "read" /\ replaceQueue' = <<q>>
      BY <2>3, <2>5, Pairs, Zenon
    <3>3. QED
      BY <3>1, <3>2, Zenon DEF ReplaceInv
  <2>6. QED
    BY <2>2, <2>4, <2>5, Zenon
<1>9. ASSUME NEW r \in Requests, ReloadFails(r)
      PROVE  ReplaceInv'
  BY <1>9, NotReloaded, WaitingFirst, ReplaceTurn, PcsDiffer, Zenon DEF ReloadFails
<1>10. ASSUME NEW r \in Requests, ReloadApplies(r)
       PROVE  ReplaceInv'
  <2>1. /\ loader.pc # "rewriting" /\ loader'.pc # "rewriting" /\ UNCHANGED replaceQueue
        /\ saves[r].pc # "replacing"
    BY <1>10, WaitingFirst, Zenon DEF ReloadApplies
  <2>2. QED
    BY <1>10, <2>1, Applied, ReplaceTurn, PcsDiffer, Zenon
<1>11. CASE Rewrite
  <2>1. replaceQueue' = Tail(replaceQueue) /\ saves' = saves
    BY <1>11, Zenon DEF Rewrite
  <2>2. loader'.pc # "rewriting"
    <3>1. loader' = [loader EXCEPT !.pc = "read"] /\ loader \in Reload
      BY <1>11, Zenon DEF Rewrite, TypeOK
    <3>2. QED
      BY <3>1 DEF Reload
  <2>3. \/ Tail(replaceQueue) = <<>> /\ NoneReplacing
        \/ \E r \in Requests : Tail(replaceQueue) = <<r>> /\ OnlyReplacing(r)
    BY <1>11, LoaderAlone, Zenon DEF Rewrite
  <2>4. QED
    BY <2>1, <2>2, <2>3, Zenon DEF ReplaceInv, NoneReplacing, OnlyReplacing
<1>12. ASSUME NEW h \in Hands, HandEdit(h) \/ HandDelete(h)
       PROVE  ReplaceInv'
  BY <1>12, ReplaceSteady, Zenon DEF HandEdit, HandDelete, queues
<1>13. CASE Crash
  <2>1. replaceQueue' = <<>> /\ loader'.pc # "rewriting"
    BY <1>13, Zenon DEF Crash
  <2>2. "replacing" \in InProgress
    BY DEF InProgress
  <2>3. QED
    BY <1>13, <2>1, <2>2, Crashed, Zenon DEF ReplaceInv, NoneReplacing
<1>14. CASE Start
  BY <1>14, ReplaceSteady, Zenon DEF Start, queues
<1>15. CASE UNCHANGED vars
  BY <1>15, ReplaceSteady, Zenon DEF vars, queues
<1>16. QED
  BY <1>1, <1>2, <1>3, <1>4, <1>6, <1>7, <1>8, <1>9, <1>10, <1>11, <1>12, <1>13, <1>14, <1>15, Zenon
     DEF Next

\* No step but that of its own save changes who replaces the file.
LEMMA HeadKept ==
  ASSUME HeadInv, UNCHANGED saveQueue,
         \A r \in Requests : saves'[r].pc = "replacing" => saves[r].pc = "replacing"
  PROVE  HeadInv'
BY Zenon DEF HeadInv, FirstOf

LEMMA HeadNone ==
  ASSUME NoneReplacing, NEW r \in Requests, NEW pc, Turns(r, pc), pc # "replacing"
  PROVE  HeadInv'
BY Zenon DEF NoneReplacing, HeadInv, Turns

LEMMA HeadStep == TypeOK /\ QueuesInv /\ [Next]_vars => HeadInv'
<1> SUFFICES ASSUME TypeOK, QueuesInv, [Next]_vars PROVE HeadInv'
  OBVIOUS
<1> USE DEF QueuesInv
<1>1. ASSUME NEW r \in Requests, NEW pc, Turns(r, pc), pc # "replacing", UNCHANGED saveQueue
      PROVE  HeadInv'
  BY <1>1, HeadKept, Zenon DEF Turns
<1>2. ASSUME NEW r \in Requests, Capture(r)
      PROVE  HeadInv'
  BY <1>1, <1>2, Captured, PcsDiffer, Zenon DEF Capture, queues
<1>3. ASSUME NEW r \in Requests, Submit(r)
      PROVE  HeadInv'
  <2>1. Turns(r, "queued") /\ saveQueue' = Append(saveQueue, r) /\ saveQueue \in Seq(Requests)
    BY <1>3, Submitted, Zenon DEF Submit, TypeOK
  <2>2. ASSUME NEW q \in Requests, FirstOf(saveQueue, q)
        PROVE  FirstOf(saveQueue', q)
    BY <2>1, <2>2 DEF FirstOf
  <2>3. ASSUME NEW q \in Requests, saves'[q].pc = "replacing"
        PROVE  saves[q].pc = "replacing"
    BY <2>1, <2>3, PcsDiffer, Zenon DEF Turns
  <2>4. QED
    BY <2>2, <2>3, Zenon DEF HeadInv
<1>4. ASSUME NEW r \in Requests, SaveRejected(r)
      PROVE  HeadInv'
  BY <1>4, Rejected, NoneBefore, HeadNone, PcsDiffer, Zenon DEF SaveRejected
<1>5. ASSUME NEW r \in Requests, SaveReads(r)
      PROVE  HeadInv'
  <2>1. saves[r].pc = "queued" /\ FirstOf(saveQueue, r)
    BY <1>5, Zenon DEF SaveReads
  <2>2. NoneReplacing
    BY <2>1, NoneBefore, PcsDiffer, Zenon
  <2>3. ASSUME Turns(r, "replacing"), UNCHANGED saveQueue
        PROVE  HeadInv'
    BY <2>1, <2>2, <2>3, Zenon DEF HeadInv, NoneReplacing, Turns
  <2>4. QED
    BY <1>5, <2>2, <2>3, Read, HeadNone, PcsDiffer, Zenon
<1>6. ASSUME NEW r \in Requests, FirstOf(replaceQueue, r),
             Turns(r, "reloading") \/ Turns(r, "failed")
      PROVE  HeadInv'
  BY <1>6, ReplacingAlone, PcsDiffer, Zenon DEF OnlyReplacing, HeadInv, Turns
<1>7. ASSUME NEW r \in Requests, Replace(r) \/ ReplaceFails(r)
      PROVE  HeadInv'
  BY <1>6, <1>7, Replaced, NotReplaced, Zenon DEF Replace, ReplaceFails
<1>8. ASSUME NEW r \in Requests, ReloadFails(r)
      PROVE  HeadInv'
  BY <1>1, <1>8, NotReloaded, PcsDiffer, Zenon DEF ReloadFails
<1>9. ASSUME NEW r \in Requests, ReloadApplies(r)
      PROVE  HeadInv'
  BY <1>1, <1>9, Applied, PcsDiffer, Zenon DEF ReloadApplies
<1>10. CASE Crash
  <2>1. "replacing" \in InProgress
    BY DEF InProgress
  <2>2. QED
    BY <1>10, <2>1, Crashed, Zenon DEF HeadInv
<1>11. ASSUME UNCHANGED <<saves, saveQueue>>
       PROVE  HeadInv'
  BY <1>11, HeadKept, Zenon
<1>12. ASSUME NEW r \in Requests, ReloadReads(r)
       PROVE  HeadInv'
  BY <1>11, <1>12, Zenon DEF ReloadReads
<1>13. CASE Rewrite
  BY <1>11, <1>13, Zenon DEF Rewrite
<1>14. ASSUME NEW h \in Hands, HandEdit(h) \/ HandDelete(h)
       PROVE  HeadInv'
  BY <1>11, <1>14, Zenon DEF HandEdit, HandDelete, queues
<1>15. CASE Start
  BY <1>11, <1>15, Zenon DEF Start, queues
<1>16. CASE UNCHANGED vars
  BY <1>11, <1>16, Zenon DEF vars, queues
<1>17. QED
  BY <1>2, <1>3, <1>4, <1>5, <1>7, <1>8, <1>9, <1>10, <1>12, <1>13, <1>14, <1>15, <1>16, Zenon
     DEF Next

-----------------------------------------------------------------------------
(* The queue for the reloads.                                              *)

LEMMA ReloadSteady ==
  ASSUME TypeOK, ReloadInv, UNCHANGED reloadQueue, loader'.pc # "idle" => loader.pc # "idle",
         \A r \in Requests : Waiting(r) => Waiting(r)'
  PROVE  ReloadInv'
<1>1. reloadQueue \in Seq(Requests)
  BY Zenon DEF TypeOK
<1>2. \A i \in 1 .. Len(reloadQueue) : reloadQueue[i] \in Requests
  BY <1>1
<1>3. QED
  BY <1>2, Zenon DEF ReloadInv

LEMMA ReloadTurn ==
  ASSUME TypeOK, ReloadInv, UNCHANGED reloadQueue, UNCHANGED loader,
         NEW r \in Requests, NEW pc, Turns(r, pc), ~Waiting(r)
  PROVE  ReloadInv'
BY ReloadSteady, Zenon DEF Turns, Waiting

LEMMA ReloadAsked ==
  ASSUME TypeOK, ReloadInv, UNCHANGED loader,
         NEW r \in Requests, reloadQueue' = Append(reloadQueue, r),
         Turns(r, "reloading") \/ Turns(r, "drifted"), ~Waiting(r)
  PROVE  ReloadInv'
<1>1. reloadQueue \in Seq(Requests)
  BY Zenon DEF TypeOK
<1>2. Waiting(r)'
  BY Zenon DEF Turns, Waiting
<1>3. ASSUME NEW q \in Requests, Waiting(q)
      PROVE  Waiting(q)' /\ q # r
  BY <1>3, Zenon DEF Turns, Waiting
<1>4. /\ Len(reloadQueue') = Len(reloadQueue) + 1
      /\ Len(reloadQueue) \in Nat
      /\ reloadQueue' # <<>>
      /\ \A i \in 1 .. Len(reloadQueue) : reloadQueue'[i] = reloadQueue[i] /\ reloadQueue[i] \in Requests
      /\ reloadQueue'[Len(reloadQueue) + 1] = r
  BY <1>1
<1>5. ASSUME NEW i \in 1 .. Len(reloadQueue')
      PROVE  \/ i \in 1 .. Len(reloadQueue) /\ reloadQueue'[i] = reloadQueue[i]
             \/ i \notin 1 .. Len(reloadQueue) /\ i = Len(reloadQueue) + 1 /\ reloadQueue'[i] = r
  BY <1>4, <1>5
<1>6. ASSUME NEW i \in 1 .. Len(reloadQueue')
      PROVE  Waiting(reloadQueue[i])'
  BY <1>2, <1>3, <1>4, <1>5, Zenon DEF ReloadInv
<1>7. ASSUME NEW i \in 1 .. Len(reloadQueue'), NEW j \in 1 .. Len(reloadQueue'), i # j
      PROVE  reloadQueue'[i] # reloadQueue'[j]
  <2>1. \A k \in 1 .. Len(reloadQueue) : reloadQueue[k] # r
    BY <1>3, <1>4, Zenon DEF ReloadInv
  <2>2. QED
    BY <1>4, <1>5, <1>7, <2>1, Zenon DEF ReloadInv
<1>8. QED
  BY <1>4, <1>6, <1>7, Zenon DEF ReloadInv

LEMMA ReloadDone ==
  ASSUME TypeOK, ReloadInv, NEW r \in Requests, FirstOf(reloadQueue, r),
         reloadQueue' = Tail(reloadQueue), loader'.pc = "idle", NEW pc, Turns(r, pc)
  PROVE  ReloadInv'
<1>1. reloadQueue \in Seq(Requests) /\ reloadQueue # <<>> /\ Head(reloadQueue) = r
  BY Zenon DEF TypeOK, FirstOf
<1>2. /\ reloadQueue[1] = r /\ 1 \in 1 .. Len(reloadQueue)
      /\ \A i \in 1 .. Len(reloadQueue') :
           i + 1 \in 1 .. Len(reloadQueue) /\ i + 1 # 1 /\ reloadQueue'[i] = reloadQueue[i + 1]
      /\ \A i \in 1 .. Len(reloadQueue) : reloadQueue[i] \in Requests
  BY <1>1
<1>3. \A i, j \in 1 .. Len(reloadQueue') : i # j => i + 1 # j + 1
  OBVIOUS
<1>4. ASSUME NEW i \in 1 .. Len(reloadQueue')
      PROVE  reloadQueue'[i] # r /\ Waiting(reloadQueue'[i])
  <2>1. PICK j \in 1 .. Len(reloadQueue) : j # 1 /\ reloadQueue'[i] = reloadQueue[j]
    BY <1>2, <1>4, Zenon
  <2>2. QED
    BY <1>2, <2>1, Zenon DEF ReloadInv
<1>5. \A i \in 1 .. Len(reloadQueue') : Waiting(reloadQueue[i])'
  BY <1>2, <1>4, Zenon DEF Waiting, Turns
<1>6. ASSUME NEW i \in 1 .. Len(reloadQueue'), NEW j \in 1 .. Len(reloadQueue'), i # j
      PROVE  reloadQueue'[i] # reloadQueue'[j]
  <2>1. PICK k, l \in 1 .. Len(reloadQueue) :
          k = i + 1 /\ l = j + 1 /\ reloadQueue'[i] = reloadQueue[k] /\ reloadQueue'[j] = reloadQueue[l]
    BY <1>2, <1>6, Zenon
  <2>2. k # l
    BY <1>3, <1>6, <2>1, Zenon
  <2>3. QED
    BY <2>1, <2>2, Zenon DEF ReloadInv
<1>7. QED
  BY <1>5, <1>6, Zenon DEF ReloadInv

LEMMA NotWaiting ==
  /\ "idle" \notin {"reloading", "drifted"} /\ "built" \notin {"reloading", "drifted"}
  /\ "queued" \notin {"reloading", "drifted"} /\ "replacing" \notin {"reloading", "drifted"}
  /\ "rewriting" # "idle"
OBVIOUS

LEMMA ReloadStep == TypeOK /\ QueuesInv /\ [Next]_vars => ReloadInv'
<1> SUFFICES ASSUME TypeOK, QueuesInv, [Next]_vars PROVE ReloadInv'
  OBVIOUS
<1> USE DEF QueuesInv
<1>1. ASSUME NEW r \in Requests, Capture(r)
      PROVE  ReloadInv'
  BY <1>1, Captured, ReloadTurn, NotWaiting, Zenon DEF Capture, queues, Waiting
<1>2. ASSUME NEW r \in Requests, Submit(r)
      PROVE  ReloadInv'
  BY <1>2, Submitted, ReloadTurn, NotWaiting, Zenon DEF Submit, Waiting
<1>3. ASSUME NEW r \in Requests, SaveRejected(r)
      PROVE  ReloadInv'
  BY <1>3, Rejected, ReloadTurn, NotWaiting, Zenon DEF SaveRejected, Waiting
<1>4. ASSUME NEW r \in Requests, SaveReads(r)
      PROVE  ReloadInv'
  <2>1. ~Waiting(r) /\ loader' = loader
    BY <1>4, NotWaiting, Zenon DEF SaveReads, Waiting
  <2>2. QED
    BY <1>4, <2>1, Read, ReloadTurn, ReloadAsked, Zenon
<1>5. ASSUME NEW r \in Requests, Replace(r)
      PROVE  ReloadInv'
  <2>1. ~Waiting(r) /\ loader' = loader
    BY <1>5, ReplacingAlone, NotWaiting, Zenon DEF Replace, Waiting, OnlyReplacing
  <2>2. QED
    BY <1>5, <2>1, Replaced, ReloadAsked, Zenon
<1>6. ASSUME NEW r \in Requests, ReplaceFails(r)
      PROVE  ReloadInv'
  <2>1. ~Waiting(r) /\ UNCHANGED loader /\ UNCHANGED reloadQueue
    BY <1>6, ReplacingAlone, NotWaiting, Zenon DEF ReplaceFails, Waiting, OnlyReplacing
  <2>2. QED
    BY <1>6, <2>1, NotReplaced, ReloadTurn, Zenon
<1>7. ASSUME NEW r \in Requests, ReloadReads(r)
      PROVE  ReloadInv'
  BY <1>7, Zenon DEF ReloadReads, ReloadInv, Waiting, FirstOf
<1>8. ASSUME NEW r \in Requests, ReloadFails(r)
      PROVE  ReloadInv'
  BY <1>8, NotReloaded, ReloadDone, Zenon DEF ReloadFails
<1>9. ASSUME NEW r \in Requests, ReloadApplies(r)
      PROVE  ReloadInv'
  <2>1. FirstOf(reloadQueue, r) /\ reloadQueue' = Tail(reloadQueue) /\ loader'.pc = "idle"
    BY <1>9, Zenon DEF ReloadApplies
  <2>2. QED
    BY <1>9, <2>1, Applied, ReloadDone, Zenon
<1>10. CASE Rewrite
  <2>1. loader.pc # "idle" /\ UNCHANGED <<saves, reloadQueue>>
    BY <1>10, LoaderAlone, NotWaiting, Zenon DEF Rewrite
  <2>2. QED
    BY <2>1, ReloadSteady, Zenon DEF Waiting
<1>11. CASE Crash
  <2>1. reloadQueue' = <<>> /\ loader'.pc = "idle"
    BY <1>11, Zenon DEF Crash
  <2>2. 1 .. Len(<<>>) = {}
    OBVIOUS
  <2>3. QED
    BY <2>1, <2>2, Zenon DEF ReloadInv
<1>12. ASSUME UNCHANGED <<saves, reloadQueue, loader>>
       PROVE  ReloadInv'
  BY <1>12, ReloadSteady, Zenon DEF Waiting
<1>13. ASSUME NEW h \in Hands, HandEdit(h) \/ HandDelete(h)
       PROVE  ReloadInv'
  BY <1>12, <1>13, Zenon DEF HandEdit, HandDelete, queues
<1>14. CASE Start
  BY <1>12, <1>14, Zenon DEF Start, queues
<1>15. CASE UNCHANGED vars
  BY <1>12, <1>15, Zenon DEF vars, queues
<1>16. QED
  BY <1>1, <1>2, <1>3, <1>4, <1>5, <1>6, <1>7, <1>8, <1>9, <1>10, <1>11, <1>13, <1>14, <1>15, Zenon
     DEF Next

LEMMA DownStep == TypeOK /\ QueuesInv /\ [Next]_vars => DownInv'
<1> SUFFICES ASSUME TypeOK, QueuesInv, [Next]_vars PROVE DownInv'
  OBVIOUS
<1> USE DEF QueuesInv
<1>1. /\ "built" \in InProgress /\ "queued" \in InProgress /\ "replacing" \in InProgress
      /\ "reloading" \in InProgress /\ "drifted" \in InProgress
  BY DEF InProgress
\* A step of a process leaves one.
<1>2. ASSUME running # Down, running' = running
      PROVE  DownInv'
  BY <1>2, Zenon DEF DownInv
<1>3. ASSUME NEW r \in Requests, Capture(r)
      PROVE  DownInv'
  BY <1>2, <1>3, Zenon DEF Capture
<1>4. ASSUME NEW r \in Requests, Submit(r) \/ SaveRejected(r) \/ SaveReads(r)
      PROVE  DownInv'
  <2>1. saves[r].pc \in InProgress /\ running' = running
    BY <1>1, <1>4, Zenon DEF Submit, SaveRejected, SaveReads
  <2>2. QED
    BY <1>2, <2>1, Zenon DEF DownInv
<1>5. ASSUME NEW r \in Requests, Replace(r) \/ ReplaceFails(r)
      PROVE  DownInv'
  <2>1. saves[r].pc \in InProgress /\ running' = running
    BY <1>1, <1>5, ReplacingAlone, Zenon DEF Replace, ReplaceFails, OnlyReplacing
  <2>2. QED
    BY <1>2, <2>1, Zenon DEF DownInv
<1>6. ASSUME NEW r \in Requests, ReloadReads(r) \/ ReloadFails(r)
      PROVE  DownInv'
  <2>1. Waiting(r) /\ running' = running
    BY <1>6, WaitingFirst, Zenon DEF ReloadReads, ReloadFails
  <2>2. saves[r].pc \in InProgress
    BY <1>1, <2>1, Zenon DEF Waiting
  <2>3. QED
    BY <1>2, <2>1, <2>2, Zenon DEF DownInv
<1>7. ASSUME NEW r \in Requests, ReloadApplies(r)
      PROVE  DownInv'
  <2>1. running' = loader.seen.edits /\ loader.seen \in Content
    BY <1>7, Zenon DEF ReloadApplies, TypeOK, Reload
  <2>2. running' # Down
    BY <2>1, ContentFields, ModelValuesAssumption, Zenon DEF Texts
  <2>3. QED
    BY <2>2, Zenon DEF DownInv
<1>8. CASE Rewrite
  <2>1. running' = running /\ loader.pc # "idle"
    BY <1>8, LoaderAlone, NotWaiting, Zenon DEF Rewrite
  <2>2. QED
    BY <1>2, <2>1, Zenon DEF DownInv
<1>9. CASE Crash
  <2>1. loader'.pc = "idle"
    BY <1>9, Zenon DEF Crash
  <2>2. QED
    BY <1>9, <2>1, Crashed, Zenon DEF DownInv
<1>10. CASE Start
  <2>1. running' = file'.edits /\ file' \in Content
    BY <1>10, StartedFrom, Zenon
  <2>2. file'.edits \in Texts
    BY <2>1, ContentFields, Zenon
  <2>3. running' # Down
    BY <2>1, <2>2, ModelValuesAssumption, Zenon DEF Texts
  <2>4. QED
    BY <2>3, Zenon DEF DownInv
<1>11. ASSUME UNCHANGED <<running, saves, loader>>
       PROVE  DownInv'
  BY <1>11, Zenon DEF DownInv
<1>12. ASSUME NEW h \in Hands, HandEdit(h) \/ HandDelete(h)
       PROVE  DownInv'
  BY <1>11, <1>12, Zenon DEF HandEdit, HandDelete
<1>13. CASE UNCHANGED vars
  BY <1>11, <1>13, Zenon DEF vars
<1>14. QED
  BY <1>3, <1>4, <1>5, <1>6, <1>7, <1>8, <1>9, <1>10, <1>12, <1>13, Zenon DEF Next

LEMMA QueuesStep == TypeOK /\ QueuesInv /\ [Next]_vars => QueuesInv'
<1> SUFFICES ASSUME TypeOK, QueuesInv, [Next]_vars PROVE QueuesInv'
  OBVIOUS
<1>1. ReplaceInv' /\ HeadInv'
  BY ReplaceStep, HeadStep, Zenon
<1>2. ReloadInv' /\ DownInv'
  BY ReloadStep, DownStep, Zenon
<1>3. QED
  BY <1>1, <1>2, Zenon DEF QueuesInv

-----------------------------------------------------------------------------
(* Types.                                                                  *)

LEMMA LoaderTyped ==
  ASSUME NEW pc \in {"idle", "rewriting", "read"}, NEW x \in Content
  PROVE  [pc |-> pc, seen |-> x] \in Reload
BY Zenon DEF Reload

LEMMA Short ==
  ASSUME NEW S, NEW x \in S, NEW y \in S
  PROVE  /\ <<>> \in Seq(S) /\ Len(<<>>) <= 2
         /\ <<x>> \in Seq(S) /\ Len(<<x>>) <= 2
         /\ <<x, y>> \in Seq(S) /\ Len(<<x, y>>) <= 2
OBVIOUS

LEMMA TypeInit == Init => TypeOK
<1> SUFFICES ASSUME Init PROVE TypeOK
  OBVIOUS
<1>1. PICK edits \in SUBSET {Owner, Keys}, auth \in BOOLEAN : file = [Seed EXCEPT !.edits = edits, !.auth = auth]
  BY Zenon DEF Init
<1>2. edits \in Texts
  BY DEF Texts, Edits
<1>3. file \in Content /\ file.edits = edits
  BY <1>1, <1>2, Zenon DEF Seed, Content, Texts
<1>4. running \in Texts /\ written \in Texts /\ exposed \in Texts /\ hands \in SUBSET Hands
  BY <1>2, <1>3 DEF Init, Texts
<1>5. "idle" \in Pcs
  BY DEF Pcs
<1>6. Finished("idle") \in Save
  BY <1>5, SaveOver, Zenon
<1>7. saves \in [Requests -> Save]
  BY <1>6, Zenon DEF Init
<1>8. loader \in Reload
  BY SeedTyped, LoaderTyped, Zenon DEF Init
<1>9. /\ saveQueue \in Seq(Requests) /\ reloadQueue \in Seq(Requests)
      /\ replaceQueue \in Seq(Requests \cup {Loader}) /\ Len(replaceQueue) <= 2
  <2>1. saveQueue = <<>> /\ reloadQueue = <<>> /\ replaceQueue = <<>>
    BY Zenon DEF Init
  <2>2. QED
    BY <2>1
<1>10. restarts \in 0 .. MaxRestarts /\ unread \in BOOLEAN
  <2>1. restarts = 0 /\ unread = FALSE
    BY Zenon DEF Init
  <2>2. 0 \in 0 .. MaxRestarts
    BY BoundAssumption
  <2>3. QED
    BY <2>1, <2>2, Zenon
<1>11. QED
  BY <1>3, <1>4, <1>7, <1>8, <1>9, <1>10, Zenon DEF TypeOK, Texts

LEMMA TypeStep == TypeOK /\ QueuesInv /\ [Next]_vars => TypeOK'
<1> SUFFICES ASSUME TypeOK, QueuesInv, [Next]_vars PROVE TypeOK'
  OBVIOUS
<1>1. replaceQueue' \in Seq(Requests \cup {Loader}) /\ Len(replaceQueue') <= 2
  <2>1. ReplaceInv'
    BY ReplaceStep, Zenon
  <2>2. \/ replaceQueue' = <<>> \/ replaceQueue' = <<Loader>>
        \/ \E r \in Requests : \/ replaceQueue' = <<r>> \/ replaceQueue' = <<r, Loader>>
                               \/ replaceQueue' = <<Loader, r>>
    BY <2>1, Zenon DEF ReplaceInv
  <2>3. Loader \in Requests \cup {Loader} /\ \A r \in Requests : r \in Requests \cup {Loader}
    BY Zenon
  <2>4. QED
    BY <2>2, <2>3, Short, Zenon
\* What a save can change.
<1>2. ASSUME saves' \in [Requests -> Save],
             file' \in Content \cup {Missing}, saveQueue' \in Seq(Requests),
             reloadQueue' \in Seq(Requests), written' \in Texts, exposed' \in Texts,
             UNCHANGED <<running, loader, hands, restarts, unread>>
      PROVE  TypeOK'
  BY <1>1, <1>2, Zenon DEF TypeOK, Texts
<1>3. /\ file \in Content \cup {Missing} /\ saveQueue \in Seq(Requests)
      /\ reloadQueue \in Seq(Requests) /\ written \in Texts /\ exposed \in Texts
  BY Zenon DEF TypeOK, Texts
<1>4. ASSUME NEW r \in Requests
      PROVE  Append(saveQueue, r) \in Seq(Requests) /\ Append(reloadQueue, r) \in Seq(Requests)
  BY <1>3
<1>5. ASSUME NEW r
      PROVE  /\ FirstOf(saveQueue, r) => Tail(saveQueue) \in Seq(Requests)
             /\ FirstOf(reloadQueue, r) => Tail(reloadQueue) \in Seq(Requests)
  BY <1>3 DEF FirstOf
<1>6. ASSUME NEW r \in Requests, Capture(r)
      PROVE  TypeOK'
  BY <1>2, <1>3, <1>6, Captured, Zenon DEF Capture, Turns, queues, history
<1>7. ASSUME NEW r \in Requests, Submit(r)
      PROVE  TypeOK'
  BY <1>2, <1>3, <1>4, <1>7, Submitted, Zenon DEF Submit, Turns, history
<1>8. ASSUME NEW r \in Requests, SaveRejected(r)
      PROVE  TypeOK'
  BY <1>2, <1>3, <1>5, <1>8, Rejected, Zenon DEF SaveRejected, Turns, history
<1>9. ASSUME NEW r \in Requests, SaveReads(r)
      PROVE  TypeOK'
  <2>1. /\ FirstOf(saveQueue, r)
        /\ UNCHANGED <<file, running, loader, hands, restarts, unread, written, exposed>>
    BY <1>9, Zenon DEF SaveReads, history
  <2>2. /\ saves' \in [Requests -> Save] /\ saveQueue' \in Seq(Requests)
        /\ reloadQueue' \in Seq(Requests)
    BY <1>3, <1>4, <1>5, <1>9, <2>1, Read, Zenon DEF Turns
  <2>3. QED
    BY <1>2, <1>3, <2>1, <2>2, Zenon
<1>10. ASSUME NEW r \in Requests, Replace(r)
       PROVE  TypeOK'
  <2>1. FirstOf(saveQueue, r)
    BY <1>10, ReplacingAlone, Zenon DEF Replace, QueuesInv, OnlyReplacing, HeadInv
  <2>2. /\ saves' \in [Requests -> Save] /\ saveQueue' \in Seq(Requests)
        /\ reloadQueue' \in Seq(Requests) /\ file' \in Content
    BY <1>4, <1>5, <1>10, <2>1, Replaced, Zenon DEF Replace, Turns
  <2>3. {r} \in Texts
    BY DEF Texts, Edits
  <2>4. written' \in Texts /\ exposed' \in Texts
    BY <1>3, <1>10, <2>3, Zenon DEF Replace, Texts
  <2>5. QED
    BY <1>2, <1>10, <2>2, <2>4, Zenon DEF Replace
<1>11. ASSUME NEW r \in Requests, ReplaceFails(r)
       PROVE  TypeOK'
  <2>1. FirstOf(saveQueue, r)
    BY <1>11, ReplacingAlone, Zenon DEF ReplaceFails, QueuesInv, OnlyReplacing, HeadInv
  <2>2. QED
    BY <1>2, <1>3, <1>5, <1>11, <2>1, NotReplaced, Zenon DEF ReplaceFails, Turns, history
<1>12. ASSUME NEW r \in Requests, ReloadFails(r)
       PROVE  TypeOK'
  BY <1>2, <1>3, <1>5, <1>12, NotReloaded, Zenon DEF ReloadFails, Turns, history
<1>13. ASSUME NEW r \in Requests, ReloadReads(r)
       PROVE  TypeOK'
  <2>1. PICK pc \in {"rewriting", "read"} : loader' = [pc |-> pc, seen |-> file]
    BY <1>13, Zenon DEF ReloadReads
  <2>2. file \in Content
    BY <1>3, <1>13, Zenon DEF ReloadReads, Loads
  <2>3. loader' \in Reload
    BY <2>1, <2>2, LoaderTyped, Zenon
  <2>4. QED
    BY <1>1, <1>13, <2>3, Zenon DEF ReloadReads, TypeOK
<1>14. ASSUME NEW r \in Requests, ReloadApplies(r)
       PROVE  TypeOK'
  <2>1. saves' \in [Requests -> Save] /\ reloadQueue' \in Seq(Requests)
    BY <1>5, <1>14, Applied, Zenon DEF ReloadApplies, Turns
  <2>2. running' \in Texts
    BY <1>14, ContentFields, Zenon DEF ReloadApplies, TypeOK, Reload
  <2>3. loader' \in Reload
    BY <1>14, SeedTyped, LoaderTyped, Zenon DEF ReloadApplies
  <2>4. QED
    BY <1>1, <1>14, <2>1, <2>2, <2>3, Zenon DEF ReloadApplies, TypeOK, Texts, history
<1>15. CASE Rewrite
  <2>1. loader' \in Reload
    BY <1>15, Zenon DEF Rewrite, TypeOK, Reload
  <2>2. file' \in Content \cup {Missing}
    BY <1>3, <1>15, HashedTyped, Zenon DEF Rewrite, TypeOK, Reload
  <2>3. QED
    BY <1>1, <1>15, <2>1, <2>2, Zenon DEF Rewrite, TypeOK, history
<1>16. ASSUME NEW h \in Hands, HandEdit(h)
       PROVE  TypeOK'
  <2>1. file' \in Content
    BY <1>16, HandEdited, Zenon
  <2>2. {h} \in Texts
    BY DEF Texts, Edits
  <2>3. written' \in Texts /\ exposed' \in Texts
    BY <1>3, <1>16, <2>2, Zenon DEF HandEdit, Texts
  <2>4. hands' \in SUBSET Hands /\ unread' \in BOOLEAN
    BY <1>16, Zenon DEF HandEdit, TypeOK
  <2>5. QED
    BY <1>1, <1>16, <2>1, <2>3, <2>4, Zenon DEF HandEdit, TypeOK, queues, Texts
<1>17. ASSUME NEW h \in Hands, HandDelete(h)
       PROVE  TypeOK'
  <2>1. {} \in Texts
    BY DEF Texts
  <2>2. hands' \in SUBSET Hands /\ unread' \in BOOLEAN
    BY <1>17, Zenon DEF HandDelete, TypeOK
  <2>3. QED
    BY <1>1, <1>17, <2>1, <2>2, Zenon DEF HandDelete, TypeOK, queues, Texts
<1>18. CASE Crash
  <2>1. saves' \in [Requests -> Save] /\ loader' \in Reload
    BY <1>18, Crashed, SeedTyped, LoaderTyped, Zenon DEF Crash
  <2>2. saveQueue' \in Seq(Requests) /\ reloadQueue' \in Seq(Requests)
    BY <1>18 DEF Crash
  <2>3. restarts' \in 0 .. MaxRestarts
    BY <1>18, BoundAssumption DEF Crash, TypeOK
  <2>4. QED
    BY <1>1, <1>18, <2>1, <2>2, <2>3, Zenon DEF Crash, TypeOK, history
<1>19. CASE Start
  <2>1. file' \in Content /\ running' = file'.edits
    BY <1>19, StartedFrom, Zenon
  <2>2. running' \in Texts
    BY <2>1, ContentFields, Zenon
  <2>3. unread' \in BOOLEAN
    BY <1>19, Zenon DEF Start
  <2>4. QED
    BY <1>1, <1>19, <2>1, <2>2, <2>3, Zenon DEF Start, TypeOK, queues, Texts
<1>20. CASE UNCHANGED vars
  BY <1>1, <1>20, Zenon DEF vars, TypeOK, queues, history
<1>21. QED
  BY <1>6, <1>7, <1>8, <1>9, <1>10, <1>11, <1>12, <1>13, <1>14, <1>15, <1>16, <1>17, <1>18, <1>19, <1>20,
     Zenon DEF Next

-----------------------------------------------------------------------------
(* The steps that matter to what the file, the saves and the loader say.   *)

Going == {"built", "queued", "replacing"}

LEMMA NotGoing ==
  /\ "failed" \notin Going /\ "refused" \notin Going /\ "saved" \notin Going
  /\ "reloading" \notin Going /\ "drifted" \notin Going
  /\ "built" \in Going /\ "queued" \in Going /\ "replacing" \in Going
BY DEF Going

\* No save comes to a text of its own, nor any to its turn.
NoTurn ==
  \A r \in Requests :
    /\ saves'[r].pc \in Going => saves[r].pc \in Going /\ saves'[r].expected = saves[r].expected
    /\ saves'[r].pc = "replacing" => saves[r].pc = "replacing"

LEMMA NoTurnTaken ==
  ASSUME NEW r \in Requests, NEW pc, Turns(r, pc), pc \notin Going
  PROVE  NoTurn
BY NotGoing, Zenon DEF Turns, NoTurn

LEMMA NoTurnStill == saves' = saves => NoTurn
BY Zenon DEF NoTurn

\* A step that is about a save and nothing else.
Quiet == NoTurn /\ UNCHANGED <<file, running, loader, written, exposed, unread>>

LEMMA Quietly ==
  ASSUME TypeOK, NEW r \in Requests,
         Submit(r) \/ SaveRejected(r) \/ ReplaceFails(r) \/ ReloadFails(r)
  PROVE  Quiet
<1>1. UNCHANGED <<file, running, loader, written, exposed, unread>>
  BY Zenon DEF Submit, SaveRejected, ReplaceFails, ReloadFails, history
<1>2. CASE Submit(r)
  <2>1. Turns(r, "queued") /\ saves[r].pc = "built" /\ saves'[r].expected = saves[r].expected
    BY <1>2, Submitted, Zenon DEF Submit
  <2>2. NoTurn
    BY <2>1, NotGoing, PcsDiffer, Zenon DEF NoTurn, Turns
  <2>3. QED
    BY <1>1, <2>2, Zenon DEF Quiet
<1>3. CASE SaveRejected(r) \/ ReplaceFails(r) \/ ReloadFails(r)
  BY <1>1, <1>3, Rejected, NotReplaced, NotReloaded, NotGoing, NoTurnTaken, Zenon DEF Quiet
<1>4. QED
  BY <1>2, <1>3, Zenon

\* One save may come to its turn, with the text the file was found to say.
LEMMA ReadQuietly ==
  ASSUME TypeOK, NEW r \in Requests, SaveReads(r)
  PROVE  /\ file \in Content
         /\ UNCHANGED <<file, running, loader, written, exposed, unread>>
         /\ \A q \in Requests :
              /\ saves'[q].pc \in Going
                   => saves[q].pc \in Going /\ saves'[q].expected = saves[q].expected
              /\ saves'[q].pc = "replacing"
                   => saves[q].pc = "replacing" \/ saves'[q].expected = file.edits
<1>1. /\ file \in Content
      /\ UNCHANGED <<file, running, loader, written, exposed, unread>>
      /\ saves[r].pc = "queued"
  BY Zenon DEF SaveReads, TypeOK, history
<1>2. CASE /\ Turns(r, "replacing") /\ saves'[r].expected = saves[r].expected
           /\ file.edits = saves[r].expected
  BY <1>1, <1>2, NotGoing, Zenon DEF Turns
<1>3. CASE Turns(r, "refused") \/ Turns(r, "drifted")
  <2>1. NoTurn
    BY <1>3, NotGoing, NoTurnTaken, Zenon
  <2>2. QED
    BY <1>1, <2>1, Zenon DEF NoTurn
<1>4. QED
  BY <1>2, <1>3, Read, Zenon

\* Of the steps of a save that has its turn.
LEMMA ReplacedAlone ==
  ASSUME TypeOK, QueuesInv, NEW r \in Requests, Replace(r)
  PROVE  /\ NoTurn
         /\ saves[r].pc = "replacing"
         /\ NoneReplacing'
<1>1. OnlyReplacing(r) /\ Turns(r, "reloading")
  BY ReplacingAlone, Replaced, Zenon DEF Replace, QueuesInv
<1>2. QED
  BY <1>1, NotGoing, NoTurnTaken, PcsDiffer, Zenon DEF OnlyReplacing, NoneReplacing, Turns

LEMMA LoaderReads ==
  ASSUME TypeOK, NEW r \in Requests, ReloadReads(r)
  PROVE  /\ file \in Content /\ file.valid
         /\ loader.pc = "idle" /\ loader'.pc # "idle" /\ loader'.seen = file
         /\ unread' = FALSE
         /\ UNCHANGED <<file, running, saves, written, exposed>>
<1>1. "rewriting" # "idle" /\ "read" # "idle"
  OBVIOUS
<1>2. QED
  BY <1>1, Zenon DEF ReloadReads, Loads, TypeOK

LEMMA LoaderApplies ==
  ASSUME NEW r \in Requests, TypeOK, ReloadApplies(r)
  PROVE  /\ loader.pc # "idle" /\ loader'.pc = "idle"
         /\ running' = loader.seen.edits
         /\ NoTurn
         /\ UNCHANGED <<file, written, exposed, unread>>
<1>1. "read" # "idle"
  OBVIOUS
<1>2. loader.pc = "read" /\ loader' = [pc |-> "idle", seen |-> Seed] /\ running' = loader.seen.edits
  BY Zenon DEF ReloadApplies
<1>3. loader'.pc = "idle"
  BY <1>2
<1>4. NoTurn
  BY Applied, NotGoing, NoTurnTaken, Zenon
<1>5. QED
  BY <1>1, <1>2, <1>3, <1>4, Zenon DEF ReloadApplies, history

LEMMA LoaderRewrites ==
  ASSUME TypeOK, QueuesInv, Rewrite
  PROVE  /\ loader.pc = "rewriting" /\ loader'.pc = "read" /\ loader'.seen = loader.seen
         /\ loader.seen \in Content
         /\ \/ /\ file' \in Content /\ file'.edits = loader.seen.edits /\ file'.valid = loader.seen.valid
            \/ file' = file
         /\ UNCHANGED <<running, saves, written, exposed, unread>>
<1>1. loader.pc = "rewriting"
  BY LoaderAlone, Zenon DEF Rewrite, QueuesInv
<1>2. loader \in Reload /\ loader.seen \in Content /\ loader' = [loader EXCEPT !.pc = "read"]
  BY Zenon DEF Rewrite, TypeOK, Reload
<1>3. loader'.pc = "read" /\ loader'.seen = loader.seen
  BY <1>2, Zenon DEF Reload
<1>4. QED
  BY <1>1, <1>2, <1>3, HashedTyped, Zenon DEF Rewrite, history

LEMMA Started ==
  ASSUME TypeOK, QueuesInv, Start
  PROVE  /\ loader'.pc = "idle" /\ \A r \in Requests : saves'[r].pc \notin InProgress
         /\ UNCHANGED <<written, exposed>>
         /\ unread' = FALSE
         /\ running = Down
BY Zenon DEF Start, QueuesInv, DownInv

LEMMA CrashedAll ==
  ASSUME TypeOK, Crash
  PROVE  /\ loader'.pc = "idle" /\ \A r \in Requests : saves'[r].pc \notin InProgress
         /\ UNCHANGED <<file, written, exposed, unread>>
         /\ running' = Down
<1>1. loader'.pc = "idle"
  BY Zenon DEF Crash
<1>2. QED
  BY <1>1, Crashed, Zenon DEF Crash, history

LEMMA AllInProgress ==
  /\ \A pc \in Going : pc \in InProgress
  /\ "replacing" \in InProgress /\ "reloading" \in InProgress /\ "drifted" \in InProgress
BY DEF Going, InProgress

LEMMA Present ==
  ASSUME NEW x \in Content
  PROVE  x # Missing
BY ModelValuesAssumption

-----------------------------------------------------------------------------
(* Who stands in which queue.                                              *)

\* In the queue stand those of S, each of them once.
Holds(queue, S) ==
  /\ \A i, j \in 1 .. Len(queue) : i # j => queue[i] # queue[j]
  /\ \A r : AnyOf(queue, r) <=> r \in S

LEMMA HoldsNone == Holds(<<>>, {})
BY DEF Holds, AnyOf

LEMMA Joins ==
  ASSUME NEW queue \in Seq(Requests), NEW S, Holds(queue, S), NEW r \in Requests, r \notin S
  PROVE  Holds(Append(queue, r), S \cup {r})
<1>1. PICK line : line = Append(queue, r)
  OBVIOUS
<1>2. /\ Len(line) = Len(queue) + 1 /\ Len(queue) \in Nat
      /\ DOMAIN line = 1 .. Len(line) /\ DOMAIN queue = 1 .. Len(queue)
      /\ \A i \in 1 .. Len(queue) : i \in 1 .. Len(line) /\ line[i] = queue[i]
      /\ line[Len(queue) + 1] = r /\ Len(queue) + 1 \in 1 .. Len(line)
  BY <1>1
<1>3. \A i \in 1 .. Len(line) : i \in 1 .. Len(queue) \/ i = Len(queue) + 1
  BY <1>2
<1>4. \A i \in 1 .. Len(queue) : queue[i] \in S /\ queue[i] # r
  BY <1>2, Zenon DEF Holds, AnyOf
<1>5. ASSUME NEW i \in 1 .. Len(line), NEW j \in 1 .. Len(line), i # j
      PROVE  line[i] # line[j]
  BY <1>2, <1>3, <1>4, <1>5, Zenon DEF Holds
<1>6. ASSUME NEW q
      PROVE  AnyOf(line, q) <=> q \in S \cup {r}
  BY <1>2, <1>3, Zenon DEF Holds, AnyOf
<1>7. QED
  BY <1>1, <1>5, <1>6, Zenon DEF Holds

LEMMA Leaves ==
  ASSUME NEW queue \in Seq(Requests), NEW S, Holds(queue, S), NEW r \in Requests, FirstOf(queue, r)
  PROVE  r \in S /\ Holds(Tail(queue), S \ {r})
<1>1. PICK line : line = Tail(queue)
  OBVIOUS
<1>2. queue # <<>> /\ Head(queue) = r
  BY Zenon DEF FirstOf
<1>3. /\ DOMAIN line = 1 .. Len(line) /\ DOMAIN queue = 1 .. Len(queue)
      /\ 1 \in 1 .. Len(queue) /\ queue[1] = r
      /\ \A i \in 1 .. Len(line) : i + 1 \in 1 .. Len(queue) /\ i + 1 # 1 /\ line[i] = queue[i + 1]
      /\ \A i \in 1 .. Len(queue) : i # 1 => \E j \in 1 .. Len(line) : i = j + 1
  <2>1. /\ DOMAIN line = 1 .. Len(line) /\ DOMAIN queue = 1 .. Len(queue)
        /\ 1 \in 1 .. Len(queue) /\ queue[1] = r
        /\ Len(line) = Len(queue) - 1 /\ Len(queue) \in Nat
        /\ \A i \in 1 .. Len(line) : line[i] = queue[i + 1]
    BY <1>1, <1>2
  <2>2. ASSUME NEW i \in 1 .. Len(queue), i # 1
        PROVE  \E j \in 1 .. Len(line) : i = j + 1
    <3>1. i - 1 \in 1 .. Len(line) /\ i = (i - 1) + 1
      BY <2>1, <2>2
    <3>2. QED
      BY <3>1
  <2>3. \A i \in 1 .. Len(line) : i + 1 \in 1 .. Len(queue) /\ i + 1 # 1
    BY <2>1
  <2>4. QED
    BY <2>1, <2>2, <2>3, Zenon
<1>4. \A i, j \in 1 .. Len(line) : i # j => i + 1 # j + 1
  OBVIOUS
<1>5. ASSUME NEW i \in 1 .. Len(line), NEW j \in 1 .. Len(line), i # j
      PROVE  line[i] # line[j]
  <2>1. PICK k, l \in 1 .. Len(queue) :
          k = i + 1 /\ l = j + 1 /\ line[i] = queue[k] /\ line[j] = queue[l]
    BY <1>3, Zenon
  <2>2. k # l
    BY <1>4, <1>5, <2>1, Zenon
  <2>3. QED
    BY <2>1, <2>2, Zenon DEF Holds
<1>6. ASSUME NEW i \in 1 .. Len(line)
      PROVE  line[i] # r
  <2>1. PICK k \in 1 .. Len(queue) : k # 1 /\ line[i] = queue[k]
    BY <1>3, Zenon
  <2>2. QED
    BY <1>3, <2>1, Zenon DEF Holds
<1>7. ASSUME NEW q
      PROVE  AnyOf(line, q) <=> q \in S \ {r}
  <2>1. ASSUME AnyOf(line, q)
        PROVE  q \in S \ {r}
    BY <1>3, <1>6, <2>1, Zenon DEF AnyOf, Holds
  <2>2. ASSUME q \in S \ {r}
        PROVE  AnyOf(line, q)
    <3>1. PICK i \in 1 .. Len(queue) : queue[i] = q
      BY <1>3, <2>2, Zenon DEF AnyOf, Holds
    <3>2. i # 1
      BY <1>3, <2>2, <3>1, Zenon
    <3>3. PICK j \in 1 .. Len(line) : i = j + 1
      BY <1>3, <3>2, Zenon
    <3>4. QED
      BY <1>3, <3>1, <3>3, Zenon DEF AnyOf
  <2>3. QED
    BY <2>1, <2>2
<1>8. r \in S
  BY <1>3, Zenon DEF Holds, AnyOf
<1>9. QED
  BY <1>1, <1>5, <1>7, <1>8, Zenon DEF Holds

ToSave == {r \in Requests : saves[r].pc \in {"queued", "replacing"}}

ToReload == {r \in Requests : Waiting(r)}

LinesInv == Holds(saveQueue, ToSave) /\ Holds(reloadQueue, ToReload)

LEMMA LineOf ==
  /\ "queued" \in {"queued", "replacing"} /\ "replacing" \in {"queued", "replacing"}
  /\ "idle" \notin {"queued", "replacing"} /\ "built" \notin {"queued", "replacing"}
  /\ "reloading" \notin {"queued", "replacing"} /\ "drifted" \notin {"queued", "replacing"}
  /\ "failed" \notin {"queued", "replacing"} /\ "refused" \notin {"queued", "replacing"}
  /\ "saved" \notin {"queued", "replacing"}
  /\ "reloading" \in {"reloading", "drifted"} /\ "drifted" \in {"reloading", "drifted"}
  /\ "idle" \notin {"reloading", "drifted"} /\ "built" \notin {"reloading", "drifted"}
  /\ "queued" \notin {"reloading", "drifted"} /\ "replacing" \notin {"reloading", "drifted"}
  /\ "failed" \notin {"reloading", "drifted"} /\ "refused" \notin {"reloading", "drifted"}
  /\ "saved" \notin {"reloading", "drifted"}
OBVIOUS

\* One save moves, in or out of each line.
LEMMA LineTurn ==
  ASSUME NEW r \in Requests, NEW pc, Turns(r, pc)
  PROVE  /\ ToSave' = IF pc \in {"queued", "replacing"} THEN ToSave \cup {r} ELSE ToSave \ {r}
         /\ ToReload' = IF pc \in {"reloading", "drifted"} THEN ToReload \cup {r} ELSE ToReload \ {r}
BY Zenon DEF Turns, ToSave, ToReload, Waiting

LEMMA LinesSteady ==
  ASSUME LinesInv, UNCHANGED <<saves, saveQueue, reloadQueue>>
  PROVE  LinesInv'
BY Zenon DEF LinesInv, ToSave, ToReload, Waiting

LEMMA LinesStep == TypeOK /\ QueuesInv /\ LinesInv /\ [Next]_vars => LinesInv'
<1> SUFFICES ASSUME TypeOK, QueuesInv, LinesInv, [Next]_vars PROVE LinesInv'
  OBVIOUS
<1> USE DEF LinesInv
<1>1. saveQueue \in Seq(Requests) /\ reloadQueue \in Seq(Requests)
  BY Zenon DEF TypeOK
<1>2. \A r \in Requests : r \notin ToSave => ToSave \ {r} = ToSave
  BY Zenon
<1>3. \A r \in Requests : r \notin ToReload => ToReload \ {r} = ToReload
  BY Zenon
<1>4. \A r \in Requests : r \in ToSave => ToSave \cup {r} = ToSave
  BY Zenon
<1>5. ASSUME NEW r \in Requests, Capture(r)
      PROVE  LinesInv'
  <2>1. /\ Turns(r, "built") /\ r \notin ToSave /\ r \notin ToReload
        /\ UNCHANGED <<saveQueue, reloadQueue>>
    BY <1>5, Captured, LineOf, Zenon DEF Capture, queues, ToSave, ToReload, Waiting
  <2>2. ToSave' = ToSave /\ ToReload' = ToReload
    BY <1>2, <1>3, <2>1, LineTurn, LineOf, Zenon
  <2>3. QED
    BY <2>1, <2>2, Zenon
<1>6. ASSUME NEW r \in Requests, Submit(r)
      PROVE  LinesInv'
  <2>1. /\ Turns(r, "queued") /\ r \notin ToSave /\ r \notin ToReload
        /\ saveQueue' = Append(saveQueue, r) /\ UNCHANGED reloadQueue
    BY <1>6, Submitted, LineOf, Zenon DEF Submit, ToSave, ToReload, Waiting
  <2>2. ToSave' = ToSave \cup {r} /\ ToReload' = ToReload
    BY <1>3, <2>1, LineTurn, LineOf, Zenon
  <2>3. QED
    BY <1>1, <2>1, <2>2, Joins, Zenon
\* A save whose turn it is and that will not replace the file, or has replaced it.
<1>7. ASSUME NEW r \in Requests, FirstOf(saveQueue, r), saveQueue' = Tail(saveQueue),
             saves[r].pc \in {"queued", "replacing"},
             \/ Turns(r, "failed") /\ UNCHANGED reloadQueue
             \/ Turns(r, "refused") /\ UNCHANGED reloadQueue
             \/ Turns(r, "drifted") /\ reloadQueue' = Append(reloadQueue, r)
             \/ Turns(r, "reloading") /\ reloadQueue' = Append(reloadQueue, r)
      PROVE  LinesInv'
  <2>1. r \notin ToReload
    BY <1>7, LineOf, Zenon DEF ToReload, Waiting
  <2>2. ToSave' = ToSave \ {r}
    BY <1>7, LineTurn, LineOf, Zenon
  <2>3. Holds(saveQueue', ToSave')
    BY <1>1, <1>7, <2>2, Leaves, Zenon
  <2>4. \/ ToReload' = ToReload /\ UNCHANGED reloadQueue
        \/ ToReload' = ToReload \cup {r} /\ reloadQueue' = Append(reloadQueue, r)
    BY <1>3, <1>7, <2>1, LineTurn, LineOf, Zenon
  <2>5. Holds(reloadQueue', ToReload')
    <3>1. Holds(reloadQueue, ToReload)
      BY Zenon
    <3>2. Holds(Append(reloadQueue, r), ToReload \cup {r})
      BY <1>1, <2>1, <3>1, Joins, Zenon
    <3>3. QED
      BY <2>4, <3>1, <3>2, Zenon
  <2>6. QED
    BY <2>3, <2>5, Zenon
<1>8. ASSUME NEW r \in Requests, SaveRejected(r)
      PROVE  LinesInv'
  BY <1>7, <1>8, Rejected, LineOf, Zenon DEF SaveRejected
<1>9. ASSUME NEW r \in Requests, SaveReads(r)
      PROVE  LinesInv'
  <2>1. FirstOf(saveQueue, r) /\ saves[r].pc \in {"queued", "replacing"}
    BY <1>9, LineOf, Zenon DEF SaveReads
  <2>2. ASSUME Turns(r, "replacing"), UNCHANGED <<saveQueue, reloadQueue>>
        PROVE  LinesInv'
    <3>1. r \in ToSave /\ r \notin ToReload
      BY <1>9, LineOf, Zenon DEF SaveReads, ToSave, ToReload, Waiting
    <3>2. ToSave' = ToSave /\ ToReload' = ToReload
      BY <1>3, <1>4, <2>2, <3>1, LineTurn, LineOf, Zenon
    <3>3. QED
      BY <2>2, <3>2, Zenon
  <2>3. QED
    BY <1>7, <1>9, <2>1, <2>2, Read, Zenon
<1>10. ASSUME NEW r \in Requests, Replace(r) \/ ReplaceFails(r)
       PROVE  LinesInv'
  <2>1. OnlyReplacing(r)
    BY <1>10, ReplacingAlone, Zenon DEF Replace, ReplaceFails, QueuesInv
  <2>2. /\ FirstOf(saveQueue, r) /\ saves[r].pc \in {"queued", "replacing"}
        /\ saveQueue' = Tail(saveQueue)
    BY <1>10, <2>1, LineOf, Zenon DEF Replace, ReplaceFails, OnlyReplacing, QueuesInv, HeadInv
  <2>3. \/ Turns(r, "failed") /\ UNCHANGED reloadQueue
        \/ Turns(r, "reloading") /\ reloadQueue' = Append(reloadQueue, r)
    BY <1>10, Replaced, NotReplaced, Zenon DEF ReplaceFails
  <2>4. QED
    BY <1>7, <2>2, <2>3, Zenon
<1>11. ASSUME NEW r \in Requests, ReloadFails(r) \/ ReloadApplies(r)
       PROVE  LinesInv'
  <2>1. FirstOf(reloadQueue, r) /\ reloadQueue' = Tail(reloadQueue) /\ UNCHANGED saveQueue
    BY <1>11, Zenon DEF ReloadFails, ReloadApplies
  <2>2. Turns(r, "failed") \/ Turns(r, "refused") \/ Turns(r, "saved")
    BY <1>11, NotReloaded, Applied, Zenon
  <2>3. r \in ToReload /\ Holds(reloadQueue', ToReload \ {r})
    BY <1>1, <2>1, Leaves, Zenon
  <2>4. r \notin ToSave
    <3>1. saves[r].pc \in {"reloading", "drifted"}
      BY <2>3, Zenon DEF ToReload, Waiting
    <3>2. QED
      BY <3>1, LineOf, Zenon DEF ToSave
  <2>5. ToSave' = ToSave /\ ToReload' = ToReload \ {r}
    BY <1>2, <2>2, <2>4, LineTurn, LineOf, Zenon
  <2>6. QED
    BY <2>1, <2>3, <2>5, Zenon
<1>12. CASE Crash
  <2>1. saveQueue' = <<>> /\ reloadQueue' = <<>>
    BY <1>12, Zenon DEF Crash
  <2>2. "queued" \in InProgress
    BY DEF InProgress
  <2>3. ToSave' = {} /\ ToReload' = {}
    BY <1>12, <2>2, Crashed, AllInProgress, Zenon DEF ToSave, ToReload, Waiting
  <2>4. QED
    BY <2>1, <2>3, HoldsNone, Zenon
<1>13. ASSUME NEW r \in Requests, ReloadReads(r)
       PROVE  LinesInv'
  BY <1>13, LinesSteady, Zenon DEF ReloadReads
<1>14. CASE Rewrite
  BY <1>14, LinesSteady, Zenon DEF Rewrite
<1>15. ASSUME NEW h \in Hands, HandEdit(h) \/ HandDelete(h)
       PROVE  LinesInv'
  BY <1>15, LinesSteady, Zenon DEF HandEdit, HandDelete, queues
<1>16. CASE Start
  BY <1>16, LinesSteady, Zenon DEF Start, queues
<1>17. CASE UNCHANGED vars
  BY <1>17, LinesSteady, Zenon DEF vars, queues
<1>18. QED
  BY <1>5, <1>6, <1>8, <1>9, <1>10, <1>11, <1>12, <1>13, <1>14, <1>15, <1>16, <1>17, Zenon DEF Next

LEMMA NobodyWaits ==
  ASSUME TypeOK, QueuesInv, LinesInv
  PROVE  NobodyWaitsInVain
<1>1. ASSUME NEW r \in Requests
      PROVE  /\ saves[r].pc = "queued" => AnyOf(saveQueue, r)
             /\ saves[r].pc \in {"reloading", "drifted"} => AnyOf(reloadQueue, r)
  BY LineOf, Zenon DEF LinesInv, Holds, ToSave, ToReload, Waiting
<1>2. \A S : \A queue \in Seq(S) : queue # <<>> => Head(queue) \in S /\ AnyOf(queue, Head(queue))
  BY DEF AnyOf
<1>3. saveQueue # <<>> => saves[Head(saveQueue)].pc \in {"queued", "replacing"}
  BY <1>2, Zenon DEF TypeOK, LinesInv, Holds, ToSave
<1>4. reloadQueue # <<>> => saves[Head(reloadQueue)].pc \in {"reloading", "drifted"}
  BY <1>2, Zenon DEF TypeOK, LinesInv, Holds, ToReload, Waiting
<1>5. ASSUME replaceQueue # <<>>
      PROVE  IF Head(replaceQueue) = Loader THEN loader.pc = "rewriting"
             ELSE saves[Head(replaceQueue)].pc = "replacing"
  <2>1. Head(replaceQueue) \in Requests \cup {Loader} /\ FirstOf(replaceQueue, Head(replaceQueue))
    BY <1>2, <1>5, Zenon DEF TypeOK, FirstOf
  <2>2. QED
    BY <2>1, LoaderAlone, ReplacingAlone, Zenon DEF QueuesInv, OnlyReplacing
<1>6. ASSUME NEW x, NEW y
      PROVE  /\ AnyOf(<<x>>, x) /\ AnyOf(<<x, y>>, x) /\ AnyOf(<<x, y>>, y)
  <2>1. /\ 1 \in DOMAIN <<x>> /\ <<x>>[1] = x
        /\ 1 \in DOMAIN <<x, y>> /\ <<x, y>>[1] = x
        /\ 2 \in DOMAIN <<x, y>> /\ <<x, y>>[2] = y
    OBVIOUS
  <2>2. QED
    BY <2>1, Zenon DEF AnyOf
<1>7. loader.pc = "rewriting" => AnyOf(replaceQueue, Loader)
  BY <1>6, Zenon DEF QueuesInv, ReplaceInv
<1>8. ASSUME NEW r \in Requests, saves[r].pc = "replacing"
      PROVE  AnyOf(replaceQueue, r)
  <2>1. PICK q \in Requests : /\ OnlyReplacing(q)
                              /\ \/ replaceQueue = <<q>>
                                 \/ replaceQueue = <<q, Loader>> \/ replaceQueue = <<Loader, q>>
    BY <1>8, Zenon DEF QueuesInv, ReplaceInv, NoneReplacing
  <2>2. q = r
    BY <1>8, <2>1, Zenon DEF OnlyReplacing
  <2>3. QED
    BY <1>6, <2>1, <2>2, Zenon
<1>9. QED
  BY <1>1, <1>3, <1>4, <1>5, <1>7, <1>8, Zenon DEF NobodyWaitsInVain

-----------------------------------------------------------------------------
(* Nothing is overwritten unseen.                                          *)

Says == IF file = Missing THEN {} ELSE file.edits

\* Whatever may yet replace the file contains what has to stay in it.
KeptInv ==
  /\ written \ exposed \subseteq Says
  /\ \A r \in Requests : saves[r].pc = "replacing" => written \ exposed \subseteq saves[r].expected
  /\ loader.pc = "rewriting" => written \ exposed \subseteq loader.seen.edits

LEMMA KeptStep == TypeOK /\ QueuesInv /\ KeptInv /\ [Next]_vars => KeptInv'
<1> SUFFICES ASSUME TypeOK, QueuesInv, KeptInv, [Next]_vars PROVE KeptInv'
  OBVIOUS
<1>1. ASSUME NEW r \in Requests, Capture(r)
      PROVE  KeptInv'
  BY <1>1, Captured, PcsDiffer, Zenon DEF Capture, Turns, KeptInv, Says, history
<1>2. ASSUME Quiet
      PROVE  KeptInv'
  BY <1>2, NotGoing, Zenon DEF Quiet, NoTurn, KeptInv, Says
<1>3. ASSUME NEW r \in Requests, SaveReads(r)
      PROVE  KeptInv'
  <2>1. Says = file.edits
    BY <1>3, ReadQuietly, Present, Zenon DEF Says
  <2>2. QED
    BY <1>3, <2>1, ReadQuietly, NotGoing, Zenon DEF KeptInv, Says
<1>4. ASSUME NEW r \in Requests, Replace(r)
      PROVE  KeptInv'
  <2>1. /\ written' = written \cup {r}
        /\ exposed' = IF loader.pc = "rewriting" THEN exposed \cup {r} ELSE exposed
        /\ loader' = loader
    BY <1>4, Zenon DEF Replace
  <2>2. Says' = saves[r].expected \cup {r}
    BY <1>4, Replaced, Present, Zenon DEF Says
  <2>3. written \ exposed \subseteq saves[r].expected
    BY <1>4, ReplacedAlone, Zenon DEF KeptInv
  <2>4. written' \ exposed' \subseteq Says'
    BY <2>1, <2>2, <2>3, Zenon
  <2>5. loader'.pc = "rewriting" => written' \ exposed' \subseteq loader'.seen.edits
    BY <2>1, Zenon DEF KeptInv
  <2>6. QED
    BY <1>4, <2>4, <2>5, ReplacedAlone, Zenon DEF KeptInv, NoneReplacing
<1>5. ASSUME NEW r \in Requests, ReloadReads(r)
      PROVE  KeptInv'
  BY <1>5, LoaderReads, Present, Zenon DEF KeptInv, Says
<1>6. ASSUME NEW r \in Requests, ReloadApplies(r)
      PROVE  KeptInv'
  <2>1. "idle" # "rewriting"
    OBVIOUS
  <2>2. QED
    BY <1>6, <2>1, LoaderApplies, NotGoing, Zenon DEF KeptInv, NoTurn, Says
<1>7. CASE Rewrite
  <2>1. "read" # "rewriting"
    OBVIOUS
  <2>2. Says' = Says \/ Says' = loader.seen.edits
    BY <1>7, LoaderRewrites, Present, Zenon DEF Says
  <2>3. QED
    BY <1>7, <2>1, <2>2, LoaderRewrites, Zenon DEF KeptInv
<1>8. ASSUME NEW h \in Hands, HandEdit(h)
      PROVE  KeptInv'
  <2>1. Says' = Says \cup {h}
    BY <1>8, HandEdited, Present, Zenon DEF Says
  <2>2. /\ written' = written \cup {h}
        /\ exposed' = IF replaceQueue = <<>> THEN exposed ELSE exposed \cup {h}
        /\ UNCHANGED <<saves, loader>>
    BY <1>8, Zenon DEF HandEdit
  <2>3. CASE replaceQueue = <<>>
    <3>1. NoneReplacing /\ loader.pc # "rewriting"
      BY <2>3, Pairs, Zenon DEF QueuesInv, ReplaceInv
    <3>2. written' \ exposed' \subseteq Says'
      BY <2>1, <2>2, Zenon DEF KeptInv
    <3>3. QED
      BY <2>2, <3>1, <3>2, Zenon DEF KeptInv, NoneReplacing
  <2>4. CASE replaceQueue # <<>>
    <3>1. written' \ exposed' \subseteq written \ exposed
      BY <2>2, <2>4, Zenon
    <3>2. QED
      BY <2>1, <2>2, <3>1, Zenon DEF KeptInv
  <2>5. QED
    BY <2>3, <2>4, Zenon
<1>9. ASSUME NEW h \in Hands, HandDelete(h)
      PROVE  KeptInv'
  <2>1. written' \ exposed' = {}
    BY <1>9, Zenon DEF HandDelete
  <2>2. QED
    BY <2>1, Zenon DEF KeptInv
<1>10. CASE Crash
  <2>1. "idle" # "rewriting"
    OBVIOUS
  <2>2. QED
    BY <1>10, <2>1, CrashedAll, AllInProgress, Zenon DEF KeptInv, Says
<1>11. CASE Start
  <2>1. "idle" # "rewriting"
    OBVIOUS
  <2>2. Says' = Says
    BY <1>11, StartedFrom, Present, Zenon DEF Says
  <2>3. QED
    BY <1>11, <2>1, <2>2, Started, AllInProgress, Zenon DEF KeptInv
<1>12. CASE UNCHANGED vars
  BY <1>12, Zenon DEF vars, history, KeptInv, Says
<1>13. QED
  BY <1>1, <1>2, <1>3, <1>4, <1>5, <1>6, <1>7, <1>8, <1>9, <1>10, <1>11, <1>12, Quietly, Zenon DEF Next

-----------------------------------------------------------------------------
(* An instance that is claimed stays so.                                   *)

Held == running # Down /\ Claimed(running)

AboutToHold == loader.pc # "idle" /\ Claimed(loader.seen.edits)

\* What is running, or is being loaded, is claimed only if whatever the next
\* load may find is.
ClaimInv ==
  /\ Held \/ AboutToHold => file = Missing \/ Claimed(Says)
  /\ Held \/ AboutToHold \/ Claimed(Says) =>
       \A r \in Requests : saves[r].pc = "replacing" => Claimed(saves[r].expected)
  /\ Held /\ loader.pc # "idle" => Claimed(loader.seen.edits)

LEMMA ClaimsAdd ==
  /\ ~Claimed({})
  /\ \A edits, more : Claimed(edits) => Claimed(edits \cup more)
  /\ \A edits : \A h \in Hands : Claimed(edits \cup {h}) => Claimed(edits)
BY EditsAssumption, Zenon DEF Claimed, Requests

\* A step after which no more is claimed, and no save has come to its turn.
LEMMA ClaimSteady ==
  ASSUME ClaimInv,
         Held' => Held, AboutToHold' => Held \/ AboutToHold, loader'.pc # "idle" => loader' = loader,
         file' = file,
         \A r \in Requests : saves'[r].pc = "replacing" =>
           saves[r].pc = "replacing" /\ saves'[r].expected = saves[r].expected
  PROVE  ClaimInv'
BY Zenon DEF ClaimInv, Says, Held, AboutToHold

LEMMA ClaimStep == TypeOK /\ QueuesInv /\ ClaimInv /\ [Next]_vars => ClaimInv'
<1> SUFFICES ASSUME TypeOK, QueuesInv, ClaimInv, [Next]_vars PROVE ClaimInv'
  OBVIOUS
<1>1. ASSUME NEW r \in Requests, Capture(r)
      PROVE  ClaimInv'
  <2>1. UNCHANGED <<file, running, loader>>
    BY <1>1, Zenon DEF Capture
  <2>2. \A q \in Requests : saves'[q].pc = "replacing" =>
          saves[q].pc = "replacing" /\ saves'[q].expected = saves[q].expected
    BY <1>1, Captured, PcsDiffer, Zenon DEF Turns
  <2>3. QED
    BY <2>1, <2>2, ClaimSteady, Zenon DEF Held, AboutToHold
<1>2. ASSUME Quiet
      PROVE  ClaimInv'
  <2>1. \A q \in Requests : saves'[q].pc = "replacing" =>
          saves[q].pc = "replacing" /\ saves'[q].expected = saves[q].expected
    BY <1>2, NotGoing, Zenon DEF Quiet, NoTurn
  <2>2. QED
    BY <1>2, <2>1, ClaimSteady, Zenon DEF Quiet, Held, AboutToHold
<1>3. ASSUME NEW r \in Requests, SaveReads(r)
      PROVE  ClaimInv'
  <2>1. Says = file.edits /\ file # Missing
    BY <1>3, ReadQuietly, Present, Zenon DEF Says
  <2>2. UNCHANGED <<file, running, loader>> /\ Says' = Says
    BY <1>3, ReadQuietly, Zenon DEF Says
  <2>3. Held' = Held /\ AboutToHold' = AboutToHold
    BY <2>2, Zenon DEF Held, AboutToHold
  <2>4. ASSUME NEW q \in Requests, saves'[q].pc = "replacing", Held \/ AboutToHold \/ Claimed(Says)
        PROVE  Claimed(saves'[q].expected)
    BY <1>3, <2>1, <2>4, ReadQuietly, NotGoing, Zenon DEF ClaimInv
  <2>5. QED
    BY <2>2, <2>3, <2>4, Zenon DEF ClaimInv
<1>4. ASSUME NEW r \in Requests, Replace(r)
      PROVE  ClaimInv'
  <2>1. UNCHANGED <<running, loader>> /\ Says' = saves[r].expected \cup {r}
    BY <1>4, Replaced, Present, Zenon DEF Replace, Says
  <2>2. Held \/ AboutToHold => Claimed(Says')
    BY <1>4, <2>1, ReplacedAlone, ClaimsAdd, Zenon DEF ClaimInv
  <2>3. Held' = Held /\ AboutToHold' = AboutToHold /\ Claimed(Says)' = Claimed(Says')
    BY <2>1, Zenon DEF Held, AboutToHold, Claimed
  <2>4. QED
    BY <1>4, <2>1, <2>2, <2>3, ReplacedAlone, Zenon DEF ClaimInv, NoneReplacing
<1>5. ASSUME NEW r \in Requests, ReloadReads(r)
      PROVE  ClaimInv'
  <2>1. file # Missing /\ Says = file.edits /\ Says' = Says
    BY <1>5, LoaderReads, Present, Zenon DEF Says
  <2>2. Held' = Held
    BY <1>5, LoaderReads, Zenon DEF Held
  <2>3. AboutToHold' <=> Claimed(Says)
    BY <1>5, <2>1, LoaderReads, Zenon DEF AboutToHold
  <2>4. Held => Claimed(Says)
    BY <2>1, Zenon DEF ClaimInv
  <2>5. \A q \in Requests : saves[q].pc = "replacing" => (Claimed(Says) => Claimed(saves[q].expected))
    BY Zenon DEF ClaimInv
  <2>6. QED
    BY <1>5, <2>1, <2>2, <2>3, <2>4, <2>5, LoaderReads, Zenon DEF ClaimInv
<1>6. ASSUME NEW r \in Requests, ReloadApplies(r)
      PROVE  ClaimInv'
  <2>1. Held' => AboutToHold
    BY <1>6, LoaderApplies, Zenon DEF Held, AboutToHold
  <2>2. ~AboutToHold' /\ Says' = Says
    BY <1>6, LoaderApplies, Zenon DEF AboutToHold, Says
  <2>3. QED
    BY <1>6, <2>1, <2>2, LoaderApplies, NotGoing, Zenon DEF ClaimInv, NoTurn
<1>7. CASE Rewrite
  <2>1. "read" # "idle" /\ "rewriting" # "idle"
    OBVIOUS
  <2>2. Says' = loader.seen.edits \/ (file' = file /\ Says' = Says)
    BY <1>7, LoaderRewrites, Present, Zenon DEF Says
  <2>3. Held' = Held /\ AboutToHold' = AboutToHold
    BY <1>7, <2>1, LoaderRewrites, Zenon DEF Held, AboutToHold
  <2>4. AboutToHold <=> Claimed(loader.seen.edits)
    BY <1>7, <2>1, LoaderRewrites, Zenon DEF AboutToHold
  <2>5. Held => AboutToHold
    BY <1>7, <2>1, <2>4, LoaderRewrites, Zenon DEF ClaimInv
  <2>6. (Held \/ AboutToHold)' => (file = Missing \/ Claimed(Says))'
    BY <2>2, <2>3, <2>4, <2>5, Zenon DEF ClaimInv
  <2>7. Claimed(Says)' => AboutToHold \/ Claimed(Says)
    BY <2>2, <2>4, Zenon DEF Claimed
  <2>8. QED
    BY <1>7, <2>3, <2>5, <2>6, <2>7, <2>4, LoaderRewrites, Zenon DEF ClaimInv
<1>8. ASSUME NEW h \in Hands, HandEdit(h)
      PROVE  ClaimInv'
  <2>1. /\ Says' = Says \cup {h} /\ file # Missing
        /\ UNCHANGED <<running, saves, loader>>
    BY <1>8, HandEdited, Present, Zenon DEF Says, HandEdit
  <2>2. Claimed(Says)' = Claimed(Says) /\ Held' = Held /\ AboutToHold' = AboutToHold
    BY <2>1, ClaimsAdd, Zenon DEF Held, AboutToHold, Claimed
  <2>3. QED
    BY <2>1, <2>2, Zenon DEF ClaimInv
<1>9. ASSUME NEW h \in Hands, HandDelete(h)
      PROVE  ClaimInv'
  <2>1. file' = Missing /\ ~Claimed(Says)' /\ UNCHANGED <<running, saves, loader>>
    BY <1>9, ClaimsAdd, Zenon DEF HandDelete, Says, Claimed
  <2>2. Held' = Held /\ AboutToHold' = AboutToHold
    BY <2>1, Zenon DEF Held, AboutToHold
  <2>3. QED
    BY <2>1, <2>2, Zenon DEF ClaimInv
<1>10. CASE Crash
  BY <1>10, CrashedAll, AllInProgress, Zenon DEF ClaimInv, Held, AboutToHold
<1>11. CASE Start
  <2>1. Says' = running' /\ loader'.pc = "idle"
    BY <1>11, StartedFrom, Started, Present, Zenon DEF Says
  <2>2. Held' => Claimed(Says)'
    BY <2>1, Zenon DEF Held, Claimed
  <2>3. QED
    BY <1>11, <2>1, <2>2, Started, AllInProgress, Zenon DEF ClaimInv, AboutToHold
<1>12. CASE UNCHANGED vars
  BY <1>12, ClaimSteady, Zenon DEF vars, Held, AboutToHold
<1>13. QED
  BY <1>1, <1>2, <1>3, <1>4, <1>5, <1>6, <1>7, <1>8, <1>9, <1>10, <1>11, <1>12, Quietly, Zenon DEF Next

\* Only a reload and a start change what is running.
LEMMA ClaimKeeps ==
  ASSUME TypeOK, QueuesInv, ClaimInv, [Next]_vars,
         running # Down, running' # Down, Claimed(running)
  PROVE  Claimed(running')
<1>1. ASSUME running' = running
      PROVE  Claimed(running')
  BY <1>1, Zenon
<1>2. ASSUME NEW r \in Requests, ReloadApplies(r)
      PROVE  Claimed(running')
  BY <1>2, LoaderApplies, Zenon DEF ClaimInv, Held
<1>3. ASSUME NEW r \in Requests,
             Capture(r) \/ SaveReads(r) \/ Replace(r) \/ ReloadReads(r) \/ Quiet
      PROVE  running' = running
  BY <1>3, Zenon DEF Capture, SaveReads, Replace, ReloadReads, Quiet
<1>4. ASSUME NEW h \in Hands, HandEdit(h) \/ HandDelete(h)
      PROVE  running' = running
  BY <1>4, Zenon DEF HandEdit, HandDelete
<1>5. ~Crash /\ ~Start
  BY Zenon DEF Crash, Start
<1>6. CASE Rewrite
  BY <1>1, <1>6, Zenon DEF Rewrite
<1>7. CASE UNCHANGED vars
  BY <1>1, <1>7, Zenon DEF vars
<1>8. QED
  BY <1>1, <1>2, <1>3, <1>4, <1>5, <1>6, <1>7, Quietly, Zenon DEF Next

-----------------------------------------------------------------------------
(* One claim at most.                                                      *)

Claims == Setups \cup {Owner}

One(edits) == \A x, y \in edits \cap Claims : x = y

\* What the file says, what is running, what is being loaded, and what a save
\* would make of it.
OneInv ==
  /\ One(Says)
  /\ running # Down => One(running)
  /\ loader.pc # "idle" => One(loader.seen.edits)
  /\ \A r \in Requests : saves[r].pc \in Going => One(saves[r].expected \cup {r})

LEMMA OneMore ==
  ASSUME NEW edits, One(edits), NEW x, x \in Claims => ~Claimed(edits)
  PROVE  One(edits \cup {x})
BY Zenon DEF One, Claims, Claimed

LEMMA OneStep == TypeOK /\ QueuesInv /\ OneInv /\ [Next]_vars => OneInv'
<1> SUFFICES ASSUME TypeOK, QueuesInv, OneInv, [Next]_vars PROVE OneInv'
  OBVIOUS
<1>1. ASSUME NEW r \in Requests, Capture(r)
      PROVE  OneInv'
  <2>1. UNCHANGED <<file, running, loader>> /\ running # Down /\ Says' = Says
    BY <1>1, Zenon DEF Capture, Says
  <2>2. r \in Claims => ~Claimed(running)
    BY <1>1, EditsAssumption, Zenon DEF Capture, Claims
  <2>3. One(running \cup {r})
    BY <2>1, <2>2, OneMore, Zenon DEF OneInv
  <2>4. ASSUME NEW q \in Requests, saves'[q].pc \in Going
        PROVE  One(saves'[q].expected \cup {q})
    BY <1>1, <2>3, <2>4, Captured, Zenon DEF Turns, OneInv
  <2>5. QED
    BY <2>1, <2>4, Zenon DEF OneInv, One
<1>2. ASSUME NoTurn, UNCHANGED <<file, running, loader>>
      PROVE  OneInv'
  BY <1>2, Zenon DEF NoTurn, OneInv, Says, One
<1>3. ASSUME NEW r \in Requests, SaveReads(r)
      PROVE  OneInv'
  <2>1. /\ UNCHANGED <<file, running, loader>> /\ Says' = Says
        /\ \A q \in Requests : saves'[q].pc \in Going =>
             saves[q].pc \in Going /\ saves'[q].expected = saves[q].expected
    BY <1>3, ReadQuietly, Zenon DEF Says
  <2>2. ASSUME NEW q \in Requests, saves'[q].pc \in Going
        PROVE  One(saves'[q].expected \cup {q})
    BY <2>1, <2>2, Zenon DEF OneInv
  <2>3. One(Says)' /\ (running # Down => One(running))' /\ (loader.pc # "idle" => One(loader.seen.edits))'
    BY <2>1, Zenon DEF OneInv, One
  <2>4. QED
    BY <2>2, <2>3, Zenon DEF OneInv, One
<1>4. ASSUME NEW r \in Requests, Replace(r)
      PROVE  OneInv'
  <2>1. UNCHANGED <<running, loader>> /\ Says' = saves[r].expected \cup {r}
    BY <1>4, Replaced, Present, Zenon DEF Replace, Says
  <2>2. One(Says')
    BY <1>4, <2>1, ReplacedAlone, NotGoing, Zenon DEF OneInv
  <2>3. QED
    BY <1>4, <2>1, <2>2, ReplacedAlone, Zenon DEF OneInv, One, NoTurn
<1>5. ASSUME NEW r \in Requests, ReloadReads(r)
      PROVE  OneInv'
  <2>1. loader'.seen.edits = Says
    BY <1>5, LoaderReads, Present, Zenon DEF Says
  <2>2. UNCHANGED <<file, running, saves>> /\ Says' = Says
    BY <1>5, LoaderReads, Zenon DEF Says
  <2>3. QED
    BY <2>1, <2>2, Zenon DEF OneInv, One
<1>6. ASSUME NEW r \in Requests, ReloadApplies(r)
      PROVE  OneInv'
  <2>1. /\ Says' = Says /\ loader'.pc = "idle"
        /\ loader.pc # "idle" /\ running' = loader.seen.edits
        /\ NoTurn
    BY <1>6, LoaderApplies, Zenon DEF Says
  <2>2. QED
    BY <2>1, Zenon DEF OneInv, One, NoTurn
<1>7. CASE Rewrite
  <2>1. "rewriting" # "idle"
    OBVIOUS
  <2>2. Says' = Says \/ Says' = loader.seen.edits
    BY <1>7, LoaderRewrites, Present, Zenon DEF Says
  <2>3. /\ UNCHANGED <<running, saves>> /\ loader'.seen = loader.seen
        /\ loader.pc # "idle"
    BY <1>7, <2>1, LoaderRewrites, Zenon
  <2>4. QED
    BY <2>2, <2>3, Zenon DEF OneInv, One
<1>8. ASSUME NEW h \in Hands, HandEdit(h)
      PROVE  OneInv'
  <2>1. Says' = Says \cup {h} /\ UNCHANGED <<running, saves, loader>>
    BY <1>8, HandEdited, Present, Zenon DEF Says, HandEdit
  <2>2. h \notin Claims
    BY EditsAssumption, Zenon DEF Claims, Requests
  <2>3. One(Says')
    BY <2>1, <2>2, OneMore, Zenon DEF OneInv
  <2>4. QED
    BY <2>1, <2>3, Zenon DEF OneInv, One
<1>9. ASSUME NEW h \in Hands, HandDelete(h)
      PROVE  OneInv'
  <2>1. Says' = {} /\ UNCHANGED <<running, saves, loader>>
    BY <1>9, Zenon DEF HandDelete, Says
  <2>2. QED
    BY <2>1, Zenon DEF OneInv, One
<1>10. CASE Crash
  <2>1. Says' = Says /\ running' = Down
    BY <1>10, CrashedAll, Zenon DEF Says
  <2>2. QED
    BY <1>10, <2>1, CrashedAll, AllInProgress, Zenon DEF OneInv, One
<1>11. CASE Start
  <2>1. Says' = running' /\ (Says' = Says \/ Says' = {})
    BY <1>11, StartedFrom, Present, Zenon DEF Says
  <2>2. One(Says')
    BY <2>1, Zenon DEF OneInv, One
  <2>3. QED
    BY <1>11, <2>1, <2>2, Started, AllInProgress, Zenon DEF OneInv, One
<1>12. CASE UNCHANGED vars
  BY <1>2, <1>12, NoTurnStill, Zenon DEF vars
<1>13. QED
  BY <1>1, <1>2, <1>3, <1>4, <1>5, <1>6, <1>7, <1>8, <1>9, <1>10, <1>11, <1>12, Quietly, Zenon
     DEF Next, Quiet

\* At most one member, by counting.
LEMMA AtMostOne ==
  ASSUME NEW S, \A x, y \in S : x = y
  PROVE  Cardinality(S) <= 1
<1>1. CASE S = {}
  BY <1>1, FS_EmptySet
<1>2. CASE S # {}
  <2>1. PICK x : x \in S
    BY <1>2
  <2>2. S = {x}
    BY <2>1
  <2>3. Cardinality(S) = 1
    BY <2>2, FS_Singleton
  <2>4. QED
    BY <2>3
<1>3. QED
  BY <1>1, <1>2

LEMMA OneClaim ==
  ASSUME KeptInv, OneInv
  PROVE  ClaimedOnce
<1>1. \A x, y \in (Setups \cup {Owner}) \cap (written \ exposed) : x = y
  BY Zenon DEF KeptInv, OneInv, One, Claims
<1>2. QED
  BY <1>1, AtMostOne, Zenon DEF ClaimedOnce

-----------------------------------------------------------------------------
(* What is running is what the file says.                                  *)

Asked == \E r \in Requests : Waiting(r)

\* A reload is asked for besides the one that is being made.
AskedAgain == \E r \in Requests : Waiting(r) /\ ~FirstOf(reloadQueue, r)

AppliedInv ==
  /\ loader.pc # "idle" => loader.seen.valid
  /\ running # Down /\ ~unread =>
       /\ Loads(file)
       /\ loader.pc = "idle" => Asked \/ running = file.edits
       /\ loader.pc # "idle" => AskedAgain \/ loader.seen.edits = file.edits

LEMMA AppliedSteady ==
  ASSUME AppliedInv, UNCHANGED <<file, running, loader, unread>>,
         Asked => Asked', loader.pc # "idle" /\ AskedAgain => AskedAgain'
  PROVE  AppliedInv'
BY Zenon DEF AppliedInv, Loads

\* A save that was not waiting for a reload, and may be now.
LEMMA AskedTurn ==
  ASSUME TypeOK, ReloadInv, NEW r \in Requests, ~Waiting(r), NEW pc, Turns(r, pc),
         UNCHANGED reloadQueue \/ reloadQueue' = Append(reloadQueue, r)
  PROVE  /\ Asked => Asked'
         /\ loader.pc # "idle" /\ AskedAgain => AskedAgain'
         /\ loader.pc # "idle" => ~FirstOf(reloadQueue, r)'
<1>1. reloadQueue \in Seq(Requests)
  BY Zenon DEF TypeOK
<1>2. reloadQueue # <<>> => reloadQueue' # <<>> /\ Head(reloadQueue') = Head(reloadQueue)
  BY <1>1
<1>3. reloadQueue # <<>> => ~FirstOf(reloadQueue, r)
  BY WaitingFirst, Zenon
<1>4. loader.pc # "idle" => reloadQueue # <<>>
  BY Zenon DEF ReloadInv
<1>5. \A q \in Requests : Waiting(q) => Waiting(q)'
  BY Zenon DEF Waiting, Turns
<1>6. QED
  BY <1>2, <1>3, <1>4, <1>5, Zenon DEF Asked, AskedAgain, FirstOf

LEMMA AppliedStep == TypeOK /\ QueuesInv /\ AppliedInv /\ [Next]_vars => AppliedInv'
<1> SUFFICES ASSUME TypeOK, QueuesInv, AppliedInv, [Next]_vars PROVE AppliedInv'
  OBVIOUS
<1> USE DEF QueuesInv
<1>1. ASSUME NEW r \in Requests, ~Waiting(r), NEW pc, Turns(r, pc),
             UNCHANGED reloadQueue \/ reloadQueue' = Append(reloadQueue, r),
             UNCHANGED <<file, running, loader, unread>>
      PROVE  AppliedInv'
  BY <1>1, AskedTurn, AppliedSteady, Zenon
<1>2. ASSUME NEW r \in Requests, Capture(r)
      PROVE  AppliedInv'
  BY <1>1, <1>2, Captured, NotWaiting, Zenon DEF Capture, Waiting, queues, history
<1>3. ASSUME NEW r \in Requests, Submit(r)
      PROVE  AppliedInv'
  BY <1>1, <1>3, Submitted, NotWaiting, Zenon DEF Submit, Waiting, history
<1>4. ASSUME NEW r \in Requests, SaveRejected(r)
      PROVE  AppliedInv'
  BY <1>1, <1>4, Rejected, NotWaiting, Zenon DEF SaveRejected, Waiting, history
<1>5. ASSUME NEW r \in Requests, SaveReads(r)
      PROVE  AppliedInv'
  <2>1. ~Waiting(r) /\ UNCHANGED <<file, running, loader, unread>>
    BY <1>5, NotWaiting, Zenon DEF SaveReads, Waiting, history
  <2>2. QED
    BY <1>1, <1>5, <2>1, Read, Zenon
<1>6. ASSUME NEW r \in Requests, Replace(r)
      PROVE  AppliedInv'
  <2>1. /\ ~Waiting(r) /\ Turns(r, "reloading") /\ reloadQueue' = Append(reloadQueue, r)
        /\ UNCHANGED <<running, loader, unread>>
        /\ file' # Missing /\ file'.valid
    BY <1>6, ReplacedAlone, Replaced, Present, NotWaiting, Zenon DEF Replace, Waiting
  <2>2. Waiting(r)'
    BY <2>1, Zenon DEF Turns, Waiting
  <2>3. Asked' /\ (loader.pc # "idle" => AskedAgain')
    BY <2>1, <2>2, AskedTurn, Zenon DEF Asked, AskedAgain
  <2>4. QED
    BY <2>1, <2>3, Zenon DEF AppliedInv, Loads
<1>7. ASSUME NEW r \in Requests, ReplaceFails(r)
      PROVE  AppliedInv'
  <2>1. /\ ~Waiting(r) /\ UNCHANGED reloadQueue
        /\ UNCHANGED <<file, running, loader, unread>>
    BY <1>7, ReplacingAlone, NotWaiting, Zenon DEF ReplaceFails, Waiting, OnlyReplacing, history
  <2>2. QED
    BY <1>1, <1>7, <2>1, NotReplaced, Zenon
<1>8. ASSUME NEW r \in Requests, ReloadReads(r)
      PROVE  AppliedInv'
  BY <1>8, LoaderReads, Present, Zenon DEF AppliedInv, Loads
<1>9. ASSUME NEW r \in Requests, ReloadFails(r)
      PROVE  AppliedInv'
  BY <1>9, Zenon DEF ReloadFails, AppliedInv, history
<1>10. ASSUME NEW r \in Requests, ReloadApplies(r)
       PROVE  AppliedInv'
  <2>1. running # Down
    BY <1>10, LoaderApplies, Zenon DEF DownInv
  <2>2. FirstOf(reloadQueue, r) /\ (Turns(r, "refused") \/ Turns(r, "saved"))
    BY <1>10, Applied, Zenon DEF ReloadApplies
  <2>3. AskedAgain => Asked'
    BY <2>2, Zenon DEF AskedAgain, Asked, Waiting, Turns
  <2>4. QED
    BY <1>10, <2>1, <2>3, LoaderApplies, Zenon DEF AppliedInv, Loads
<1>11. CASE Rewrite
  <2>1. "rewriting" # "idle" /\ "read" # "idle"
    OBVIOUS
  <2>2. /\ loader.pc # "idle" /\ loader'.pc # "idle" /\ loader'.seen = loader.seen
        /\ UNCHANGED <<running, unread>> /\ AskedAgain' = AskedAgain
    BY <1>11, <2>1, LoaderRewrites, Zenon DEF AskedAgain, Waiting, Rewrite
  <2>3. \/ file' # Missing /\ file'.edits = loader.seen.edits /\ file'.valid
        \/ file' = file
    BY <1>11, <2>2, LoaderRewrites, Present, Zenon DEF AppliedInv
  <2>4. QED
    BY <2>2, <2>3, Zenon DEF AppliedInv, Loads
<1>12. ASSUME NEW h \in Hands, HandEdit(h) \/ HandDelete(h)
       PROVE  AppliedInv'
  BY <1>12, Zenon DEF HandEdit, HandDelete, AppliedInv
<1>13. CASE Crash
  BY <1>13, CrashedAll, Zenon DEF AppliedInv
<1>14. CASE Start
  BY <1>14, StartedFrom, Started, Present, Zenon DEF AppliedInv, Loads
<1>15. CASE UNCHANGED vars
  BY <1>15, AppliedSteady, Zenon DEF vars, queues, history, Asked, AskedAgain, Waiting
<1>16. QED
  BY <1>2, <1>3, <1>4, <1>5, <1>6, <1>7, <1>8, <1>9, <1>10, <1>11, <1>12, <1>13, <1>14, <1>15, Zenon
     DEF Next

LEMMA RunningAsSaved ==
  ASSUME TypeOK, QueuesInv, AppliedInv
  PROVE  AppliedAsSaved
<1>1. ASSUME running # Down, ~unread, ~Asked
      PROVE  running = file.edits
  <2>1. loader.pc = "idle"
    <3>1. SUFFICES ASSUME loader.pc # "idle" PROVE FALSE
      OBVIOUS
    <3>2. reloadQueue # <<>> /\ reloadQueue \in Seq(Requests)
      BY <3>1, Zenon DEF QueuesInv, ReloadInv, TypeOK
    <3>3. Head(reloadQueue) \in Requests
      BY <3>2
    <3>4. Waiting(Head(reloadQueue))
      BY <3>2, <3>3, WaitingFirst, Zenon DEF FirstOf, QueuesInv
    <3>5. QED
      BY <1>1, <3>3, <3>4, Zenon DEF Asked
  <2>2. QED
    BY <1>1, <2>1, Zenon DEF AppliedInv
<1>2. QED
  BY <1>1, Zenon DEF AppliedAsSaved, Asked, Waiting

-----------------------------------------------------------------------------
(* A file without an auth block, which every save would refuse as drifted. *)

\* No plaintext token without an auth block: the loader would have to write one.
Sound(x) == x.plain => x.auth

LEMMA SeedSound ==
  /\ Seed.auth /\ ~Seed.plain
  /\ \A edits \in Texts : LET y == [Seed EXCEPT !.edits = edits] IN y.auth /\ ~y.plain
BY Zenon DEF Seed, Texts

LEMMA HashedSound ==
  ASSUME NEW x \in Content
  PROVE  ~Hashed(x).plain /\ (Hashed(x).auth <=> x.auth)
BY Zenon DEF Hashed, Content

LEMMA HandEditedSound ==
  ASSUME TypeOK, NEW h \in Hands, HandEdit(h), Sound(file)
  PROVE  Sound(file') /\ (file.auth => file'.auth)
<1>1. file \in Content
  BY Zenon DEF TypeOK, HandEdit
<1>2. PICK plain, valid \in BOOLEAN :
        file' = [file EXCEPT !.edits = file.edits \cup {h}, !.plain = file.plain \/ plain,
                             !.auth = file.auth \/ plain, !.valid = valid]
  BY Zenon DEF HandEdit
<1>3. PICK e, p, a :
        e = (file.edits \cup {h}) /\ p = (file.plain \/ plain) /\ a = (file.auth \/ plain)
  BY Zenon
<1> DEFINE y == [file EXCEPT !.edits = e, !.plain = p, !.auth = a, !.valid = valid]
<1>4. file' = y
  BY <1>2, <1>3, Zenon
<1>5. y.plain = p /\ y.auth = a
  BY <1>1, Zenon DEF Content
<1> HIDE DEF y
<1>6. (file'.plain <=> file.plain \/ plain) /\ (file'.auth <=> file.auth \/ plain)
  BY <1>3, <1>4, <1>5, Zenon
<1>7. QED
  BY <1>6, Zenon DEF Sound

Bare == file # Missing /\ ~file.auth

Managing == running # Down /\ Managed(running)

AboutToManage == loader.pc # "idle" /\ Managed(loader.seen.edits)

(* No step takes the auth block out of a file, so one that lacks it has    *)
(* been there from the start: neither a claim nor a key has reached it, or *)
(* what was read from it, and nobody could begin any other save.           *)
BareInv ==
  /\ file # Missing => Sound(file)
  /\ loader.pc = "rewriting" => loader.seen.auth
  /\ Bare => /\ ~Managed(Says) /\ ~Managing /\ ~AboutToManage
             /\ \A r \in Commits : saves[r].pc \notin Going

LEMMA ManagedAdd ==
  /\ ~Managed({})
  /\ \A edits : \A h \in Hands : Managed(edits \cup {h}) => Managed(edits)
BY ClaimsAdd, EditsAssumption, Zenon DEF Managed

\* A step that leaves the file alone and loads no more of it.
LEMMA BareSteady ==
  ASSUME BareInv, file' = file,
         loader'.pc = "rewriting" => loader.pc = "rewriting" /\ loader'.seen = loader.seen,
         Managing' => Managing \/ AboutToManage, AboutToManage' => AboutToManage,
         \A r \in Commits : saves'[r].pc \in Going => saves[r].pc \in Going \/ Managing
  PROVE  BareInv'
<1>1. Bare' = Bare /\ Says' = Says /\ (Managed(Says)' <=> Managed(Says))
  BY Zenon DEF Bare, Says, Managed, Claimed
<1>2. QED
  BY <1>1, Zenon DEF BareInv

\* A step after which the file has an auth block.
LEMMA BareNoMore ==
  ASSUME BareInv, file' # Missing => file'.auth,
         loader'.pc = "rewriting" => loader.pc = "rewriting" /\ loader'.seen = loader.seen
  PROVE  BareInv'
BY Zenon DEF BareInv, Bare, Sound

LEMMA BareStep == TypeOK /\ QueuesInv /\ BareInv /\ [Next]_vars => BareInv'
<1> SUFFICES ASSUME TypeOK, QueuesInv, BareInv, [Next]_vars PROVE BareInv'
  OBVIOUS
<1>1. ASSUME NEW r \in Requests, Capture(r)
      PROVE  BareInv'
  <2>1. /\ UNCHANGED <<file, running, loader>>
        /\ Turns(r, "built") /\ (r \in Commits => Managing)
    BY <1>1, Captured, Zenon DEF Capture, Managing
  <2>2. \A q \in Commits : saves'[q].pc \in Going => saves[q].pc \in Going \/ Managing
    BY <2>1, Zenon DEF Turns, Requests
  <2>3. QED
    BY <2>1, <2>2, BareSteady, Zenon DEF Managing, AboutToManage
<1>2. ASSUME Quiet
      PROVE  BareInv'
  <2>1. /\ UNCHANGED <<file, running, loader>>
        /\ \A q \in Commits : saves'[q].pc \in Going => saves[q].pc \in Going
    BY <1>2, Zenon DEF Quiet, NoTurn, Requests
  <2>2. QED
    BY <2>1, BareSteady, Zenon DEF Managing, AboutToManage
<1>3. ASSUME NEW r \in Requests, SaveReads(r)
      PROVE  BareInv'
  <2>1. /\ UNCHANGED <<file, running, loader>>
        /\ \A q \in Commits : saves'[q].pc \in Going => saves[q].pc \in Going
    BY <1>3, ReadQuietly, Zenon DEF NoTurn, Requests
  <2>2. QED
    BY <2>1, BareSteady, Zenon DEF Managing, AboutToManage
<1>4. ASSUME NEW r \in Requests, Replace(r)
      PROVE  BareInv'
  <2>1. saves[r].expected \cup {r} \in Texts
    BY SaveFields, Zenon DEF TypeOK, Edits, Texts
  <2>2. file' = [Seed EXCEPT !.edits = saves[r].expected \cup {r}] /\ loader' = loader
    BY <1>4, Zenon DEF Replace
  <2>3. file'.auth
    BY <2>1, <2>2, SeedSound, Zenon
  <2>4. QED
    BY <2>2, <2>3, BareNoMore, Zenon
<1>5. ASSUME NEW r \in Requests, ReloadReads(r)
      PROVE  BareInv'
  <2>1. /\ loader'.seen = file /\ (loader'.pc = "rewriting" => file.plain)
        /\ file # Missing /\ UNCHANGED <<file, running, saves>>
    BY <1>5, LoaderReads, Present, Zenon DEF ReloadReads
  <2>2. loader'.pc = "rewriting" => loader'.seen.auth
    BY <2>1, Zenon DEF BareInv, Sound
  <2>3. AboutToManage' => Managed(Says)
    BY <2>1, Zenon DEF AboutToManage, Says
  <2>4. /\ Bare' = Bare /\ Says' = Says /\ (Managed(Says)' <=> Managed(Says)) /\ Managing' = Managing
        /\ Sound(file)' <=> Sound(file)
    BY <2>1, Zenon DEF Bare, Says, Managing, Managed, Claimed, Sound
  <2>5. QED
    BY <2>1, <2>2, <2>3, <2>4, Zenon DEF BareInv
<1>6. ASSUME NEW r \in Requests, ReloadApplies(r)
      PROVE  BareInv'
  <2>1. Managing' => AboutToManage
    BY <1>6, LoaderApplies, Zenon DEF Managing, AboutToManage
  <2>2. ~AboutToManage' /\ loader'.pc # "rewriting"
    BY <1>6, LoaderApplies, NotWaiting, Zenon DEF AboutToManage
  <2>3. \A q \in Commits : saves'[q].pc \in Going => saves[q].pc \in Going
    BY <1>6, LoaderApplies, Zenon DEF NoTurn, Requests
  <2>4. QED
    BY <1>6, <2>1, <2>2, <2>3, LoaderApplies, BareSteady, Zenon
<1>7. CASE Rewrite
  <2>1. "read" # "rewriting" /\ "rewriting" # "idle"
    OBVIOUS
  <2>2. /\ loader.pc = "rewriting" /\ loader.seen \in Content /\ loader'.seen = loader.seen
        /\ loader'.pc # "rewriting" /\ loader.pc # "idle" /\ UNCHANGED <<running, saves>>
    BY <1>7, <2>1, LoaderRewrites, Zenon
  <2>3. CASE file' = Hashed(loader.seen)
    <3>1. file'.auth
      BY <2>2, <2>3, HashedSound, Zenon DEF BareInv
    <3>2. QED
      BY <2>2, <3>1, BareNoMore, Zenon
  <2>4. CASE file' = file
    BY <2>2, <2>4, BareSteady, Zenon DEF Managing, AboutToManage
  <2>5. QED
    BY <1>7, <2>3, <2>4, Zenon DEF Rewrite
<1>8. ASSUME NEW h \in Hands, HandEdit(h)
      PROVE  BareInv'
  <2>1. /\ Says' = Says \cup {h} /\ file # Missing
        /\ UNCHANGED <<running, saves, loader>>
    BY <1>8, HandEdited, Present, Zenon DEF Says, HandEdit
  <2>2. Sound(file') /\ (file.auth => file'.auth)
    BY <1>8, <2>1, HandEditedSound, Zenon DEF BareInv
  <2>3. (Managed(Says)' => Managed(Says)) /\ Managing' = Managing /\ AboutToManage' = AboutToManage
    BY <2>1, ManagedAdd, Zenon DEF Managing, AboutToManage, Managed, Claimed
  <2>4. Bare' => Bare
    BY <2>1, <2>2, Zenon DEF Bare
  <2>5. QED
    BY <2>1, <2>2, <2>3, <2>4, Zenon DEF BareInv, Sound
<1>9. ASSUME NEW h \in Hands, HandDelete(h)
      PROVE  BareInv'
  BY <1>9, BareNoMore, Zenon DEF HandDelete
<1>10. CASE Crash
  <2>1. "idle" # "rewriting"
    OBVIOUS
  <2>2. \A q \in Commits : saves'[q].pc \in Going => saves[q].pc \in Going
    BY <1>10, CrashedAll, AllInProgress, Zenon DEF Requests
  <2>3. QED
    BY <1>10, <2>1, <2>2, CrashedAll, BareSteady, Zenon DEF Managing, AboutToManage
<1>11. CASE Start
  <2>1. loader'.pc # "rewriting" /\ ~AboutToManage' /\ \A r \in Commits : saves'[r].pc \notin Going
    BY <1>11, Started, AllInProgress, NotWaiting, Zenon DEF AboutToManage, Requests
  <2>2. ASSUME file = Missing
        PROVE  file'.auth
    BY <1>11, <2>2, SeedSound, Zenon DEF Start
  <2>3. ASSUME file # Missing
        PROVE  /\ file' # Missing /\ Says' = Says /\ running' = Says
               /\ Sound(file') /\ (file'.auth <=> file.auth)
    <3>1. file \in Content /\ file' \in Content /\ file'.edits = file.edits /\ running' = file'.edits
      BY <1>11, <2>3, StartedFrom, Zenon
    <3>2. file' = Hashed(file) \/ file' = file
      BY <1>11, <2>3, Zenon DEF Start
    <3>3. Sound(file)
      BY <2>3, Zenon DEF BareInv
    <3>4. file' # Missing /\ Says' = Says /\ running' = Says
      BY <2>3, <3>1, Present, Zenon DEF Says
    <3>5. CASE file' = Hashed(file)
      BY <3>1, <3>4, <3>5, HashedSound, Zenon DEF Sound
    <3>6. CASE file' = file
      BY <3>3, <3>4, <3>6, Zenon
    <3>7. QED
      BY <3>2, <3>5, <3>6
  <2>4. CASE file = Missing
    BY <2>1, <2>2, <2>4, BareNoMore, Zenon
  <2>5. CASE file # Missing
    <3>1. Bare' => Bare /\ ~Managed(Says)
      BY <2>3, <2>5, Zenon DEF Bare, BareInv
    <3>2. (Managed(Says)' <=> Managed(Says)) /\ (Managing' => Managed(Says))
      BY <2>3, <2>5, Zenon DEF Managing, Managed, Claimed
    <3>3. QED
      BY <2>1, <2>3, <2>5, <3>1, <3>2, Zenon DEF BareInv, Sound
  <2>6. QED
    BY <2>4, <2>5, Zenon
<1>12. CASE UNCHANGED vars
  BY <1>12, BareSteady, Zenon DEF vars, Managing, AboutToManage
<1>13. QED
  BY <1>1, <1>2, <1>3, <1>4, <1>5, <1>6, <1>7, <1>8, <1>9, <1>10, <1>11, <1>12, Quietly, Zenon DEF Next

\* A save stays as it is unless it is its turn.
LEMMA NotMyTurn ==
  ASSUME NEW r \in Requests, saves[r].pc = "queued", saves'[r].pc \in {"drifted", "refused"},
         NEW q \in Requests, NEW pc, Turns(q, pc)
  PROVE  q = r /\ pc \in {"drifted", "refused"}
<1>1. "queued" \notin {"drifted", "refused"}
  OBVIOUS
<1>2. QED
  BY <1>1, Zenon DEF Turns

LEMMA LostInCrash ==
  ASSUME TypeOK, Crash, NEW r \in Requests, saves[r].pc = "queued"
  PROVE  saves'[r].pc = "lost"
<1>1. saves[r] \in Save /\ "queued" \in InProgress /\ "lost" \in Pcs
  BY Zenon DEF TypeOK, InProgress, Pcs
<1>2. PICK y : y = [saves[r] EXCEPT !.pc = "lost"]
  OBVIOUS
<1>3. y.pc = "lost"
  BY <1>1, <1>2, SaveMoves, Zenon
<1>4. saves'[r] = y
  BY <1>1, <1>2, Zenon DEF Crash
<1>5. QED
  BY <1>3, <1>4, Zenon

\* On a bare file nobody could begin a save but a claim.
LEMMA RefusedCommit ==
  ASSUME TypeOK, QueuesInv, BareInv, [Next]_vars, NEW r \in Commits
  PROVE  RefusedForCause(r)
<1> SUFFICES ASSUME saves[r].pc = "queued", saves'[r].pc \in {"drifted", "refused"}
             PROVE  ~file.valid \/ file.edits # saves[r].expected
  BY Zenon DEF RefusedForCause
<1>0. r \in Requests /\ "queued" \in Going
  BY DEF Requests, Going
<1>1. /\ "queued" # "idle" /\ "queued" # "built"
      /\ "built" \notin {"drifted", "refused"} /\ "queued" \notin {"drifted", "refused"}
      /\ "failed" \notin {"drifted", "refused"} /\ "replacing" \notin {"drifted", "refused"}
      /\ "reloading" \notin {"drifted", "refused"} /\ "lost" \notin {"drifted", "refused"}
      /\ "queued" \notin {"reloading", "drifted"}
  OBVIOUS
<1>2. ASSUME NEW q \in Requests, SaveReads(q)
      PROVE  ~file.valid \/ file.edits # saves[r].expected
  <2>1. q = r
    BY <1>0, <1>2, Read, NotMyTurn, Zenon
  <2>2. file # Missing /\ file.auth
    BY <1>0, <1>2, Zenon DEF SaveReads, BareInv, Bare
  <2>3. driftedFrom(file, saves[r].expected)
    <3>1. ASSUME ~driftedFrom(file, saves[r].expected)
          PROVE  FALSE
      <4>1. Turns(r, "replacing")
        BY <1>0, <1>2, <2>1, <3>1, AllPcs, GoesTurns, Zenon DEF SaveReads
      <4>2. QED
        BY <1>0, <1>1, <4>1, NotMyTurn, Zenon
    <3>2. QED
      BY <3>1, Zenon
  <2>4. QED
    BY <2>2, <2>3, Zenon DEF driftedFrom
<1>3. ASSUME NEW q \in Requests,
             Capture(q) \/ Submit(q) \/ SaveRejected(q) \/ Replace(q) \/ ReplaceFails(q) \/ ReloadFails(q)
      PROVE  FALSE
  <2>1. \A pc : ~(Turns(q, pc) /\ pc \notin {"drifted", "refused"})
    BY <1>0, NotMyTurn, Zenon
  <2>2. ~Capture(q) /\ ~Submit(q)
    BY <1>1, <2>1, Captured, Submitted, Zenon
  <2>3. ~SaveRejected(q) /\ ~Replace(q)
    BY <1>1, <2>1, Rejected, Replaced, Zenon
  <2>4. ~ReplaceFails(q) /\ ~ReloadFails(q)
    BY <1>1, <2>1, NotReplaced, NotReloaded, Zenon
  <2>5. QED
    BY <1>3, <2>2, <2>3, <2>4, Zenon
<1>4. ASSUME NEW q \in Requests, ReloadApplies(q)
      PROVE  FALSE
  <2>1. Waiting(q)
    BY <1>4, WaitingFirst, Zenon DEF ReloadApplies, QueuesInv
  <2>2. q = r
    BY <1>0, <1>4, Applied, NotMyTurn, Zenon
  <2>3. QED
    BY <1>1, <2>1, <2>2, Zenon DEF Waiting
<1>5. saves'[r] # saves[r]
  BY <1>1, Zenon
<1>6. ASSUME NEW q \in Requests, ReloadReads(q)
      PROVE  FALSE
  BY <1>5, <1>6, Zenon DEF ReloadReads
<1>7. ~Rewrite /\ ~Start /\ ~UNCHANGED vars
  BY <1>5, Zenon DEF Rewrite, Start, vars
<1>8. ASSUME NEW h \in Hands, HandEdit(h) \/ HandDelete(h)
      PROVE  FALSE
  BY <1>5, <1>8, Zenon DEF HandEdit, HandDelete
<1>9. ~Crash
  BY <1>0, <1>1, LostInCrash, Zenon
<1>10. QED
  BY <1>2, <1>3, <1>4, <1>6, <1>7, <1>8, <1>9, Zenon DEF Next

-----------------------------------------------------------------------------
(* The inductive invariant.                                                *)

IInv ==
  /\ TypeOK
  /\ QueuesInv
  /\ KeptInv
  /\ ClaimInv
  /\ OneInv
  /\ AppliedInv
  /\ LinesInv
  /\ BareInv

LEMMA IInvInit == Init => IInv
<1> SUFFICES ASSUME Init PROVE IInv
  OBVIOUS
<1>1. PICK edits \in SUBSET {Owner, Keys}, auth \in BOOLEAN : file = [Seed EXCEPT !.edits = edits, !.auth = auth]
  BY Zenon DEF Init
<1>2. edits \in Texts
  BY DEF Texts, Edits
<1>3. file \in Content /\ file.edits = edits /\ file.valid
  BY <1>1, <1>2, Zenon DEF Seed, Content, Texts
<1>4. file # Missing /\ Says = edits /\ Loads(file)
  BY <1>3, Present, Zenon DEF Says, Loads
<1>5. loader.pc = "idle" /\ "idle" # "rewriting"
  BY Zenon DEF Init
<1>6. "idle" \notin InProgress /\ "idle" \notin Going
  BY DEF InProgress, Going
<1>7. \A r \in Requests : saves[r].pc = "idle"
  BY Zenon DEF Init, Finished
<1>8. TypeOK
  BY TypeInit, Zenon
<1>9. QueuesInv
  <2>1. 1 .. Len(<<>>) = {}
    OBVIOUS
  <2>2. ReplaceInv /\ HeadInv /\ DownInv
    BY <1>5, <1>6, <1>7, PcsDiffer, Zenon DEF Init, ReplaceInv, NoneReplacing, HeadInv, DownInv
  <2>3. ReloadInv
    BY <1>5, <2>1, Zenon DEF Init, ReloadInv
  <2>4. QED
    BY <2>2, <2>3, Zenon DEF QueuesInv
<1>10. KeptInv
  BY <1>3, <1>4, <1>5, <1>7, PcsDiffer, Zenon DEF Init, KeptInv
<1>11. ClaimInv
  BY <1>3, <1>4, <1>5, <1>7, PcsDiffer, Zenon DEF Init, ClaimInv, Held, AboutToHold
<1>12. OneInv
  <2>1. Keys \notin Claims
    BY EditsAssumption, Zenon DEF Claims, Requests
  <2>2. \A x \in edits \cap Claims : x = Owner
    BY <2>1, Zenon
  <2>3. One(edits)
    BY <2>2, Zenon DEF One
  <2>4. running = edits
    BY <1>3, Zenon DEF Init
  <2>5. QED
    BY <1>4, <1>5, <1>6, <1>7, <2>3, <2>4, Zenon DEF OneInv
<1>13. AppliedInv
  BY <1>4, <1>5, Zenon DEF Init, AppliedInv
<1>14. LinesInv
  <2>1. ToSave = {} /\ ToReload = {}
    BY <1>7, LineOf, Zenon DEF ToSave, ToReload, Waiting
  <2>2. QED
    BY <2>1, HoldsNone, Zenon DEF Init, LinesInv
<1>15. BareInv
  <2>1. ~file.plain
    BY <1>1, <1>2, Zenon DEF Seed, Texts
  <2>2. Managed(file.edits) => file.auth
    BY Zenon DEF Init
  <2>3. running = file.edits /\ Says = file.edits
    BY <1>4, Zenon DEF Init, Says
  <2>4. \A r \in Commits : saves[r].pc \notin Going
    BY <1>6, <1>7, Zenon DEF Requests
  <2>5. QED
    BY <1>5, <2>1, <2>2, <2>3, <2>4, Zenon DEF BareInv, Bare, Sound, Managing, AboutToManage
<1>16. QED
  BY <1>8, <1>9, <1>10, <1>11, <1>12, <1>13, <1>14, <1>15, Zenon DEF IInv

LEMMA IInvStep == IInv /\ [Next]_vars => IInv'
<1> SUFFICES ASSUME IInv, [Next]_vars PROVE IInv'
  OBVIOUS
<1>1. TypeOK' /\ QueuesInv'
  BY TypeStep, QueuesStep, Zenon DEF IInv
<1>2. KeptInv' /\ ClaimInv'
  BY KeptStep, ClaimStep, Zenon DEF IInv
<1>3. OneInv' /\ AppliedInv'
  BY OneStep, AppliedStep, Zenon DEF IInv
<1>4. LinesInv'
  BY LinesStep, Zenon DEF IInv
<1>5. BareInv'
  BY BareStep, Zenon DEF IInv
<1>6. QED
  BY <1>1, <1>2, <1>3, <1>4, <1>5, Zenon DEF IInv

LEMMA Invariant == Spec => []IInv
BY IInvInit, IInvStep, PTL DEF Spec

(* However saves, reloads, hand edits and crashes interleave, one save and *)
(* the loader at most wait to replace the file (config/save.ts).           *)
THEOREM TypeCorrect == Spec => []TypeOK
<1>1. IInv => TypeOK
  BY Zenon DEF IInv
<1>2. QED
  BY <1>1, Invariant, PTL

(* An edit that reached the file stays in it, unless a text computed from  *)
(* an older reading was already waiting to replace the file.               *)
THEOREM NothingIsLost == Spec => []NothingOverwritten
<1>1. IInv => NothingOverwritten
  BY Zenon DEF IInv, KeptInv, Says, NothingOverwritten
<1>2. QED
  BY <1>1, Invariant, PTL

(* Of any number of interleaved claims one reaches the file.               *)
THEOREM OneClaimsIt == Spec => []ClaimedOnce
<1>1. IInv => ClaimedOnce
  BY OneClaim, Zenon DEF IInv
<1>2. QED
  BY <1>1, Invariant, PTL

(* No save, reload or deletion of the file unclaims a running instance.    *)
THEOREM ClaimsStand == Spec => StaysClaimed
<1> DEFINE Stands == running # Down /\ running' # Down /\ Claimed(running) => Claimed(running')
<1>1. IInv /\ [Next]_vars => [Stands]_vars
  BY ClaimKeeps, Zenon DEF IInv
<1>2. QED
  BY <1>1, Invariant, PTL DEF StaysClaimed, Spec

(* Once every save has been answered, what is running is what the file     *)
(* says, if nobody has edited it since.                                    *)
THEOREM AppliesWhatItSaved == Spec => []AppliedAsSaved
<1>1. IInv => AppliedAsSaved
  BY RunningAsSaved, Zenon DEF IInv
<1>2. QED
  BY <1>1, Invariant, PTL

(* Every save under way waits in the queue that its next step is taken     *)
(* from, and at the head of each queue is somebody whose move it is: no    *)
(* save is stranded by the failure, the refusal or the crash of another.   *)
THEOREM SavesWaitTheirTurn == Spec => []NobodyWaitsInVain
<1>1. IInv => NobodyWaitsInVain
  BY NobodyWaits, Zenon DEF IInv
<1>2. QED
  BY <1>1, Invariant, PTL

(* A save other than a claim is refused only when the file says something  *)
(* else than what it was built on, as config/save.ts has it.  What the run *)
(* shows of claims (MCConfigDrift) cannot happen to these: a file that has *)
(* no auth block has nobody who could begin one.                           *)
THEOREM CommitsAreRefusedForCause == Spec => CommitRefusedForCause
<1> DEFINE ForCause == \A r \in Commits : RefusedForCause(r)
<1>1. IInv /\ [Next]_vars => [ForCause]_vars
  BY RefusedCommit, Zenon DEF IInv
<1>2. QED
  BY <1>1, Invariant, PTL DEF CommitRefusedForCause, Spec

=============================================================================
