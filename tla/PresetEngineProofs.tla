------------------------- MODULE PresetEngineProofs -------------------------
(***************************************************************************)
(* Proofs about PresetEngine, for any nodes, calls, requests, keywords and *)
(* bounds: every write is whole, and a node that writes one call at a time *)
(* never serves an engine from before its own write as up to date. There   *)
(* is one lemma per part of the inductive invariant, with one step per     *)
(* action.                                                                 *)
(***************************************************************************)
EXTENDS PresetEngine, TLAPS

USE DEF storeVars, callVars, msgVars, v2Vars, localVars, reloadVars, Fault, Return

(* Initially the collection holds one version, no call was made and every  *)
(* engine is about to be loaded.                                           *)
LEMMA PresetInit ==
  ASSUME Init
  PROVE  PresetInv
<1> USE V2Assumption, PresetAssumption DEF Init, V2Init
<1>1. line \in Seq(SUBSET Keyword) /\ Len(line) = 1
  OBVIOUS
<1>2. TypeOK
  BY <1>1 DEF TypeOK
<1>3. CallsMade /\ PlansExact /\ VersionsWritten
  BY <1>1 DEF CallsMade, PlansExact, VersionsWritten
<1>4. OneCall /\ InstallsForward /\ EnginesForward
  BY DEF OneCall, InstallsForward, EnginesForward, Announced, Active
<1> QED BY <1>2, <1>3, <1>4 DEF PresetInv, WriteInv

(* A plan is a set of keywords. *)
LEMMA PlanType ==
  ASSUME NEW r \in Requests, NEW words \in SUBSET Keyword
  PROVE  Plan(r, words) \in SUBSET Keyword
<1>1. r.words \in SUBSET Keyword
  BY V2Assumption DEF RequestType
<1> QED BY <1>1 DEF Plan

(* What is stored is a set of keywords. *)
LEMMA StoredType ==
  ASSUME TypeOK, VersionsWritten
  PROVE  Stored \in SUBSET Keyword
BY DEF TypeOK, VersionsWritten, Stored

(* Steps keep every variable in its type. *)
LEMMA TypeStep ==
  ASSUME TypeOK, CallsMade, VersionsWritten, [Next]_vars
  PROVE  TypeOK'
<1> USE V2Assumption, PresetAssumption DEF TypeOK
<1>1. ASSUME NEW c \in Call, NEW r \in Requests, Start(c, r),
             UNCHANGED <<localVars, reloadVars, poll>>
      PROVE  TypeOK'
  BY <1>1 DEF Start
<1>2. ASSUME NEW c \in Call, ReadUnchanged(c),
             UNCHANGED <<localVars, reloadVars, poll>>
      PROVE  TypeOK'
  BY <1>2 DEF ReadUnchanged
<1>3. ASSUME NEW c \in Call, ReadSnapshot(c),
             UNCHANGED <<localVars, reloadVars, poll>>
      PROVE  TypeOK'
  <2>1. Plan(request[c], Stored) \in SUBSET Keyword
    BY <1>3, PlanType, StoredType DEF ReadSnapshot, CallsMade
  <2> QED BY <1>3, <2>1 DEF ReadSnapshot
<1>4. ASSUME NEW c \in Call, NEW then, RunScript(c, then),
             then = IF request[c].node \in Presets THEN "committed" ELSE "publishing",
             UNCHANGED <<localVars, reloadVars, poll>>
      PROVE  TypeOK'
  BY <1>4 DEF RunScript
<1>5. ASSUME NEW c \in Call, Conflict(c),
             UNCHANGED <<localVars, reloadVars, poll>>
      PROVE  TypeOK'
  BY <1>5 DEF Conflict
<1>6. ASSUME NEW c \in Call, LastConflict(c),
             UNCHANGED <<localVars, reloadVars, poll>>
      PROVE  TypeOK'
  BY <1>6 DEF LastConflict
<1>7. ASSUME NEW c \in Call, ReplyLostFails(c),
             UNCHANGED <<localVars, reloadVars, poll>>
      PROVE  TypeOK'
  BY <1>7 DEF ReplyLostFails, ReplyLost
<1>8. ASSUME NEW c \in Call, ReplyLostResends(c),
             UNCHANGED <<localVars, reloadVars, poll>>
      PROVE  TypeOK'
  BY <1>8 DEF ReplyLostResends, ReplyLost
<1>9. ASSUME NEW c \in Call, WriteFails(c),
             UNCHANGED <<localVars, reloadVars, poll>>
      PROVE  TypeOK'
  BY <1>9 DEF WriteFails
<1>10. ASSUME NEW c \in Call, Publish(c, {n \in Presets : subscribed[n]}),
              UNCHANGED <<localVars, reloadVars, poll>>
       PROVE  TypeOK'
  BY <1>10 DEF Publish
<1>11. ASSUME NEW c \in Call, ApplyBegin(c)
       PROVE  TypeOK'
  BY <1>11 DEF ApplyBegin
<1>12. ASSUME NEW c \in Call, ApplyInstall(c)
       PROVE  TypeOK'
  BY <1>12 DEF ApplyInstall
<1>13. ASSUME NEW c \in Call, ApplySkips(c)
       PROVE  TypeOK'
  BY <1>13 DEF ApplySkips
<1>14. ASSUME NEW n \in Presets, NEW c \in Call, Invalidate(n, c)
       PROVE  TypeOK'
  BY <1>14 DEF Invalidate
<1>15. ASSUME NEW n \in Presets, PollRead(n)
       PROVE  TypeOK'
  BY <1>15 DEF PollRead
<1>16. ASSUME NEW n \in Presets, PollApply(n)
       PROVE  TypeOK'
  BY <1>16 DEF PollApply
<1>17. ASSUME NEW n \in Presets, ReloadStart(n)
       PROVE  TypeOK'
  BY <1>17 DEF ReloadStart
<1>18. ASSUME NEW n \in Presets, Subscribe(n)
       PROVE  TypeOK'
  BY <1>18 DEF Subscribe
<1>19. ASSUME NEW n \in Presets, ReloadBegin(n)
       PROVE  TypeOK'
  BY <1>19 DEF ReloadBegin
<1>20. ASSUME NEW n \in Presets, ReloadRead(n)
       PROVE  TypeOK'
  BY <1>20 DEF ReloadRead
<1>21. ASSUME NEW n \in Presets, ReloadInstall(n)
       PROVE  TypeOK'
  <2>1. line[loaded[n]] \in SUBSET Keyword
    BY <1>21 DEF ReloadInstall, VersionsWritten
  <2> QED BY <1>21, <2>1 DEF ReloadInstall
<1>22. ASSUME NEW n \in Presets, ReloadAgain(n)
       PROVE  TypeOK'
  BY <1>22 DEF ReloadAgain
<1>23. ASSUME NEW n \in Presets, ReloadFails(n)
       PROVE  TypeOK'
  BY <1>23 DEF ReloadFails
<1>24. CASE UNCHANGED vars
  BY <1>24 DEF vars
<1> QED
  BY <1>1, <1>2, <1>3, <1>4, <1>5, <1>6, <1>7, <1>8, <1>9,
     <1>10, <1>11, <1>12, <1>13, <1>14, <1>15, <1>16, <1>17, <1>18, <1>19, <1>20, <1>21, <1>22, <1>23, <1>24
  DEF Next, Write, Reload, Poll

(* A call keeps its request until it returns. *)
LEMMA CallsStep ==
  ASSUME TypeOK, CallsMade, [Next]_vars
  PROVE  CallsMade'
<1> USE DEF TypeOK, CallsMade
<1>1. ASSUME NEW c \in Call, NEW r \in Requests, Start(c, r),
             UNCHANGED <<localVars, reloadVars, poll>>
      PROVE  CallsMade'
  BY <1>1 DEF Start
<1>2. ASSUME NEW c \in Call, ReadUnchanged(c),
             UNCHANGED <<localVars, reloadVars, poll>>
      PROVE  CallsMade'
  BY <1>2 DEF ReadUnchanged
<1>3. ASSUME NEW c \in Call, ReadSnapshot(c),
             UNCHANGED <<localVars, reloadVars, poll>>
      PROVE  CallsMade'
  BY <1>3 DEF ReadSnapshot
<1>4. ASSUME NEW c \in Call, NEW then, RunScript(c, then),
             then = IF request[c].node \in Presets THEN "committed" ELSE "publishing",
             UNCHANGED <<localVars, reloadVars, poll>>
      PROVE  CallsMade'
  BY <1>4 DEF RunScript
<1>5. ASSUME NEW c \in Call, Conflict(c),
             UNCHANGED <<localVars, reloadVars, poll>>
      PROVE  CallsMade'
  BY <1>5 DEF Conflict
<1>6. ASSUME NEW c \in Call, LastConflict(c),
             UNCHANGED <<localVars, reloadVars, poll>>
      PROVE  CallsMade'
  BY <1>6 DEF LastConflict
<1>7. ASSUME NEW c \in Call, ReplyLostFails(c),
             UNCHANGED <<localVars, reloadVars, poll>>
      PROVE  CallsMade'
  BY <1>7 DEF ReplyLostFails, ReplyLost
<1>8. ASSUME NEW c \in Call, ReplyLostResends(c),
             UNCHANGED <<localVars, reloadVars, poll>>
      PROVE  CallsMade'
  BY <1>8 DEF ReplyLostResends, ReplyLost
<1>9. ASSUME NEW c \in Call, WriteFails(c),
             UNCHANGED <<localVars, reloadVars, poll>>
      PROVE  CallsMade'
  BY <1>9 DEF WriteFails
<1>10. ASSUME NEW c \in Call, Publish(c, {n \in Presets : subscribed[n]}),
              UNCHANGED <<localVars, reloadVars, poll>>
       PROVE  CallsMade'
  BY <1>10 DEF Publish
<1>11. ASSUME NEW c \in Call, ApplyBegin(c)
       PROVE  CallsMade'
  BY <1>11 DEF ApplyBegin
<1>12. ASSUME NEW c \in Call, ApplyInstall(c)
       PROVE  CallsMade'
  BY <1>12 DEF ApplyInstall
<1>13. ASSUME NEW c \in Call, ApplySkips(c)
       PROVE  CallsMade'
  BY <1>13 DEF ApplySkips
<1>14. ASSUME NEW n \in Presets, NEW c \in Call, Invalidate(n, c)
       PROVE  CallsMade'
  BY <1>14 DEF Invalidate
<1>15. ASSUME NEW n \in Presets, PollRead(n)
       PROVE  CallsMade'
  BY <1>15 DEF PollRead
<1>16. ASSUME NEW n \in Presets, PollApply(n)
       PROVE  CallsMade'
  BY <1>16 DEF PollApply
<1>17. ASSUME NEW n \in Presets, ReloadStart(n)
       PROVE  CallsMade'
  BY <1>17 DEF ReloadStart
<1>18. ASSUME NEW n \in Presets, Subscribe(n)
       PROVE  CallsMade'
  BY <1>18 DEF Subscribe
<1>19. ASSUME NEW n \in Presets, ReloadBegin(n)
       PROVE  CallsMade'
  BY <1>19 DEF ReloadBegin
<1>20. ASSUME NEW n \in Presets, ReloadRead(n)
       PROVE  CallsMade'
  BY <1>20 DEF ReloadRead
<1>21. ASSUME NEW n \in Presets, ReloadInstall(n)
       PROVE  CallsMade'
  BY <1>21 DEF ReloadInstall
<1>22. ASSUME NEW n \in Presets, ReloadAgain(n)
       PROVE  CallsMade'
  BY <1>22 DEF ReloadAgain
<1>23. ASSUME NEW n \in Presets, ReloadFails(n)
       PROVE  CallsMade'
  BY <1>23 DEF ReloadFails
<1>24. CASE UNCHANGED vars
  BY <1>24 DEF vars
<1> QED
  BY <1>1, <1>2, <1>3, <1>4, <1>5, <1>6, <1>7, <1>8, <1>9,
     <1>10, <1>11, <1>12, <1>13, <1>14, <1>15, <1>16, <1>17, <1>18, <1>19, <1>20, <1>21, <1>22, <1>23, <1>24
  DEF Next, Write, Reload, Poll

(* Versions keep their keywords, so a plan stays the plan of its snapshot. *)
LEMMA PlansStep ==
  ASSUME TypeOK, CallsMade, PlansExact, VersionsWritten, [Next]_vars
  PROVE  PlansExact'
<1> USE DEF TypeOK, PlansExact, VersionsWritten
<1>1. ASSUME NEW c \in Call, NEW r \in Requests, Start(c, r),
             UNCHANGED <<localVars, reloadVars, poll>>
      PROVE  PlansExact'
  BY <1>1 DEF Start
<1>2. ASSUME NEW c \in Call, ReadUnchanged(c),
             UNCHANGED <<localVars, reloadVars, poll>>
      PROVE  PlansExact'
  BY <1>2 DEF ReadUnchanged
<1>3. ASSUME NEW c \in Call, ReadSnapshot(c),
             UNCHANGED <<localVars, reloadVars, poll>>
      PROVE  PlansExact'
  <2>1. request[c].mode = "flush" => Plan(request[c], Stored) = {}
    BY DEF Plan
  <2>2. Stored = line[Len(line)] /\ Len(line) \in 1..Len(line)
    BY DEF Stored
  <2> QED BY <1>3, <2>1, <2>2 DEF ReadSnapshot
<1>4. ASSUME NEW c \in Call, NEW then, RunScript(c, then),
             then = IF request[c].node \in Presets THEN "committed" ELSE "publishing",
             UNCHANGED <<localVars, reloadVars, poll>>
      PROVE  PlansExact'
  BY <1>4 DEF RunScript
<1>5. ASSUME NEW c \in Call, Conflict(c),
             UNCHANGED <<localVars, reloadVars, poll>>
      PROVE  PlansExact'
  BY <1>5 DEF Conflict
<1>6. ASSUME NEW c \in Call, LastConflict(c),
             UNCHANGED <<localVars, reloadVars, poll>>
      PROVE  PlansExact'
  BY <1>6 DEF LastConflict
<1>7. ASSUME NEW c \in Call, ReplyLostFails(c),
             UNCHANGED <<localVars, reloadVars, poll>>
      PROVE  PlansExact'
  BY <1>7 DEF ReplyLostFails, ReplyLost
<1>8. ASSUME NEW c \in Call, ReplyLostResends(c),
             UNCHANGED <<localVars, reloadVars, poll>>
      PROVE  PlansExact'
  BY <1>8 DEF ReplyLostResends, ReplyLost
<1>9. ASSUME NEW c \in Call, WriteFails(c),
             UNCHANGED <<localVars, reloadVars, poll>>
      PROVE  PlansExact'
  BY <1>9 DEF WriteFails
<1>10. ASSUME NEW c \in Call, Publish(c, {n \in Presets : subscribed[n]}),
              UNCHANGED <<localVars, reloadVars, poll>>
       PROVE  PlansExact'
  BY <1>10 DEF Publish
<1>11. ASSUME NEW c \in Call, ApplyBegin(c)
       PROVE  PlansExact'
  BY <1>11 DEF ApplyBegin
<1>12. ASSUME NEW c \in Call, ApplyInstall(c)
       PROVE  PlansExact'
  BY <1>12 DEF ApplyInstall
<1>13. ASSUME NEW c \in Call, ApplySkips(c)
       PROVE  PlansExact'
  BY <1>13 DEF ApplySkips
<1>14. ASSUME NEW n \in Presets, NEW c \in Call, Invalidate(n, c)
       PROVE  PlansExact'
  BY <1>14 DEF Invalidate
<1>15. ASSUME NEW n \in Presets, PollRead(n)
       PROVE  PlansExact'
  BY <1>15 DEF PollRead
<1>16. ASSUME NEW n \in Presets, PollApply(n)
       PROVE  PlansExact'
  BY <1>16 DEF PollApply
<1>17. ASSUME NEW n \in Presets, ReloadStart(n)
       PROVE  PlansExact'
  BY <1>17 DEF ReloadStart
<1>18. ASSUME NEW n \in Presets, Subscribe(n)
       PROVE  PlansExact'
  BY <1>18 DEF Subscribe
<1>19. ASSUME NEW n \in Presets, ReloadBegin(n)
       PROVE  PlansExact'
  BY <1>19 DEF ReloadBegin
<1>20. ASSUME NEW n \in Presets, ReloadRead(n)
       PROVE  PlansExact'
  BY <1>20 DEF ReloadRead
<1>21. ASSUME NEW n \in Presets, ReloadInstall(n)
       PROVE  PlansExact'
  BY <1>21 DEF ReloadInstall
<1>22. ASSUME NEW n \in Presets, ReloadAgain(n)
       PROVE  PlansExact'
  BY <1>22 DEF ReloadAgain
<1>23. ASSUME NEW n \in Presets, ReloadFails(n)
       PROVE  PlansExact'
  BY <1>23 DEF ReloadFails
<1>24. CASE UNCHANGED vars
  BY <1>24 DEF vars
<1> QED
  BY <1>1, <1>2, <1>3, <1>4, <1>5, <1>6, <1>7, <1>8, <1>9,
     <1>10, <1>11, <1>12, <1>13, <1>14, <1>15, <1>16, <1>17, <1>18, <1>19, <1>20, <1>21, <1>22, <1>23, <1>24
  DEF Next, Write, Reload, Poll

(* The line of versions only grows. *)
LEMMA VersionsStep ==
  ASSUME TypeOK, VersionsWritten, [Next]_vars
  PROVE  VersionsWritten'
<1> USE DEF TypeOK, VersionsWritten
<1>1. ASSUME NEW c \in Call, NEW r \in Requests, Start(c, r),
             UNCHANGED <<localVars, reloadVars, poll>>
      PROVE  VersionsWritten'
  BY <1>1 DEF Start
<1>2. ASSUME NEW c \in Call, ReadUnchanged(c),
             UNCHANGED <<localVars, reloadVars, poll>>
      PROVE  VersionsWritten'
  BY <1>2 DEF ReadUnchanged
<1>3. ASSUME NEW c \in Call, ReadSnapshot(c),
             UNCHANGED <<localVars, reloadVars, poll>>
      PROVE  VersionsWritten'
  BY <1>3 DEF ReadSnapshot
<1>4. ASSUME NEW c \in Call, NEW then, RunScript(c, then),
             then = IF request[c].node \in Presets THEN "committed" ELSE "publishing",
             UNCHANGED <<localVars, reloadVars, poll>>
      PROVE  VersionsWritten'
  BY <1>4 DEF RunScript
<1>5. ASSUME NEW c \in Call, Conflict(c),
             UNCHANGED <<localVars, reloadVars, poll>>
      PROVE  VersionsWritten'
  BY <1>5 DEF Conflict
<1>6. ASSUME NEW c \in Call, LastConflict(c),
             UNCHANGED <<localVars, reloadVars, poll>>
      PROVE  VersionsWritten'
  BY <1>6 DEF LastConflict
<1>7. ASSUME NEW c \in Call, ReplyLostFails(c),
             UNCHANGED <<localVars, reloadVars, poll>>
      PROVE  VersionsWritten'
  BY <1>7 DEF ReplyLostFails, ReplyLost
<1>8. ASSUME NEW c \in Call, ReplyLostResends(c),
             UNCHANGED <<localVars, reloadVars, poll>>
      PROVE  VersionsWritten'
  BY <1>8 DEF ReplyLostResends, ReplyLost
<1>9. ASSUME NEW c \in Call, WriteFails(c),
             UNCHANGED <<localVars, reloadVars, poll>>
      PROVE  VersionsWritten'
  BY <1>9 DEF WriteFails
<1>10. ASSUME NEW c \in Call, Publish(c, {n \in Presets : subscribed[n]}),
              UNCHANGED <<localVars, reloadVars, poll>>
       PROVE  VersionsWritten'
  BY <1>10 DEF Publish
<1>11. ASSUME NEW c \in Call, ApplyBegin(c)
       PROVE  VersionsWritten'
  BY <1>11 DEF ApplyBegin
<1>12. ASSUME NEW c \in Call, ApplyInstall(c)
       PROVE  VersionsWritten'
  BY <1>12 DEF ApplyInstall
<1>13. ASSUME NEW c \in Call, ApplySkips(c)
       PROVE  VersionsWritten'
  BY <1>13 DEF ApplySkips
<1>14. ASSUME NEW n \in Presets, NEW c \in Call, Invalidate(n, c)
       PROVE  VersionsWritten'
  BY <1>14 DEF Invalidate
<1>15. ASSUME NEW n \in Presets, PollRead(n)
       PROVE  VersionsWritten'
  BY <1>15 DEF PollRead
<1>16. ASSUME NEW n \in Presets, PollApply(n)
       PROVE  VersionsWritten'
  BY <1>16 DEF PollApply
<1>17. ASSUME NEW n \in Presets, ReloadStart(n)
       PROVE  VersionsWritten'
  BY <1>17 DEF ReloadStart
<1>18. ASSUME NEW n \in Presets, Subscribe(n)
       PROVE  VersionsWritten'
  BY <1>18 DEF Subscribe
<1>19. ASSUME NEW n \in Presets, ReloadBegin(n)
       PROVE  VersionsWritten'
  BY <1>19 DEF ReloadBegin
<1>20. ASSUME NEW n \in Presets, ReloadRead(n)
       PROVE  VersionsWritten'
  BY <1>20 DEF ReloadRead
<1>21. ASSUME NEW n \in Presets, ReloadInstall(n)
       PROVE  VersionsWritten'
  BY <1>21 DEF ReloadInstall
<1>22. ASSUME NEW n \in Presets, ReloadAgain(n)
       PROVE  VersionsWritten'
  BY <1>22 DEF ReloadAgain
<1>23. ASSUME NEW n \in Presets, ReloadFails(n)
       PROVE  VersionsWritten'
  BY <1>23 DEF ReloadFails
<1>24. CASE UNCHANGED vars
  BY <1>24 DEF vars
<1> QED
  BY <1>1, <1>2, <1>3, <1>4, <1>5, <1>6, <1>7, <1>8, <1>9,
     <1>10, <1>11, <1>12, <1>13, <1>14, <1>15, <1>16, <1>17, <1>18, <1>19, <1>20, <1>21, <1>22, <1>23, <1>24
  DEF Next, Write, Reload, Poll

(* A serial application starts no call beside another on the same node. *)
LEMMA OneCallStep ==
  ASSUME Serial, TypeOK, CallsMade, OneCall, [Next]_vars
  PROVE  OneCall'
<1> USE DEF TypeOK, CallsMade, OneCall, Active
<1>1. ASSUME NEW c \in Call, NEW r \in Requests, Start(c, r),
             UNCHANGED <<localVars, reloadVars, poll>>
      PROVE  OneCall'
  BY <1>1 DEF Start
<1>2. ASSUME NEW c \in Call, ReadUnchanged(c),
             UNCHANGED <<localVars, reloadVars, poll>>
      PROVE  OneCall'
  BY <1>2 DEF ReadUnchanged
<1>3. ASSUME NEW c \in Call, ReadSnapshot(c),
             UNCHANGED <<localVars, reloadVars, poll>>
      PROVE  OneCall'
  BY <1>3 DEF ReadSnapshot
<1>4. ASSUME NEW c \in Call, NEW then, RunScript(c, then),
             then = IF request[c].node \in Presets THEN "committed" ELSE "publishing",
             UNCHANGED <<localVars, reloadVars, poll>>
      PROVE  OneCall'
  BY <1>4 DEF RunScript
<1>5. ASSUME NEW c \in Call, Conflict(c),
             UNCHANGED <<localVars, reloadVars, poll>>
      PROVE  OneCall'
  BY <1>5 DEF Conflict
<1>6. ASSUME NEW c \in Call, LastConflict(c),
             UNCHANGED <<localVars, reloadVars, poll>>
      PROVE  OneCall'
  BY <1>6 DEF LastConflict
<1>7. ASSUME NEW c \in Call, ReplyLostFails(c),
             UNCHANGED <<localVars, reloadVars, poll>>
      PROVE  OneCall'
  BY <1>7 DEF ReplyLostFails, ReplyLost
<1>8. ASSUME NEW c \in Call, ReplyLostResends(c),
             UNCHANGED <<localVars, reloadVars, poll>>
      PROVE  OneCall'
  BY <1>8 DEF ReplyLostResends, ReplyLost
<1>9. ASSUME NEW c \in Call, WriteFails(c),
             UNCHANGED <<localVars, reloadVars, poll>>
      PROVE  OneCall'
  BY <1>9 DEF WriteFails
<1>10. ASSUME NEW c \in Call, Publish(c, {n \in Presets : subscribed[n]}),
              UNCHANGED <<localVars, reloadVars, poll>>
       PROVE  OneCall'
  BY <1>10 DEF Publish
<1>11. ASSUME NEW c \in Call, ApplyBegin(c)
       PROVE  OneCall'
  BY <1>11 DEF ApplyBegin
<1>12. ASSUME NEW c \in Call, ApplyInstall(c)
       PROVE  OneCall'
  BY <1>12 DEF ApplyInstall
<1>13. ASSUME NEW c \in Call, ApplySkips(c)
       PROVE  OneCall'
  BY <1>13 DEF ApplySkips
<1>14. ASSUME NEW n \in Presets, NEW c \in Call, Invalidate(n, c)
       PROVE  OneCall'
  BY <1>14 DEF Invalidate
<1>15. ASSUME NEW n \in Presets, PollRead(n)
       PROVE  OneCall'
  BY <1>15 DEF PollRead
<1>16. ASSUME NEW n \in Presets, PollApply(n)
       PROVE  OneCall'
  BY <1>16 DEF PollApply
<1>17. ASSUME NEW n \in Presets, ReloadStart(n)
       PROVE  OneCall'
  BY <1>17 DEF ReloadStart
<1>18. ASSUME NEW n \in Presets, Subscribe(n)
       PROVE  OneCall'
  BY <1>18 DEF Subscribe
<1>19. ASSUME NEW n \in Presets, ReloadBegin(n)
       PROVE  OneCall'
  BY <1>19 DEF ReloadBegin
<1>20. ASSUME NEW n \in Presets, ReloadRead(n)
       PROVE  OneCall'
  BY <1>20 DEF ReloadRead
<1>21. ASSUME NEW n \in Presets, ReloadInstall(n)
       PROVE  OneCall'
  BY <1>21 DEF ReloadInstall
<1>22. ASSUME NEW n \in Presets, ReloadAgain(n)
       PROVE  OneCall'
  BY <1>22 DEF ReloadAgain
<1>23. ASSUME NEW n \in Presets, ReloadFails(n)
       PROVE  OneCall'
  BY <1>23 DEF ReloadFails
<1>24. CASE UNCHANGED vars
  BY <1>24 DEF vars
<1> QED
  BY <1>1, <1>2, <1>3, <1>4, <1>5, <1>6, <1>7, <1>8, <1>9,
     <1>10, <1>11, <1>12, <1>13, <1>14, <1>15, <1>16, <1>17, <1>18, <1>19, <1>20, <1>21, <1>22, <1>23, <1>24
  DEF Next, Write, Reload, Poll

(* A commit is newer than every commit that returned before it. *)
LEMMA InstallsStep ==
  ASSUME TypeOK, CallsMade, VersionsWritten, OneCall, InstallsForward, [Next]_vars
  PROVE  InstallsForward'
<1> USE DEF TypeOK, CallsMade, VersionsWritten, OneCall, Active, InstallsForward
<1>1. ASSUME NEW c \in Call, NEW r \in Requests, Start(c, r),
             UNCHANGED <<localVars, reloadVars, poll>>
      PROVE  InstallsForward'
  BY <1>1 DEF Start
<1>2. ASSUME NEW c \in Call, ReadUnchanged(c),
             UNCHANGED <<localVars, reloadVars, poll>>
      PROVE  InstallsForward'
  BY <1>2 DEF ReadUnchanged
<1>3. ASSUME NEW c \in Call, ReadSnapshot(c),
             UNCHANGED <<localVars, reloadVars, poll>>
      PROVE  InstallsForward'
  BY <1>3 DEF ReadSnapshot
<1>4. ASSUME NEW c \in Call, NEW then, RunScript(c, then),
             then = IF request[c].node \in Presets THEN "committed" ELSE "publishing",
             UNCHANGED <<localVars, reloadVars, poll>>
      PROVE  InstallsForward'
  BY <1>4 DEF RunScript
<1>5. ASSUME NEW c \in Call, Conflict(c),
             UNCHANGED <<localVars, reloadVars, poll>>
      PROVE  InstallsForward'
  BY <1>5 DEF Conflict
<1>6. ASSUME NEW c \in Call, LastConflict(c),
             UNCHANGED <<localVars, reloadVars, poll>>
      PROVE  InstallsForward'
  BY <1>6 DEF LastConflict
<1>7. ASSUME NEW c \in Call, ReplyLostFails(c),
             UNCHANGED <<localVars, reloadVars, poll>>
      PROVE  InstallsForward'
  BY <1>7 DEF ReplyLostFails, ReplyLost
<1>8. ASSUME NEW c \in Call, ReplyLostResends(c),
             UNCHANGED <<localVars, reloadVars, poll>>
      PROVE  InstallsForward'
  BY <1>8 DEF ReplyLostResends, ReplyLost
<1>9. ASSUME NEW c \in Call, WriteFails(c),
             UNCHANGED <<localVars, reloadVars, poll>>
      PROVE  InstallsForward'
  BY <1>9 DEF WriteFails
<1>10. ASSUME NEW c \in Call, Publish(c, {n \in Presets : subscribed[n]}),
              UNCHANGED <<localVars, reloadVars, poll>>
       PROVE  InstallsForward'
  BY <1>10 DEF Publish
<1>11. ASSUME NEW c \in Call, ApplyBegin(c)
       PROVE  InstallsForward'
  BY <1>11 DEF ApplyBegin
<1>12. ASSUME NEW c \in Call, ApplyInstall(c)
       PROVE  InstallsForward'
  BY <1>12 DEF ApplyInstall
<1>13. ASSUME NEW c \in Call, ApplySkips(c)
       PROVE  InstallsForward'
  BY <1>13 DEF ApplySkips
<1>14. ASSUME NEW n \in Presets, NEW c \in Call, Invalidate(n, c)
       PROVE  InstallsForward'
  BY <1>14 DEF Invalidate
<1>15. ASSUME NEW n \in Presets, PollRead(n)
       PROVE  InstallsForward'
  BY <1>15 DEF PollRead
<1>16. ASSUME NEW n \in Presets, PollApply(n)
       PROVE  InstallsForward'
  BY <1>16 DEF PollApply
<1>17. ASSUME NEW n \in Presets, ReloadStart(n)
       PROVE  InstallsForward'
  BY <1>17 DEF ReloadStart
<1>18. ASSUME NEW n \in Presets, Subscribe(n)
       PROVE  InstallsForward'
  BY <1>18 DEF Subscribe
<1>19. ASSUME NEW n \in Presets, ReloadBegin(n)
       PROVE  InstallsForward'
  BY <1>19 DEF ReloadBegin
<1>20. ASSUME NEW n \in Presets, ReloadRead(n)
       PROVE  InstallsForward'
  BY <1>20 DEF ReloadRead
<1>21. ASSUME NEW n \in Presets, ReloadInstall(n)
       PROVE  InstallsForward'
  BY <1>21 DEF ReloadInstall
<1>22. ASSUME NEW n \in Presets, ReloadAgain(n)
       PROVE  InstallsForward'
  BY <1>22 DEF ReloadAgain
<1>23. ASSUME NEW n \in Presets, ReloadFails(n)
       PROVE  InstallsForward'
  BY <1>23 DEF ReloadFails
<1>24. CASE UNCHANGED vars
  BY <1>24 DEF vars
<1> QED
  BY <1>1, <1>2, <1>3, <1>4, <1>5, <1>6, <1>7, <1>8, <1>9,
     <1>10, <1>11, <1>12, <1>13, <1>14, <1>15, <1>16, <1>17, <1>18, <1>19, <1>20, <1>21, <1>22, <1>23, <1>24
  DEF Next, Write, Reload, Poll

(* An engine is replaced by a newer one, or by an older one that is marked; *)
(* a write that is announced stops the reload that read before it.          *)
LEMMA EnginesStep ==
  ASSUME TypeOK, CallsMade, VersionsWritten, OneCall,
         InstallsForward, EnginesForward, [Next]_vars
  PROVE  EnginesForward'
<1> USE PresetAssumption DEF TypeOK, CallsMade, VersionsWritten, EnginesForward, Announced
<1>1. ASSUME NEW c \in Call, NEW r \in Requests, Start(c, r),
             UNCHANGED <<localVars, reloadVars, poll>>
      PROVE  EnginesForward'
  BY <1>1 DEF Start
<1>2. ASSUME NEW c \in Call, ReadUnchanged(c),
             UNCHANGED <<localVars, reloadVars, poll>>
      PROVE  EnginesForward'
  BY <1>2 DEF ReadUnchanged
<1>3. ASSUME NEW c \in Call, ReadSnapshot(c),
             UNCHANGED <<localVars, reloadVars, poll>>
      PROVE  EnginesForward'
  BY <1>3 DEF ReadSnapshot
<1>4. ASSUME NEW c \in Call, NEW then, RunScript(c, then),
             then = IF request[c].node \in Presets THEN "committed" ELSE "publishing",
             UNCHANGED <<localVars, reloadVars, poll>>
      PROVE  EnginesForward'
  BY <1>4 DEF RunScript
<1>5. ASSUME NEW c \in Call, Conflict(c),
             UNCHANGED <<localVars, reloadVars, poll>>
      PROVE  EnginesForward'
  BY <1>5 DEF Conflict
<1>6. ASSUME NEW c \in Call, LastConflict(c),
             UNCHANGED <<localVars, reloadVars, poll>>
      PROVE  EnginesForward'
  BY <1>6 DEF LastConflict
<1>7. ASSUME NEW c \in Call, ReplyLostFails(c),
             UNCHANGED <<localVars, reloadVars, poll>>
      PROVE  EnginesForward'
  BY <1>7 DEF ReplyLostFails, ReplyLost
<1>8. ASSUME NEW c \in Call, ReplyLostResends(c),
             UNCHANGED <<localVars, reloadVars, poll>>
      PROVE  EnginesForward'
  BY <1>8 DEF ReplyLostResends, ReplyLost
<1>9. ASSUME NEW c \in Call, WriteFails(c),
             UNCHANGED <<localVars, reloadVars, poll>>
      PROVE  EnginesForward'
  BY <1>9 DEF WriteFails
<1>10. ASSUME NEW c \in Call, Publish(c, {n \in Presets : subscribed[n]}),
              UNCHANGED <<localVars, reloadVars, poll>>
       PROVE  EnginesForward'
  BY <1>10 DEF Publish
<1>11. ASSUME NEW c \in Call, ApplyBegin(c)
       PROVE  EnginesForward'
  BY <1>11 DEF ApplyBegin
<1>12. ASSUME NEW c \in Call, ApplyInstall(c)
       PROVE  EnginesForward'
  <2> DEFINE n == request[c].node
  <2>1. n \in Presets
    BY <1>12 DEF ApplyInstall
  <2>2. ASSUME NEW d \in Call, Announced(d), request[d].node = n
        PROVE  commit[d] <= commit[c]
    <3>1. CASE d = c
      BY <3>1
    <3>2. CASE d # c
      <4>1. phase[d] \notin {"building", "publishing"}
        BY <1>12, <2>2, <3>2 DEF ApplyInstall, OneCall, Active
      <4> QED BY <1>12, <2>2, <4>1 DEF ApplyInstall, InstallsForward
    <3> QED BY <3>1, <3>2
  <2>3. ASSUME NEW d \in Call, Announced(d)'
        PROVE  Announced(d)
    BY <1>12, <2>3 DEF ApplyInstall
  <2>4. ASSUME NEW d \in Call, Announced(d)'
        PROVE  LET m == request[d].node IN
               /\ stale'[m] \/ served'[m] >= commit[d]
               /\ reload[m] = "building" /\ Reloader \in upToDate[m] => loaded[m] >= commit[d]
    BY <1>12, <2>1, <2>2, <2>3, <2>4 DEF ApplyInstall
  <2> QED BY <1>12, <2>4 DEF ApplyInstall
<1>13. ASSUME NEW c \in Call, ApplySkips(c)
       PROVE  EnginesForward'
  BY <1>13 DEF ApplySkips
<1>14. ASSUME NEW n \in Presets, NEW c \in Call, Invalidate(n, c)
       PROVE  EnginesForward'
  BY <1>14 DEF Invalidate
<1>15. ASSUME NEW n \in Presets, PollRead(n)
       PROVE  EnginesForward'
  BY <1>15 DEF PollRead
<1>16. ASSUME NEW n \in Presets, PollApply(n)
       PROVE  EnginesForward'
  BY <1>16 DEF PollApply
<1>17. ASSUME NEW n \in Presets, ReloadStart(n)
       PROVE  EnginesForward'
  BY <1>17 DEF ReloadStart
<1>18. ASSUME NEW n \in Presets, Subscribe(n)
       PROVE  EnginesForward'
  BY <1>18 DEF Subscribe
<1>19. ASSUME NEW n \in Presets, ReloadBegin(n)
       PROVE  EnginesForward'
  BY <1>19 DEF ReloadBegin
<1>20. ASSUME NEW n \in Presets, ReloadRead(n)
       PROVE  EnginesForward'
  BY <1>20 DEF ReloadRead
<1>21. ASSUME NEW n \in Presets, ReloadInstall(n)
       PROVE  EnginesForward'
  BY <1>21 DEF ReloadInstall
<1>22. ASSUME NEW n \in Presets, ReloadAgain(n)
       PROVE  EnginesForward'
  BY <1>22 DEF ReloadAgain
<1>23. ASSUME NEW n \in Presets, ReloadFails(n)
       PROVE  EnginesForward'
  BY <1>23 DEF ReloadFails
<1>24. CASE UNCHANGED vars
  BY <1>24 DEF vars
<1> QED
  BY <1>1, <1>2, <1>3, <1>4, <1>5, <1>6, <1>7, <1>8, <1>9,
     <1>10, <1>11, <1>12, <1>13, <1>14, <1>15, <1>16, <1>17, <1>18, <1>19, <1>20, <1>21, <1>22, <1>23, <1>24
  DEF Next, Write, Reload, Poll

(* The write path keeps its invariant whatever the application does. *)
LEMMA WriteStep ==
  ASSUME WriteInv, [Next]_vars
  PROVE  WriteInv'
BY TypeStep, CallsStep, PlansStep, VersionsStep DEF WriteInv

(* WriteInv is an invariant: plans are exact, versions held were written.  *)
THEOREM WriteInvariant == Spec => []WriteInv
<1>1. Init => WriteInv
  BY PresetInit DEF PresetInv
<1>2. WriteInv /\ [Next]_vars => WriteInv'
  BY WriteStep
<1> QED BY <1>1, <1>2, PTL DEF Spec

(* No write is lost or computed from a replaced snapshot: every version is *)
(* one call applied to the version just before it (commitV2Write and       *)
(* v2WriteScript), for any number of nodes and calls and any faults.       *)
THEOREM WritesAreWhole == Spec => WritesWhole
<1> DEFINE Whole ==
      \/ line' = line
      \/ \E c \in Call : request[c] # NoRequest
                         /\ line' = Append(line, Plan(request[c], Stored))
<1>1. ASSUME WriteInv, [Next]_vars
      PROVE  Whole
  <2> USE V2Assumption DEF WriteInv
  <2>1. ASSUME NEW c \in Call, phase[c] = "planned", Wins(c), line' = Append(line, plan[c])
        PROVE  Whole
    <3>1. request[c] # NoRequest
      BY <1>1, <2>1 DEF CallsMade
    <3>2. plan[c] = Plan(request[c], Stored)
      BY <1>1, <2>1 DEF PlansExact, Wins, Plan, Stored
    <3> QED BY <2>1, <3>1, <3>2
  <2>2. ASSUME NEW c \in Call, Write(c)
        PROVE  Whole
    BY <2>1, <2>2 DEF Write, Start, ReadUnchanged, ReadSnapshot, RunScript, Conflict,
                      LastConflict, ReplyLostFails, ReplyLostResends, ReplyLost, WriteFails,
                      Publish, ApplyBegin, ApplyInstall, ApplySkips
  <2>3. ASSUME NEW n \in Presets,
               Poll(n) \/ ReloadStart(n) \/ Reload(n) \/ \E c \in Call : Invalidate(n, c)
        PROVE  Whole
    BY <2>3 DEF Poll, PollRead, PollApply, ReloadStart, Reload, Subscribe, ReloadBegin,
                ReloadRead, ReloadInstall, ReloadAgain, ReloadFails, Invalidate
  <2>4. CASE UNCHANGED vars
    BY <2>4 DEF vars
  <2> QED BY <1>1, <2>2, <2>3, <2>4 DEF Next
<1>2. WriteInv /\ [Next]_vars => [Whole]_vars
  BY <1>1
<1> HIDE DEF Whole
<1>3. Spec => [][Whole]_vars
  BY <1>2, WriteInvariant, PTL DEF Spec
<1> QED BY <1>3 DEF WritesWhole, Whole

(* The invariant of nodes whose application makes one writing call at a    *)
(* time: reloads and own writes never bring an engine behind unmarked.     *)
THEOREM PresetInvariant ==
  ASSUME Serial
  PROVE  Spec => []PresetInv
<1>1. Init => PresetInv
  BY PresetInit
<1>2. PresetInv /\ [Next]_vars => PresetInv'
  BY WriteStep, OneCallStep, InstallsStep, EnginesStep DEF PresetInv, WriteInv
<1> QED BY <1>1, <1>2, PTL DEF Spec

(* Read your writes: after Add, Remove or Flush has returned, the node's   *)
(* engine holds that write or is marked stale, so that the next search     *)
(* reloads (applyCommittedWrite and reloadFromRedis agree through          *)
(* ac.generation).                                                         *)
THEOREM OwnWritesServed ==
  ASSUME Serial
  PROVE  Spec => []ReadYourWrites
<1>1. PresetInv => ReadYourWrites
  BY DEF PresetInv, WriteInv, CallsMade, EnginesForward, Announced, ReadYourWrites
<1> QED BY <1>1, PresetInvariant, PTL
=============================================================================
