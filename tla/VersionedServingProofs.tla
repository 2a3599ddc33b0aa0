----------------------- MODULE VersionedServingProofs -----------------------
(***************************************************************************)
(* Proofs about VersionedServing, for any keywords, callers, waiters and   *)
(* bounds. The inductive invariant is ServingInv; there is one lemma per   *)
(* part of it, with one step per action.                                   *)
(***************************************************************************)
EXTENDS VersionedServing, TLAPS

USE DEF redisVars, notifyVars, engineVars, leaseVars, statusVars, jobVars, waitVars,
        Fault, Goto, Finish, Release, Granted, GrantLost, WaitEnd

(* The initial state is that of OpenVersioned after initialize, before its *)
(* first refresh: nothing served, no lease, nobody waiting.                *)
LEMMA ServingInit ==
  ASSUME Init
  PROVE  ServingInv
<1>1. PICK w \in SUBSET Keyword : line = <<w>>
  BY DEF Init
<1>2. line \in Seq(SUBSET Keyword) /\ Len(line) = 1
  BY <1>1
<1>3. TypeOK
  BY <1>2 DEF Init, TypeOK, Lease
<1>4. JobInv /\ LifeInv /\ ServingExact /\ StatusOrdered /\ StatusHonest
  BY <1>2 DEF Init, JobInv, LifeInv, ServingExact, StatusOrdered, StatusHonest
<1>5. WaitKept /\ LeaseAccounted /\ NothingAfterClose
  BY DEF Init, WaitKept, LeaseAccounted, NothingAfterClose
<1> QED BY <1>3, <1>4, <1>5 DEF ServingInv

(* engineBuckets puts together the pinned generation, whichever buckets it *)
(* takes from the installed engine: a bucket that both manifests describe  *)
(* alike has the same words in both.                                       *)
LEMMA BucketsMakeGeneration ==
  ASSUME TypeOK, ServingExact, pin \in 1..Len(line)
  PROVE  UNION {BucketWords(k) : k \in Keyword} = line[pin]
<1>1. line[pin] \in SUBSET Keyword
  BY DEF TypeOK
<1>2. ASSUME NEW k \in Keyword
      PROVE  BucketWords(k) = line[pin] \cap {k}
  BY DEF ServingExact, BucketWords
<1>3. {BucketWords(k) : k \in Keyword} = {line[pin] \cap {k} : k \in Keyword}
  BY <1>2
<1>4. UNION {line[pin] \cap {k} : k \in Keyword} = line[pin]
  BY <1>1
<1> QED BY <1>3, <1>4

(* Steps keep every variable in its type. *)
LEMMA TypeStep ==
  ASSUME TypeOK, JobInv, ServingExact, [Next]_vars
  PROVE  TypeOK'
<1> USE DEF TypeOK, Lease, Closed
<1>1. ASSUME NEW w \in SUBSET Keyword, NEW own \in BOOLEAN, Commit(w, own)
      PROVE  TypeOK'
  <2>1. event' \in BOOLEAN /\ wake' \in BOOLEAN
    BY <1>1 DEF Commit
  <2>2. line' \in Seq(SUBSET Keyword)
    BY <1>1 DEF Commit
  <2>3. UNCHANGED <<maintenance, leases, faults, life, engineVars, leaseVars, toClose,
                    renewing, statusVars, loop, jobVars, acquiring, waitVars>>
    BY <1>1 DEF Commit
  <2> QED BY <2>1, <2>2, <2>3
<1>2. ASSUME MaintenanceStarts
      PROVE  TypeOK'
  BY <1>2 DEF MaintenanceStarts
<1>3. ASSUME MaintenanceEnds
      PROVE  TypeOK'
  <2>1. maintenance' \in BOOLEAN
    BY <1>3, Zenon DEF MaintenanceEnds
  <2> QED BY <1>3, <2>1 DEF MaintenanceEnds
<1>4. ASSUME NEW l \in Lease, Expire(l)
      PROVE  TypeOK'
  BY <1>4 DEF Expire
<1>5. ASSUME NEW c \in Caller, AcquireCheck(c)
      PROVE  TypeOK'
  BY <1>5 DEF AcquireCheck
<1>6. ASSUME NEW c \in Caller, AcquireLease(c)
      PROVE  TypeOK'
  BY <1>6 DEF AcquireLease
<1>7. ASSUME NEW c \in Caller, AcquireRegister(c)
      PROVE  TypeOK'
  BY <1>7 DEF AcquireRegister
<1>8. ASSUME NEW c \in Caller, CallerReleases(c)
      PROVE  TypeOK'
  BY <1>8 DEF CallerReleases
<1>9. ASSUME SelectTick
      PROVE  TypeOK'
  BY <1>9 DEF SelectTick
<1>10. ASSUME SelectNotified
       PROVE  TypeOK'
  BY <1>10 DEF SelectNotified
<1>11. ASSUME Debounced
       PROVE  TypeOK'
  BY <1>11 DEF Debounced
<1>12. ASSUME RefreshCheck
       PROVE  TypeOK'
  <2>1. lastError' \in BOOLEAN
    BY <1>12, Zenon DEF RefreshCheck
  <2> QED BY <1>12, <2>1 DEF RefreshCheck
<1>13. ASSUME RefreshActive
       PROVE  TypeOK'
  <2>1. lastError' \in BOOLEAN
    BY <1>13, Zenon DEF RefreshActive
  <2> QED BY <1>13, <2>1 DEF RefreshActive
<1>14. ASSUME RefreshAcquire
       PROVE  TypeOK'
  BY <1>14 DEF RefreshAcquire
<1>15. ASSUME RefreshRegister
       PROVE  TypeOK'
  <2>1. lastError' \in BOOLEAN
    BY <1>15, Zenon DEF RefreshRegister
  <2> QED BY <1>15, <2>1 DEF RefreshRegister
<1>16. ASSUME RefreshManifest
       PROVE  TypeOK'
  BY <1>16 DEF RefreshManifest
<1>17. ASSUME RefreshBuild
       PROVE  TypeOK'
  BY <1>17, BucketsMakeGeneration DEF RefreshBuild, ServingExact, JobInv, LifeInv
<1>18. ASSUME RefreshVerify
       PROVE  TypeOK'
  BY <1>18 DEF RefreshVerify
<1>19. ASSUME RefreshInstall
       PROVE  TypeOK'
  BY <1>19 DEF RefreshInstall
<1>20. ASSUME RefreshRelease
       PROVE  TypeOK'
  <2>1. lastError' \in BOOLEAN /\ building' \in BOOLEAN
    BY <1>20, Zenon DEF RefreshRelease
  <2> QED BY <1>20, <2>1 DEF RefreshRelease
<1>21. ASSUME RefreshFails
       PROVE  TypeOK'
  <2>1. lastError' \in BOOLEAN /\ succeeded' \in BOOLEAN
    BY <1>21, Zenon DEF RefreshFails
  <2> QED BY <1>21, <2>1 DEF RefreshFails
<1>22. ASSUME LoopStops
       PROVE  TypeOK'
  BY <1>22 DEF LoopStops
<1>23. ASSUME NEW w \in Waiter, NEW n \in 1..MaxCommits, WaitStart(w, n)
       PROVE  TypeOK'
  BY <1>23 DEF WaitStart
<1>24. ASSUME NEW w \in Waiter, WaitReturns(w)
       PROVE  TypeOK'
  BY <1>24 DEF WaitReturns
<1>25. ASSUME NEW w \in Waiter, WaitClosed(w)
       PROVE  TypeOK'
  BY <1>25 DEF WaitClosed
<1>26. ASSUME NEW w \in Waiter, WaitCanceled(w)
       PROVE  TypeOK'
  BY <1>26 DEF WaitCanceled
<1>27. ASSUME RenewStops
       PROVE  TypeOK'
  <2>1. renewing' \in BOOLEAN
    BY <1>27, Zenon DEF RenewStops
  <2> QED BY <1>27, <2>1 DEF RenewStops
<1>28. ASSUME Close
       PROVE  TypeOK'
  BY <1>28 DEF Close
<1>29. ASSUME CloseWaited
       PROVE  TypeOK'
  BY <1>29 DEF CloseWaited
<1>30. ASSUME NEW l \in Lease, CloseLease(l)
       PROVE  TypeOK'
  BY <1>30 DEF CloseLease
<1>31. ASSUME CloseClient
       PROVE  TypeOK'
  BY <1>31 DEF CloseClient
<1>32. CASE UNCHANGED vars
  BY <1>32 DEF vars
<1> QED
  BY <1>1, <1>2, <1>3, <1>4, <1>5, <1>6, <1>7, <1>8, <1>9, <1>10, <1>11, <1>12, <1>13,
     <1>14, <1>15, <1>16, <1>17, <1>18, <1>19, <1>20, <1>21, <1>22, <1>23, <1>24, <1>25,
     <1>26, <1>27, <1>28, <1>29, <1>30, <1>31, <1>32 DEF Next, RedisNext, RefreshNext,
     CloseNext, CallerNext, WaiterNext

(* A lease leaves the table only with a ZREM or as an orphan, and enters   *)
(* Redis only on its way to the table.                                     *)
LEMMA LeaseStep ==
  ASSUME TypeOK, LeaseAccounted, [Next]_vars
  PROVE  LeaseAccounted'
<1> USE DEF TypeOK, Lease, LeaseAccounted, Closed, Connected
<1>1. ASSUME NEW w \in SUBSET Keyword, NEW own \in BOOLEAN, Commit(w, own)
      PROVE  LeaseAccounted'
  BY <1>1 DEF Commit
<1>2. ASSUME MaintenanceStarts
      PROVE  LeaseAccounted'
  BY <1>2 DEF MaintenanceStarts
<1>3. ASSUME MaintenanceEnds
      PROVE  LeaseAccounted'
  BY <1>3 DEF MaintenanceEnds
<1>4. ASSUME NEW l \in Lease, Expire(l)
      PROVE  LeaseAccounted'
  BY <1>4 DEF Expire
<1>5. ASSUME NEW c \in Caller, AcquireCheck(c)
      PROVE  LeaseAccounted'
  BY <1>5 DEF AcquireCheck
<1>6. ASSUME NEW c \in Caller, AcquireLease(c)
      PROVE  LeaseAccounted'
  BY <1>6 DEF AcquireLease
<1>7. ASSUME NEW c \in Caller, AcquireRegister(c)
      PROVE  LeaseAccounted'
  BY <1>7 DEF AcquireRegister
<1>8. ASSUME NEW c \in Caller, CallerReleases(c)
      PROVE  LeaseAccounted'
  BY <1>8 DEF CallerReleases
<1>9. ASSUME SelectTick
      PROVE  LeaseAccounted'
  BY <1>9 DEF SelectTick
<1>10. ASSUME SelectNotified
       PROVE  LeaseAccounted'
  BY <1>10 DEF SelectNotified
<1>11. ASSUME Debounced
       PROVE  LeaseAccounted'
  BY <1>11 DEF Debounced
<1>12. ASSUME RefreshCheck
       PROVE  LeaseAccounted'
  BY <1>12 DEF RefreshCheck
<1>13. ASSUME RefreshActive
       PROVE  LeaseAccounted'
  BY <1>13 DEF RefreshActive
<1>14. ASSUME RefreshAcquire
       PROVE  LeaseAccounted'
  BY <1>14 DEF RefreshAcquire
<1>15. ASSUME RefreshRegister
       PROVE  LeaseAccounted'
  BY <1>15 DEF RefreshRegister
<1>16. ASSUME RefreshManifest
       PROVE  LeaseAccounted'
  BY <1>16 DEF RefreshManifest
<1>17. ASSUME RefreshBuild
       PROVE  LeaseAccounted'
  BY <1>17 DEF RefreshBuild
<1>18. ASSUME RefreshVerify
       PROVE  LeaseAccounted'
  BY <1>18 DEF RefreshVerify
<1>19. ASSUME RefreshInstall
       PROVE  LeaseAccounted'
  BY <1>19 DEF RefreshInstall
<1>20. ASSUME RefreshRelease
       PROVE  LeaseAccounted'
  BY <1>20 DEF RefreshRelease
<1>21. ASSUME RefreshFails
       PROVE  LeaseAccounted'
  BY <1>21 DEF RefreshFails
<1>22. ASSUME LoopStops
       PROVE  LeaseAccounted'
  BY <1>22 DEF LoopStops
<1>23. ASSUME NEW w \in Waiter, NEW n \in 1..MaxCommits, WaitStart(w, n)
       PROVE  LeaseAccounted'
  BY <1>23 DEF WaitStart
<1>24. ASSUME NEW w \in Waiter, WaitReturns(w)
       PROVE  LeaseAccounted'
  BY <1>24 DEF WaitReturns
<1>25. ASSUME NEW w \in Waiter, WaitClosed(w)
       PROVE  LeaseAccounted'
  BY <1>25 DEF WaitClosed
<1>26. ASSUME NEW w \in Waiter, WaitCanceled(w)
       PROVE  LeaseAccounted'
  BY <1>26 DEF WaitCanceled
<1>27. ASSUME RenewStops
       PROVE  LeaseAccounted'
  BY <1>27 DEF RenewStops
<1>28. ASSUME Close
       PROVE  LeaseAccounted'
  BY <1>28 DEF Close
<1>29. ASSUME CloseWaited
       PROVE  LeaseAccounted'
  BY <1>29 DEF CloseWaited
<1>30. ASSUME NEW l \in Lease, CloseLease(l)
       PROVE  LeaseAccounted'
  BY <1>30 DEF CloseLease
<1>31. ASSUME CloseClient
       PROVE  LeaseAccounted'
  BY <1>31 DEF CloseClient
<1>32. CASE UNCHANGED vars
  BY <1>32 DEF vars
<1> QED
  BY <1>1, <1>2, <1>3, <1>4, <1>5, <1>6, <1>7, <1>8, <1>9, <1>10, <1>11, <1>12, <1>13,
     <1>14, <1>15, <1>16, <1>17, <1>18, <1>19, <1>20, <1>21, <1>22, <1>23, <1>24, <1>25,
     <1>26, <1>27, <1>28, <1>29, <1>30, <1>31, <1>32 DEF Next, RedisNext, RefreshNext,
     CloseNext, CallerNext, WaiterNext

(* Close goes through its stages in order: what wg.Wait waited for does    *)
(* not come back, and no lease enters the table after it was copied.       *)
LEMMA LifeStep ==
  ASSUME TypeOK, LifeInv, JobInv, [Next]_vars
  PROVE  LifeInv'
<1> USE DEF TypeOK, LifeInv, JobInv, Closed, Connected
<1>1. ASSUME NEW w \in SUBSET Keyword, NEW own \in BOOLEAN, Commit(w, own)
      PROVE  LifeInv'
  BY <1>1 DEF Commit
<1>2. ASSUME MaintenanceStarts
      PROVE  LifeInv'
  BY <1>2 DEF MaintenanceStarts
<1>3. ASSUME MaintenanceEnds
      PROVE  LifeInv'
  BY <1>3 DEF MaintenanceEnds
<1>4. ASSUME NEW l \in Lease, Expire(l)
      PROVE  LifeInv'
  BY <1>4 DEF Expire
<1>5. ASSUME NEW c \in Caller, AcquireCheck(c)
      PROVE  LifeInv'
  BY <1>5 DEF AcquireCheck
<1>6. ASSUME NEW c \in Caller, AcquireLease(c)
      PROVE  LifeInv'
  BY <1>6 DEF AcquireLease
<1>7. ASSUME NEW c \in Caller, AcquireRegister(c)
      PROVE  LifeInv'
  BY <1>7 DEF AcquireRegister
<1>8. ASSUME NEW c \in Caller, CallerReleases(c)
      PROVE  LifeInv'
  BY <1>8 DEF CallerReleases
<1>9. ASSUME SelectTick
      PROVE  LifeInv'
  BY <1>9 DEF SelectTick
<1>10. ASSUME SelectNotified
       PROVE  LifeInv'
  BY <1>10 DEF SelectNotified
<1>11. ASSUME Debounced
       PROVE  LifeInv'
  BY <1>11 DEF Debounced
<1>12. ASSUME RefreshCheck
       PROVE  LifeInv'
  BY <1>12 DEF RefreshCheck
<1>13. ASSUME RefreshActive
       PROVE  LifeInv'
  BY <1>13 DEF RefreshActive
<1>14. ASSUME RefreshAcquire
       PROVE  LifeInv'
  BY <1>14 DEF RefreshAcquire
<1>15. ASSUME RefreshRegister
       PROVE  LifeInv'
  BY <1>15 DEF RefreshRegister
<1>16. ASSUME RefreshManifest
       PROVE  LifeInv'
  BY <1>16 DEF RefreshManifest
<1>17. ASSUME RefreshBuild
       PROVE  LifeInv'
  BY <1>17 DEF RefreshBuild
<1>18. ASSUME RefreshVerify
       PROVE  LifeInv'
  BY <1>18 DEF RefreshVerify
<1>19. ASSUME RefreshInstall
       PROVE  LifeInv'
  BY <1>19 DEF RefreshInstall
<1>20. ASSUME RefreshRelease
       PROVE  LifeInv'
  BY <1>20 DEF RefreshRelease
<1>21. ASSUME RefreshFails
       PROVE  LifeInv'
  BY <1>21 DEF RefreshFails
<1>22. ASSUME LoopStops
       PROVE  LifeInv'
  BY <1>22 DEF LoopStops
<1>23. ASSUME NEW w \in Waiter, NEW n \in 1..MaxCommits, WaitStart(w, n)
       PROVE  LifeInv'
  BY <1>23 DEF WaitStart
<1>24. ASSUME NEW w \in Waiter, WaitReturns(w)
       PROVE  LifeInv'
  BY <1>24 DEF WaitReturns
<1>25. ASSUME NEW w \in Waiter, WaitClosed(w)
       PROVE  LifeInv'
  BY <1>25 DEF WaitClosed
<1>26. ASSUME NEW w \in Waiter, WaitCanceled(w)
       PROVE  LifeInv'
  BY <1>26 DEF WaitCanceled
<1>27. ASSUME RenewStops
       PROVE  LifeInv'
  BY <1>27 DEF RenewStops
<1>28. ASSUME Close
       PROVE  LifeInv'
  BY <1>28 DEF Close
<1>29. ASSUME CloseWaited
       PROVE  LifeInv'
  BY <1>29 DEF CloseWaited
<1>30. ASSUME NEW l \in Lease, CloseLease(l)
       PROVE  LifeInv'
  BY <1>30 DEF CloseLease
<1>31. ASSUME CloseClient
       PROVE  LifeInv'
  BY <1>31 DEF CloseClient
<1>32. CASE UNCHANGED vars
  BY <1>32 DEF vars
<1> QED
  BY <1>1, <1>2, <1>3, <1>4, <1>5, <1>6, <1>7, <1>8, <1>9, <1>10, <1>11, <1>12, <1>13,
     <1>14, <1>15, <1>16, <1>17, <1>18, <1>19, <1>20, <1>21, <1>22, <1>23, <1>24, <1>25,
     <1>26, <1>27, <1>28, <1>29, <1>30, <1>31, <1>32 DEF Next, RedisNext, RefreshNext,
     CloseNext, CallerNext, WaiterNext

(* A refresh pins a generation that is not older than the one installed,   *)
(* and what it builds is that generation.                                  *)
LEMMA JobStep ==
  ASSUME ServingInv, [Next]_vars
  PROVE  JobInv'
<1> USE DEF ServingInv, TypeOK, LifeInv, JobInv, ServingExact, Closed
<1>1. ASSUME NEW w \in SUBSET Keyword, NEW own \in BOOLEAN, Commit(w, own)
      PROVE  JobInv'
  BY <1>1 DEF Commit
<1>2. ASSUME MaintenanceStarts
      PROVE  JobInv'
  BY <1>2 DEF MaintenanceStarts
<1>3. ASSUME MaintenanceEnds
      PROVE  JobInv'
  BY <1>3 DEF MaintenanceEnds
<1>4. ASSUME NEW l \in Lease, Expire(l)
      PROVE  JobInv'
  BY <1>4 DEF Expire
<1>5. ASSUME NEW c \in Caller, AcquireCheck(c)
      PROVE  JobInv'
  BY <1>5 DEF AcquireCheck
<1>6. ASSUME NEW c \in Caller, AcquireLease(c)
      PROVE  JobInv'
  BY <1>6 DEF AcquireLease
<1>7. ASSUME NEW c \in Caller, AcquireRegister(c)
      PROVE  JobInv'
  BY <1>7 DEF AcquireRegister
<1>8. ASSUME NEW c \in Caller, CallerReleases(c)
      PROVE  JobInv'
  BY <1>8 DEF CallerReleases
<1>9. ASSUME SelectTick
      PROVE  JobInv'
  BY <1>9 DEF SelectTick
<1>10. ASSUME SelectNotified
       PROVE  JobInv'
  BY <1>10 DEF SelectNotified
<1>11. ASSUME Debounced
       PROVE  JobInv'
  BY <1>11 DEF Debounced
<1>12. ASSUME RefreshCheck
       PROVE  JobInv'
  BY <1>12 DEF RefreshCheck
<1>13. ASSUME RefreshActive
       PROVE  JobInv'
  BY <1>13 DEF RefreshActive
<1>14. ASSUME RefreshAcquire
       PROVE  JobInv'
  BY <1>14 DEF RefreshAcquire
<1>15. ASSUME RefreshRegister
       PROVE  JobInv'
  BY <1>15 DEF RefreshRegister
<1>16. ASSUME RefreshManifest
       PROVE  JobInv'
  BY <1>16 DEF RefreshManifest
<1>17. ASSUME RefreshBuild
       PROVE  JobInv'
  <2>1. pin \in 1..Len(line)
    BY <1>17 DEF RefreshBuild
  <2>2. built' = line[pin]
    BY <1>17, <2>1, BucketsMakeGeneration DEF RefreshBuild
  <2> QED BY <1>17, <2>2 DEF RefreshBuild
<1>18. ASSUME RefreshVerify
       PROVE  JobInv'
  BY <1>18 DEF RefreshVerify
<1>19. ASSUME RefreshInstall
       PROVE  JobInv'
  BY <1>19 DEF RefreshInstall
<1>20. ASSUME RefreshRelease
       PROVE  JobInv'
  BY <1>20 DEF RefreshRelease
<1>21. ASSUME RefreshFails
       PROVE  JobInv'
  BY <1>21 DEF RefreshFails
<1>22. ASSUME LoopStops
       PROVE  JobInv'
  BY <1>22 DEF LoopStops
<1>23. ASSUME NEW w \in Waiter, NEW n \in 1..MaxCommits, WaitStart(w, n)
       PROVE  JobInv'
  BY <1>23 DEF WaitStart
<1>24. ASSUME NEW w \in Waiter, WaitReturns(w)
       PROVE  JobInv'
  BY <1>24 DEF WaitReturns
<1>25. ASSUME NEW w \in Waiter, WaitClosed(w)
       PROVE  JobInv'
  BY <1>25 DEF WaitClosed
<1>26. ASSUME NEW w \in Waiter, WaitCanceled(w)
       PROVE  JobInv'
  BY <1>26 DEF WaitCanceled
<1>27. ASSUME RenewStops
       PROVE  JobInv'
  BY <1>27 DEF RenewStops
<1>28. ASSUME Close
       PROVE  JobInv'
  BY <1>28 DEF Close
<1>29. ASSUME CloseWaited
       PROVE  JobInv'
  BY <1>29 DEF CloseWaited
<1>30. ASSUME NEW l \in Lease, CloseLease(l)
       PROVE  JobInv'
  BY <1>30 DEF CloseLease
<1>31. ASSUME CloseClient
       PROVE  JobInv'
  BY <1>31 DEF CloseClient
<1>32. CASE UNCHANGED vars
  BY <1>32 DEF vars
<1> QED
  BY <1>1, <1>2, <1>3, <1>4, <1>5, <1>6, <1>7, <1>8, <1>9, <1>10, <1>11, <1>12, <1>13,
     <1>14, <1>15, <1>16, <1>17, <1>18, <1>19, <1>20, <1>21, <1>22, <1>23, <1>24, <1>25,
     <1>26, <1>27, <1>28, <1>29, <1>30, <1>31, <1>32 DEF Next, RedisNext, RefreshNext,
     CloseNext, CallerNext, WaiterNext

(* An engine is replaced by one whole generation or dropped.               *)
LEMMA ExactStep ==
  ASSUME ServingInv, [Next]_vars
  PROVE  ServingExact'
<1> USE DEF ServingInv, TypeOK, LifeInv, JobInv, ServingExact
<1>1. ASSUME NEW w \in SUBSET Keyword, NEW own \in BOOLEAN, Commit(w, own)
      PROVE  ServingExact'
  BY <1>1 DEF Commit
<1>2. ASSUME MaintenanceStarts
      PROVE  ServingExact'
  BY <1>2 DEF MaintenanceStarts
<1>3. ASSUME MaintenanceEnds
      PROVE  ServingExact'
  BY <1>3 DEF MaintenanceEnds
<1>4. ASSUME NEW l \in Lease, Expire(l)
      PROVE  ServingExact'
  BY <1>4 DEF Expire
<1>5. ASSUME NEW c \in Caller, AcquireCheck(c)
      PROVE  ServingExact'
  BY <1>5 DEF AcquireCheck
<1>6. ASSUME NEW c \in Caller, AcquireLease(c)
      PROVE  ServingExact'
  BY <1>6 DEF AcquireLease
<1>7. ASSUME NEW c \in Caller, AcquireRegister(c)
      PROVE  ServingExact'
  BY <1>7 DEF AcquireRegister
<1>8. ASSUME NEW c \in Caller, CallerReleases(c)
      PROVE  ServingExact'
  BY <1>8 DEF CallerReleases
<1>9. ASSUME SelectTick
      PROVE  ServingExact'
  BY <1>9 DEF SelectTick
<1>10. ASSUME SelectNotified
       PROVE  ServingExact'
  BY <1>10 DEF SelectNotified
<1>11. ASSUME Debounced
       PROVE  ServingExact'
  BY <1>11 DEF Debounced
<1>12. ASSUME RefreshCheck
       PROVE  ServingExact'
  BY <1>12 DEF RefreshCheck
<1>13. ASSUME RefreshActive
       PROVE  ServingExact'
  BY <1>13 DEF RefreshActive
<1>14. ASSUME RefreshAcquire
       PROVE  ServingExact'
  BY <1>14 DEF RefreshAcquire
<1>15. ASSUME RefreshRegister
       PROVE  ServingExact'
  BY <1>15 DEF RefreshRegister
<1>16. ASSUME RefreshManifest
       PROVE  ServingExact'
  BY <1>16 DEF RefreshManifest
<1>17. ASSUME RefreshBuild
       PROVE  ServingExact'
  BY <1>17 DEF RefreshBuild
<1>18. ASSUME RefreshVerify
       PROVE  ServingExact'
  BY <1>18 DEF RefreshVerify
<1>19. ASSUME RefreshInstall
       PROVE  ServingExact'
  BY <1>19 DEF RefreshInstall
<1>20. ASSUME RefreshRelease
       PROVE  ServingExact'
  BY <1>20 DEF RefreshRelease
<1>21. ASSUME RefreshFails
       PROVE  ServingExact'
  BY <1>21 DEF RefreshFails
<1>22. ASSUME LoopStops
       PROVE  ServingExact'
  BY <1>22 DEF LoopStops
<1>23. ASSUME NEW w \in Waiter, NEW n \in 1..MaxCommits, WaitStart(w, n)
       PROVE  ServingExact'
  BY <1>23 DEF WaitStart
<1>24. ASSUME NEW w \in Waiter, WaitReturns(w)
       PROVE  ServingExact'
  BY <1>24 DEF WaitReturns
<1>25. ASSUME NEW w \in Waiter, WaitClosed(w)
       PROVE  ServingExact'
  BY <1>25 DEF WaitClosed
<1>26. ASSUME NEW w \in Waiter, WaitCanceled(w)
       PROVE  ServingExact'
  BY <1>26 DEF WaitCanceled
<1>27. ASSUME RenewStops
       PROVE  ServingExact'
  BY <1>27 DEF RenewStops
<1>28. ASSUME Close
       PROVE  ServingExact'
  BY <1>28 DEF Close
<1>29. ASSUME CloseWaited
       PROVE  ServingExact'
  BY <1>29 DEF CloseWaited
<1>30. ASSUME NEW l \in Lease, CloseLease(l)
       PROVE  ServingExact'
  BY <1>30 DEF CloseLease
<1>31. ASSUME CloseClient
       PROVE  ServingExact'
  BY <1>31 DEF CloseClient
<1>32. CASE UNCHANGED vars
  BY <1>32 DEF vars
<1> QED
  BY <1>1, <1>2, <1>3, <1>4, <1>5, <1>6, <1>7, <1>8, <1>9, <1>10, <1>11, <1>12, <1>13,
     <1>14, <1>15, <1>16, <1>17, <1>18, <1>19, <1>20, <1>21, <1>22, <1>23, <1>24, <1>25,
     <1>26, <1>27, <1>28, <1>29, <1>30, <1>31, <1>32 DEF Next, RedisNext, RefreshNext,
     CloseNext, CallerNext, WaiterNext

(* No refresh replaces the engine by an older one.                         *)
LEMMA WaitStep ==
  ASSUME ServingInv, [Next]_vars
  PROVE  WaitKept'
<1> USE DEF ServingInv, TypeOK, LifeInv, JobInv, WaitKept, Closed
<1>1. ASSUME NEW w \in SUBSET Keyword, NEW own \in BOOLEAN, Commit(w, own)
      PROVE  WaitKept'
  BY <1>1 DEF Commit
<1>2. ASSUME MaintenanceStarts
      PROVE  WaitKept'
  BY <1>2 DEF MaintenanceStarts
<1>3. ASSUME MaintenanceEnds
      PROVE  WaitKept'
  BY <1>3 DEF MaintenanceEnds
<1>4. ASSUME NEW l \in Lease, Expire(l)
      PROVE  WaitKept'
  BY <1>4 DEF Expire
<1>5. ASSUME NEW c \in Caller, AcquireCheck(c)
      PROVE  WaitKept'
  BY <1>5 DEF AcquireCheck
<1>6. ASSUME NEW c \in Caller, AcquireLease(c)
      PROVE  WaitKept'
  BY <1>6 DEF AcquireLease
<1>7. ASSUME NEW c \in Caller, AcquireRegister(c)
      PROVE  WaitKept'
  BY <1>7 DEF AcquireRegister
<1>8. ASSUME NEW c \in Caller, CallerReleases(c)
      PROVE  WaitKept'
  BY <1>8 DEF CallerReleases
<1>9. ASSUME SelectTick
      PROVE  WaitKept'
  BY <1>9 DEF SelectTick
<1>10. ASSUME SelectNotified
       PROVE  WaitKept'
  BY <1>10 DEF SelectNotified
<1>11. ASSUME Debounced
       PROVE  WaitKept'
  BY <1>11 DEF Debounced
<1>12. ASSUME RefreshCheck
       PROVE  WaitKept'
  BY <1>12 DEF RefreshCheck
<1>13. ASSUME RefreshActive
       PROVE  WaitKept'
  BY <1>13 DEF RefreshActive
<1>14. ASSUME RefreshAcquire
       PROVE  WaitKept'
  BY <1>14 DEF RefreshAcquire
<1>15. ASSUME RefreshRegister
       PROVE  WaitKept'
  BY <1>15 DEF RefreshRegister
<1>16. ASSUME RefreshManifest
       PROVE  WaitKept'
  BY <1>16 DEF RefreshManifest
<1>17. ASSUME RefreshBuild
       PROVE  WaitKept'
  BY <1>17 DEF RefreshBuild
<1>18. ASSUME RefreshVerify
       PROVE  WaitKept'
  BY <1>18 DEF RefreshVerify
<1>19. ASSUME RefreshInstall
       PROVE  WaitKept'
  BY <1>19 DEF RefreshInstall
<1>20. ASSUME RefreshRelease
       PROVE  WaitKept'
  BY <1>20 DEF RefreshRelease
<1>21. ASSUME RefreshFails
       PROVE  WaitKept'
  BY <1>21 DEF RefreshFails
<1>22. ASSUME LoopStops
       PROVE  WaitKept'
  BY <1>22 DEF LoopStops
<1>23. ASSUME NEW w \in Waiter, NEW n \in 1..MaxCommits, WaitStart(w, n)
       PROVE  WaitKept'
  BY <1>23 DEF WaitStart
<1>24. ASSUME NEW w \in Waiter, WaitReturns(w)
       PROVE  WaitKept'
  BY <1>24 DEF WaitReturns
<1>25. ASSUME NEW w \in Waiter, WaitClosed(w)
       PROVE  WaitKept'
  BY <1>25 DEF WaitClosed
<1>26. ASSUME NEW w \in Waiter, WaitCanceled(w)
       PROVE  WaitKept'
  BY <1>26 DEF WaitCanceled
<1>27. ASSUME RenewStops
       PROVE  WaitKept'
  BY <1>27 DEF RenewStops
<1>28. ASSUME Close
       PROVE  WaitKept'
  BY <1>28 DEF Close
<1>29. ASSUME CloseWaited
       PROVE  WaitKept'
  BY <1>29 DEF CloseWaited
<1>30. ASSUME NEW l \in Lease, CloseLease(l)
       PROVE  WaitKept'
  BY <1>30 DEF CloseLease
<1>31. ASSUME CloseClient
       PROVE  WaitKept'
  BY <1>31 DEF CloseClient
<1>32. CASE UNCHANGED vars
  BY <1>32 DEF vars
<1> QED
  BY <1>1, <1>2, <1>3, <1>4, <1>5, <1>6, <1>7, <1>8, <1>9, <1>10, <1>11, <1>12, <1>13,
     <1>14, <1>15, <1>16, <1>17, <1>18, <1>19, <1>20, <1>21, <1>22, <1>23, <1>24, <1>25,
     <1>26, <1>27, <1>28, <1>29, <1>30, <1>31, <1>32 DEF Next, RedisNext, RefreshNext,
     CloseNext, CallerNext, WaiterNext

(* The active version that status shows is set before a newer version is   *)
(* installed.                                                              *)
LEMMA OrderedStep ==
  ASSUME ServingInv, [Next]_vars
  PROVE  StatusOrdered'
<1> USE DEF ServingInv, TypeOK, LifeInv, JobInv, StatusOrdered
<1>1. ASSUME NEW w \in SUBSET Keyword, NEW own \in BOOLEAN, Commit(w, own)
      PROVE  StatusOrdered'
  BY <1>1 DEF Commit
<1>2. ASSUME MaintenanceStarts
      PROVE  StatusOrdered'
  BY <1>2 DEF MaintenanceStarts
<1>3. ASSUME MaintenanceEnds
      PROVE  StatusOrdered'
  BY <1>3 DEF MaintenanceEnds
<1>4. ASSUME NEW l \in Lease, Expire(l)
      PROVE  StatusOrdered'
  BY <1>4 DEF Expire
<1>5. ASSUME NEW c \in Caller, AcquireCheck(c)
      PROVE  StatusOrdered'
  BY <1>5 DEF AcquireCheck
<1>6. ASSUME NEW c \in Caller, AcquireLease(c)
      PROVE  StatusOrdered'
  BY <1>6 DEF AcquireLease
<1>7. ASSUME NEW c \in Caller, AcquireRegister(c)
      PROVE  StatusOrdered'
  BY <1>7 DEF AcquireRegister
<1>8. ASSUME NEW c \in Caller, CallerReleases(c)
      PROVE  StatusOrdered'
  BY <1>8 DEF CallerReleases
<1>9. ASSUME SelectTick
      PROVE  StatusOrdered'
  BY <1>9 DEF SelectTick
<1>10. ASSUME SelectNotified
       PROVE  StatusOrdered'
  BY <1>10 DEF SelectNotified
<1>11. ASSUME Debounced
       PROVE  StatusOrdered'
  BY <1>11 DEF Debounced
<1>12. ASSUME RefreshCheck
       PROVE  StatusOrdered'
  BY <1>12 DEF RefreshCheck
<1>13. ASSUME RefreshActive
       PROVE  StatusOrdered'
  BY <1>13 DEF RefreshActive
<1>14. ASSUME RefreshAcquire
       PROVE  StatusOrdered'
  BY <1>14 DEF RefreshAcquire
<1>15. ASSUME RefreshRegister
       PROVE  StatusOrdered'
  BY <1>15 DEF RefreshRegister
<1>16. ASSUME RefreshManifest
       PROVE  StatusOrdered'
  BY <1>16 DEF RefreshManifest
<1>17. ASSUME RefreshBuild
       PROVE  StatusOrdered'
  BY <1>17 DEF RefreshBuild
<1>18. ASSUME RefreshVerify
       PROVE  StatusOrdered'
  BY <1>18 DEF RefreshVerify
<1>19. ASSUME RefreshInstall
       PROVE  StatusOrdered'
  BY <1>19 DEF RefreshInstall
<1>20. ASSUME RefreshRelease
       PROVE  StatusOrdered'
  BY <1>20 DEF RefreshRelease
<1>21. ASSUME RefreshFails
       PROVE  StatusOrdered'
  BY <1>21 DEF RefreshFails
<1>22. ASSUME LoopStops
       PROVE  StatusOrdered'
  BY <1>22 DEF LoopStops
<1>23. ASSUME NEW w \in Waiter, NEW n \in 1..MaxCommits, WaitStart(w, n)
       PROVE  StatusOrdered'
  BY <1>23 DEF WaitStart
<1>24. ASSUME NEW w \in Waiter, WaitReturns(w)
       PROVE  StatusOrdered'
  BY <1>24 DEF WaitReturns
<1>25. ASSUME NEW w \in Waiter, WaitClosed(w)
       PROVE  StatusOrdered'
  BY <1>25 DEF WaitClosed
<1>26. ASSUME NEW w \in Waiter, WaitCanceled(w)
       PROVE  StatusOrdered'
  BY <1>26 DEF WaitCanceled
<1>27. ASSUME RenewStops
       PROVE  StatusOrdered'
  BY <1>27 DEF RenewStops
<1>28. ASSUME Close
       PROVE  StatusOrdered'
  BY <1>28 DEF Close
<1>29. ASSUME CloseWaited
       PROVE  StatusOrdered'
  BY <1>29 DEF CloseWaited
<1>30. ASSUME NEW l \in Lease, CloseLease(l)
       PROVE  StatusOrdered'
  BY <1>30 DEF CloseLease
<1>31. ASSUME CloseClient
       PROVE  StatusOrdered'
  BY <1>31 DEF CloseClient
<1>32. CASE UNCHANGED vars
  BY <1>32 DEF vars
<1> QED
  BY <1>1, <1>2, <1>3, <1>4, <1>5, <1>6, <1>7, <1>8, <1>9, <1>10, <1>11, <1>12, <1>13,
     <1>14, <1>15, <1>16, <1>17, <1>18, <1>19, <1>20, <1>21, <1>22, <1>23, <1>24, <1>25,
     <1>26, <1>27, <1>28, <1>29, <1>30, <1>31, <1>32 DEF Next, RedisNext, RefreshNext,
     CloseNext, CallerNext, WaiterNext

(* A refresh that does not report an error serves what it saw active.      *)
LEMMA HonestStep ==
  ASSUME ServingInv, [Next]_vars
  PROVE  StatusHonest'
<1> USE DEF ServingInv, TypeOK, LifeInv, JobInv, StatusHonest, Closed
<1>1. ASSUME NEW w \in SUBSET Keyword, NEW own \in BOOLEAN, Commit(w, own)
      PROVE  StatusHonest'
  BY <1>1 DEF Commit
<1>2. ASSUME MaintenanceStarts
      PROVE  StatusHonest'
  BY <1>2 DEF MaintenanceStarts
<1>3. ASSUME MaintenanceEnds
      PROVE  StatusHonest'
  BY <1>3 DEF MaintenanceEnds
<1>4. ASSUME NEW l \in Lease, Expire(l)
      PROVE  StatusHonest'
  BY <1>4 DEF Expire
<1>5. ASSUME NEW c \in Caller, AcquireCheck(c)
      PROVE  StatusHonest'
  BY <1>5 DEF AcquireCheck
<1>6. ASSUME NEW c \in Caller, AcquireLease(c)
      PROVE  StatusHonest'
  BY <1>6 DEF AcquireLease
<1>7. ASSUME NEW c \in Caller, AcquireRegister(c)
      PROVE  StatusHonest'
  BY <1>7 DEF AcquireRegister
<1>8. ASSUME NEW c \in Caller, CallerReleases(c)
      PROVE  StatusHonest'
  BY <1>8 DEF CallerReleases
<1>9. ASSUME SelectTick
      PROVE  StatusHonest'
  BY <1>9 DEF SelectTick
<1>10. ASSUME SelectNotified
       PROVE  StatusHonest'
  BY <1>10 DEF SelectNotified
<1>11. ASSUME Debounced
       PROVE  StatusHonest'
  BY <1>11 DEF Debounced
<1>12. ASSUME RefreshCheck
       PROVE  StatusHonest'
  BY <1>12 DEF RefreshCheck
<1>13. ASSUME RefreshActive
       PROVE  StatusHonest'
  BY <1>13 DEF RefreshActive
<1>14. ASSUME RefreshAcquire
       PROVE  StatusHonest'
  BY <1>14 DEF RefreshAcquire
<1>15. ASSUME RefreshRegister
       PROVE  StatusHonest'
  BY <1>15 DEF RefreshRegister
<1>16. ASSUME RefreshManifest
       PROVE  StatusHonest'
  BY <1>16 DEF RefreshManifest
<1>17. ASSUME RefreshBuild
       PROVE  StatusHonest'
  BY <1>17 DEF RefreshBuild
<1>18. ASSUME RefreshVerify
       PROVE  StatusHonest'
  BY <1>18 DEF RefreshVerify
<1>19. ASSUME RefreshInstall
       PROVE  StatusHonest'
  BY <1>19 DEF RefreshInstall
<1>20. ASSUME RefreshRelease
       PROVE  StatusHonest'
  BY <1>20 DEF RefreshRelease
<1>21. ASSUME RefreshFails
       PROVE  StatusHonest'
  BY <1>21 DEF RefreshFails
<1>22. ASSUME LoopStops
       PROVE  StatusHonest'
  BY <1>22 DEF LoopStops
<1>23. ASSUME NEW w \in Waiter, NEW n \in 1..MaxCommits, WaitStart(w, n)
       PROVE  StatusHonest'
  BY <1>23 DEF WaitStart
<1>24. ASSUME NEW w \in Waiter, WaitReturns(w)
       PROVE  StatusHonest'
  BY <1>24 DEF WaitReturns
<1>25. ASSUME NEW w \in Waiter, WaitClosed(w)
       PROVE  StatusHonest'
  BY <1>25 DEF WaitClosed
<1>26. ASSUME NEW w \in Waiter, WaitCanceled(w)
       PROVE  StatusHonest'
  BY <1>26 DEF WaitCanceled
<1>27. ASSUME RenewStops
       PROVE  StatusHonest'
  BY <1>27 DEF RenewStops
<1>28. ASSUME Close
       PROVE  StatusHonest'
  BY <1>28 DEF Close
<1>29. ASSUME CloseWaited
       PROVE  StatusHonest'
  BY <1>29 DEF CloseWaited
<1>30. ASSUME NEW l \in Lease, CloseLease(l)
       PROVE  StatusHonest'
  BY <1>30 DEF CloseLease
<1>31. ASSUME CloseClient
       PROVE  StatusHonest'
  BY <1>31 DEF CloseClient
<1>32. CASE UNCHANGED vars
  BY <1>32 DEF vars
<1> QED
  BY <1>1, <1>2, <1>3, <1>4, <1>5, <1>6, <1>7, <1>8, <1>9, <1>10, <1>11, <1>12, <1>13,
     <1>14, <1>15, <1>16, <1>17, <1>18, <1>19, <1>20, <1>21, <1>22, <1>23, <1>24, <1>25,
     <1>26, <1>27, <1>28, <1>29, <1>30, <1>31, <1>32 DEF Next, RedisNext, RefreshNext,
     CloseNext, CallerNext, WaiterNext

(* The lemmas together: every step keeps the invariant. *)
LEMMA ServingStep ==
  ASSUME ServingInv, [Next]_vars
  PROVE  ServingInv'
<1>1. TypeOK' /\ LifeInv' /\ LeaseAccounted'
  BY TypeStep, LifeStep, LeaseStep DEF ServingInv
<1>2. NothingAfterClose'
  BY <1>1 DEF TypeOK, LifeInv, NothingAfterClose
<1> QED
  BY <1>1, <1>2, JobStep, ExactStep, WaitStep, OrderedStep, HonestStep DEF ServingInv

-----------------------------------------------------------------------------
(* The collection's refresher, its status, its table of leases and Close   *)
(* fit together in every reachable state.                                  *)
THEOREM ServingCorrect == Spec => []ServingInv
BY ServingInit, ServingStep, PTL DEF Spec

(* Search runs on one whole committed generation, although engineBuckets   *)
(* reuses buckets of the engine before.                                    *)
THEOREM ServesWholeGenerations == Spec => []ServingExact
<1>1. ServingInv => ServingExact
  BY DEF ServingInv
<1> QED BY <1>1, ServingCorrect, PTL

(* Once WaitForVersion has returned, no refresh, failed or not, takes the  *)
(* version waited for away from the searches of this collection.           *)
THEOREM ReadAfterWait == Spec => []WaitKept
<1>1. ServingInv => WaitKept
  BY DEF ServingInv
<1> QED BY <1>1, ServingCorrect, PTL

(* status() never shows a served version ahead of the active one, however  *)
(* a refresh is interleaved with commits and with the status it updates.   *)
THEOREM StatusInOrder == Spec => []StatusOrdered
<1>1. ServingInv => StatusOrdered
  BY DEF ServingInv
<1> QED BY <1>1, ServingCorrect, PTL

(* recordRefreshResult lets no failed refresh pass for a current one. *)
THEOREM StatusRight == Spec => []StatusHonest
<1>1. ServingInv => StatusHonest
  BY DEF ServingInv
<1> QED BY <1>1, ServingCorrect, PTL

(* acquire and Close account for every lease of the collection in Redis.   *)
THEOREM LeasesAccounted == Spec => []LeaseAccounted
<1>1. ServingInv => LeaseAccounted
  BY DEF ServingInv
<1> QED BY <1>1, ServingCorrect, PTL

(* After Close the table is empty, the engine is gone and both goroutines  *)
(* have ended, however Close raced acquire and refresh.                    *)
THEOREM CloseLeavesNothing == Spec => []NothingAfterClose
<1>1. ServingInv => NothingAfterClose
  BY DEF ServingInv
<1> QED BY <1>1, ServingCorrect, PTL
=============================================================================
