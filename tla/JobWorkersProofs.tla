-------------------------- MODULE JobWorkersProofs --------------------------
(***************************************************************************)
(* Proofs about JobQueue and JobWorkers, for any number of jobs, workers,   *)
(* repositories and installations.                                          *)
(***************************************************************************)
EXTENDS JobWorkers, TLAPS

(* Only a job in the queue carries a lease token, and a number that is not  *)
(* taken yet has no attempts to its name.                                   *)
Fresh == /\ \A j \in Ids : token[j] # NoToken => j \in queue
         /\ \A j \in Ids : j > Len(job) => attempts[j] = 0

(* The inductive invariant of the queue alone.  EveryJobAccounted is what   *)
(* bounds the attempts that Retry looks Backoff up with.                    *)
QueueInv == QueueTypeOK /\ LeasedIsOldest /\ EveryJobAccounted /\ Fresh

(* A worker at work has a job that was enqueued.                            *)
HandsOn ==
    \A w \in Workers :
       phase[w] \in {"running", "lost", "ended"} => cur[w] \in 1 .. Len(job)

IInv == QueueInv /\ TypeOK /\ HandsOn

-----------------------------------------------------------------------------
(* One lemma per operation of the queue.                                    *)

(* Appending a job leaves the ones before it, and their keys, alone.        *)
LEMMA AppendKeeps ==
    ASSUME NEW S, NEW s \in Seq(S), NEW x \in S
    PROVE  /\ Append(s, x) \in Seq(S)
           /\ Len(Append(s, x)) = Len(s) + 1
           /\ \A k \in 1 .. Len(s) : Append(s, x)[k] = s[k]
  OBVIOUS

(* Enqueue keeps the queue's invariant: the new job is the youngest.        *)
LEMMA EnqueueKeeps ==
    ASSUME QueueInv, NEW i \in Installations, NEW r \in Repos \cup {NoRepo},
           Enqueue(i, r)
    PROVE  QueueInv' /\ Len(job') = Len(job) + 1
<1> DEFINE n == Len(job)
<1>1. [inst |-> i, repo |-> r] \in Job BY DEF Job
<1>2. /\ job' \in Seq(Job)
      /\ Len(job') = n + 1
      /\ \A k \in 1 .. n : job'[k] = job[k]
  BY <1>1, AppendKeeps DEF Enqueue, QueueInv, QueueTypeOK
<1>3. n \in Nat /\ n < MaxJobs BY DEF Enqueue, QueueInv, QueueTypeOK
<1>4. /\ queue' = queue \cup {n + 1}
      /\ queue \subseteq 1 .. n /\ dead \subseteq 1 .. n /\ finished \subseteq 1 .. n
      /\ dead' = dead /\ finished' = finished /\ attempts' = attempts /\ token' = token
      /\ notBefore' = notBefore /\ until' = until /\ paused' = paused
  BY DEF Enqueue, QueueInv, QueueTypeOK
<1>5. n + 1 \in Ids /\ n + 1 \notin queue
  BY <1>3, <1>4, QueueAssumption DEF Ids
<1> HIDE DEF n
<1>6. QueueTypeOK'
  <2>1. /\ queue' \subseteq 1 .. (n + 1)
        /\ dead' \subseteq 1 .. (n + 1)
        /\ finished' \subseteq 1 .. (n + 1)
    BY <1>3, <1>4
  <2>2. n + 1 <= MaxJobs BY <1>3, QueueAssumption
  <2> QED BY <2>1, <2>2, <1>2, <1>4 DEF QueueInv, QueueTypeOK
<1>7. token[n + 1] = NoToken /\ attempts[n + 1] = 0
  BY <1>3, <1>5 DEF QueueInv, Fresh, n
<1>8. LeasedIsOldest'
  BY <1>2, <1>3, <1>4, <1>7 DEF QueueInv, LeasedIsOldest, KeyOf, OrderKey
<1>9. Fresh'
  BY <1>2, <1>3, <1>4 DEF QueueInv, Fresh, n, Ids
<1>10. EveryJobAccounted'
  <2>1. queue \cup finished \cup dead = 1 .. n BY DEF QueueInv, EveryJobAccounted, n
  <2>2. 1 .. (n + 1) = (1 .. n) \cup {n + 1} BY <1>3
  <2>3. queue' \cup finished' \cup dead' = 1 .. Len(job') BY <1>2, <1>4, <2>1, <2>2
  <2>4. n + 1 \notin finished /\ n + 1 \notin dead BY <1>3, <1>4
  <2> QED BY <1>4, <1>7, <2>3, <2>4, QueueAssumption DEF QueueInv, EveryJobAccounted
<1> QED BY <1>2, <1>6, <1>8, <1>9, <1>10 DEF QueueInv, n

(* Taking back the expired leases keeps every job's account and order; the  *)
(* rest of Claim follows from it.                                           *)
LEMMA ExpireFacts ==
    ASSUME QueueInv
    PROVE  /\ Expired \subseteq queue /\ ExpiredDead \subseteq Expired
           /\ queue \subseteq Ids
           /\ ExpiredAttempts \in [Ids -> Nat]
           /\ ExpiredToken \in [Ids -> Workers \cup {NoToken}]
           /\ \A j \in ExpiredDead : ExpiredAttempts[j] = MaxAttempts /\ ExpiredToken[j] = NoToken
           /\ \A j \in queue \ ExpiredDead : ExpiredAttempts[j] < MaxAttempts
           /\ \A j \in Ids : ExpiredToken[j] # NoToken => token[j] = ExpiredToken[j]
           /\ \A j \in Ids \ queue : ExpiredAttempts[j] = attempts[j]
<1>1. Expired \subseteq queue /\ ExpiredDead \subseteq Expired
  BY DEF Expired, ExpiredDead
<1>2. queue \subseteq Ids
  BY QueueAssumption DEF QueueInv, QueueTypeOK, Ids
<1>3. attempts \in [Ids -> Nat] /\ token \in [Ids -> Workers \cup {NoToken}]
  BY DEF QueueInv, QueueTypeOK
<1>4. \A j \in queue : attempts[j] \in Nat /\ attempts[j] < MaxAttempts
  BY <1>2, <1>3 DEF QueueInv, EveryJobAccounted
<1>5. ExpiredAttempts \in [Ids -> Nat]
  BY <1>3 DEF ExpiredAttempts
<1>6. ExpiredToken \in [Ids -> Workers \cup {NoToken}]
  BY <1>3 DEF ExpiredToken
<1>7. \A j \in ExpiredDead : ExpiredAttempts[j] = MaxAttempts /\ ExpiredToken[j] = NoToken
  BY <1>1, <1>2, <1>4, QueueAssumption DEF ExpiredDead, ExpiredAttempts, ExpiredToken
<1>8. \A j \in queue \ ExpiredDead : ExpiredAttempts[j] < MaxAttempts
  BY <1>1, <1>2, <1>4, QueueAssumption DEF ExpiredDead, ExpiredAttempts
<1>9. \A j \in Ids : ExpiredToken[j] # NoToken => token[j] = ExpiredToken[j]
  BY DEF ExpiredToken
<1>10. \A j \in Ids \ queue : ExpiredAttempts[j] = attempts[j]
  BY <1>1 DEF ExpiredAttempts
<1> QED BY <1>1, <1>2, <1>5, <1>6, <1>7, <1>8, <1>9, <1>10

(* What Claim and ClaimNone share, before any job is leased anew.           *)
LEMMA ExpireKeeps ==
    ASSUME QueueInv, expireLocked, NEW t \in [Ids -> Workers \cup {NoToken}],
           token' = t, until' \in [Ids -> Nat],
           \A j \in Ids : t[j] # NoToken => j \in queue',
           \A j, k \in queue' : t[j] # NoToken /\ KeyOf(j) = KeyOf(k) => j <= k
    PROVE  QueueInv' /\ Len(job') = Len(job)
<1>1. QueueTypeOK' BY ExpireFacts DEF expireLocked, QueueInv, QueueTypeOK
<1>2. LeasedIsOldest' BY DEF expireLocked, QueueInv, LeasedIsOldest, KeyOf, OrderKey
<1>3. EveryJobAccounted'
  <2>1. /\ queue' = queue \ ExpiredDead /\ dead' = dead \cup ExpiredDead
        /\ finished' = finished /\ job' = job /\ attempts' = ExpiredAttempts
    BY DEF expireLocked
  <2>2. queue' \cup finished' \cup dead' = 1 .. Len(job')
    BY <2>1, ExpireFacts DEF QueueInv, EveryJobAccounted
  <2>3. /\ queue' \cap finished' = {} /\ queue' \cap dead' = {}
        /\ finished' \cap dead' = {}
    BY <2>1, ExpireFacts DEF QueueInv, EveryJobAccounted
  <2>4. finished \subseteq Ids \ queue /\ dead \subseteq Ids \ queue
    BY QueueAssumption DEF QueueInv, QueueTypeOK, EveryJobAccounted, Ids
  <2>5. \A j \in dead' : attempts'[j] = MaxAttempts
    BY <2>1, <2>4, ExpireFacts DEF QueueInv, EveryJobAccounted
  <2>6. \A j \in queue' \cup finished' : attempts'[j] < MaxAttempts
    BY <2>1, <2>4, ExpireFacts DEF QueueInv, EveryJobAccounted
  <2> QED BY <2>2, <2>3, <2>5, <2>6 DEF EveryJobAccounted
<1>4. Fresh'
  <2>1. \A j \in Ids : j > Len(job) => j \notin queue
    BY DEF QueueInv, QueueTypeOK, Ids
  <2> QED BY <2>1, ExpireFacts DEF expireLocked, QueueInv, Fresh
<1> QED BY <1>1, <1>2, <1>3, <1>4 DEF QueueInv, expireLocked

(* Claim leases the oldest ready job: no older one of its key is queued.    *)
LEMMA ClaimKeeps ==
    ASSUME QueueInv, NEW w \in Workers, NEW j \in queue, Claim(w, j)
    PROVE  QueueInv' /\ Len(job') = Len(job)
<1> DEFINE t == [ExpiredToken EXCEPT ![j] = w]
<1>1. t \in [Ids -> Workers \cup {NoToken}] BY ExpireFacts
<1>2. j \in Ids /\ j \in queue' /\ queue' \subseteq queue /\ queue' = queue \ ExpiredDead
  BY ExpireFacts DEF Claim, Ready, expireLocked
<1>3. until' \in [Ids -> Nat]
  BY QueueAssumption DEF Claim, QueueInv, QueueTypeOK
<1>4. ASSUME NEW k \in Ids, t[k] # NoToken PROVE k \in queue'
  <2>1. CASE k = j BY <2>1, <1>2
  <2>2. CASE k # j
    <3>1. ExpiredToken[k] # NoToken BY <2>2, <1>4, ExpireFacts
    <3>2. k \notin ExpiredDead BY <3>1, ExpireFacts
    <3>3. k \in queue BY <3>1, ExpireFacts DEF QueueInv, Fresh
    <3> QED BY <3>2, <3>3, <1>2
  <2> QED BY <2>1, <2>2
<1>5. ASSUME NEW k \in queue', NEW l \in queue', t[k] # NoToken, KeyOf(k) = KeyOf(l)
      PROVE  k <= l
  <2>0. k \in Int /\ l \in Int BY <1>2, ExpireFacts DEF Ids
  <2>1. CASE k = j
    <3>1. IsHead(j, queue') BY <1>2 DEF Claim, Ready
    <3> QED BY <2>0, <2>1, <3>1, <1>5 DEF IsHead
  <2>2. CASE k # j
    <3>1. token[k] # NoToken BY <2>2, <1>2, <1>5, ExpireFacts
    <3> QED BY <3>1, <1>2, <1>5 DEF QueueInv, LeasedIsOldest
  <2> QED BY <2>1, <2>2
<1>6. expireLocked /\ token' = t BY DEF Claim
<1> HIDE DEF t
<1> QED BY <1>1, <1>3, <1>4, <1>5, <1>6, ExpireKeeps

(* A Claim that finds nothing still takes the expired leases back.          *)
LEMMA ClaimNoneKeeps ==
    ASSUME QueueInv, ClaimNone
    PROVE  QueueInv' /\ Len(job') = Len(job)
<1>1. ExpiredToken \in [Ids -> Workers \cup {NoToken}] BY ExpireFacts
<1>2. until' \in [Ids -> Nat] BY DEF ClaimNone, QueueInv, QueueTypeOK
<1>3. expireLocked /\ token' = ExpiredToken /\ queue' = queue \ ExpiredDead
  BY DEF ClaimNone, expireLocked
<1>4. \A k \in Ids : ExpiredToken[k] # NoToken => k \in queue'
  BY <1>3, ExpireFacts DEF QueueInv, Fresh
<1>5. \A k, l \in queue' : ExpiredToken[k] # NoToken /\ KeyOf(k) = KeyOf(l) => k <= l
  BY <1>3, ExpireFacts DEF QueueInv, LeasedIsOldest
<1> QED BY <1>1, <1>2, <1>3, <1>4, <1>5, ExpireKeeps

(* Extend only moves the end of a lease.                                    *)
LEMMA ExtendKeeps ==
    ASSUME QueueInv, NEW w \in Workers, NEW j, Extend(w, j)
    PROVE  QueueInv' /\ Len(job') = Len(job)
  BY QueueAssumption
  DEF Extend, QueueInv, QueueTypeOK, LeasedIsOldest, EveryJobAccounted, Fresh,
      KeyOf, OrderKey

(* Done removes a leased job and nothing else.                              *)
LEMMA DoneKeeps ==
    ASSUME QueueInv, NEW w \in Workers, NEW j, Done(w, j)
    PROVE  QueueInv' /\ Len(job') = Len(job)
<1>1. j \in queue /\ j \in Ids BY ExpireFacts DEF Done, find
<1>2. QueueTypeOK' BY <1>1 DEF Done, QueueInv, QueueTypeOK
<1>3. LeasedIsOldest' BY <1>1, ExpireFacts DEF Done, QueueInv, QueueTypeOK, LeasedIsOldest, KeyOf, OrderKey
<1>4. EveryJobAccounted' BY <1>1 DEF Done, QueueInv, EveryJobAccounted
<1>5. Fresh' BY <1>1 DEF Done, QueueInv, QueueTypeOK, Fresh
<1> QED BY <1>2, <1>3, <1>4, <1>5 DEF QueueInv, Done

(* Retry counts the attempt and sets the job aside exactly at the last one. *)
LEMMA RetryKeeps ==
    ASSUME QueueInv, NEW w \in Workers, NEW j, NEW d \in Nat, Retry(w, j, d)
    PROVE  QueueInv' /\ Len(job') = Len(job)
<1>1. j \in queue /\ j \in Ids /\ j \in 1 .. Len(job) /\ queue \subseteq Ids
  BY ExpireFacts DEF Retry, find, QueueInv, QueueTypeOK
<1>2. attempts[j] \in Nat /\ attempts[j] + 1 <= MaxAttempts
  BY <1>1, QueueAssumption DEF QueueInv, QueueTypeOK, EveryJobAccounted
<1>3. QueueTypeOK'
  <2>1. attempts' \in [Ids -> Nat] /\ token' \in [Ids -> Workers \cup {NoToken}]
    BY <1>1 DEF Retry, QueueInv, QueueTypeOK
  <2>2. notBefore' \in [Ids -> Nat] BY <1>1 DEF Retry, QueueInv, QueueTypeOK
  <2>3. queue' \subseteq 1 .. Len(job) /\ dead' \subseteq 1 .. Len(job)
    BY <1>1 DEF Retry, QueueInv, QueueTypeOK
  <2> QED BY <2>1, <2>2, <2>3 DEF Retry, QueueInv, QueueTypeOK
<1>4. queue' \subseteq queue BY DEF Retry
<1>5. LeasedIsOldest'
  BY <1>1, <1>4 DEF Retry, QueueInv, QueueTypeOK, LeasedIsOldest, KeyOf, OrderKey
<1>6. EveryJobAccounted'
  <2>1. CASE attempts[j] + 1 >= MaxAttempts
    BY <2>1, <1>1, <1>2, QueueAssumption DEF Retry, QueueInv, QueueTypeOK, EveryJobAccounted
  <2>2. CASE ~(attempts[j] + 1 >= MaxAttempts)
    BY <2>2, <1>1, <1>2, QueueAssumption DEF Retry, QueueInv, QueueTypeOK, EveryJobAccounted
  <2> QED BY <2>1, <2>2
<1>7. Fresh'
  BY <1>1 DEF Retry, QueueInv, QueueTypeOK, Fresh, Ids
<1> QED BY <1>3, <1>5, <1>6, <1>7 DEF QueueInv, Retry

(* Pause gives the lease back and leaves the account alone.                 *)
LEMMA PauseKeeps ==
    ASSUME QueueInv, NEW w \in Workers, NEW j, NEW d \in Nat, Pause(w, j, d)
    PROVE  QueueInv' /\ Len(job') = Len(job)
<1>1. j \in queue /\ queue \subseteq Ids BY ExpireFacts DEF Pause, find
<1>2. job[j] \in Job BY <1>1 DEF QueueInv, QueueTypeOK
<1>3. paused' \in [Installations -> Nat]
  BY <1>2 DEF Pause, QueueInv, QueueTypeOK, Job
<1>4. QueueTypeOK' BY <1>1, <1>3 DEF Pause, QueueInv, QueueTypeOK
<1>5. LeasedIsOldest' BY <1>1 DEF Pause, QueueInv, QueueTypeOK, LeasedIsOldest, KeyOf, OrderKey
<1>6. EveryJobAccounted' BY DEF Pause, QueueInv, EveryJobAccounted
<1>7. Fresh' BY DEF Pause, QueueInv, QueueTypeOK, Fresh
<1> QED BY <1>4, <1>5, <1>6, <1>7 DEF QueueInv, Pause

(* Time only shortens what is left of the waits and the leases.             *)
LEMMA TickKeeps ==
    ASSUME QueueInv, Tick
    PROVE  QueueInv' /\ Len(job') = Len(job)
<1>1. QueueTypeOK' BY DEF Tick, Less, QueueInv, QueueTypeOK
<1> QED BY <1>1 DEF Tick, QueueInv, LeasedIsOldest, EveryJobAccounted, Fresh, KeyOf, OrderKey

-----------------------------------------------------------------------------
(* The workers.                                                             *)

(* The invariant holds before anything is enqueued.                         *)
LEMMA InitInv == Init => IInv
<1> SUFFICES ASSUME Init PROVE IInv OBVIOUS
<1>1. Len(job) = 0 /\ job \in Seq(Job) BY DEF Init, QueueInit
<1>2. QueueTypeOK BY <1>1, QueueAssumption DEF Init, QueueInit, QueueTypeOK
<1>3. LeasedIsOldest BY DEF Init, QueueInit, LeasedIsOldest
<1>4. EveryJobAccounted BY <1>1 DEF Init, QueueInit, EveryJobAccounted
<1>5. Fresh BY DEF Init, QueueInit, Fresh
<1>6. TypeOK BY <1>2 DEF Init, TypeOK, Phases, Outcomes
<1>7. HandsOn BY DEF Init, HandsOn
<1> QED BY <1>2, <1>3, <1>4, <1>5, <1>6, <1>7 DEF IInv, QueueInv

(* finish calls the queue once, or not at all when the lease is gone.       *)
LEMMA EndLeaseKeeps ==
    ASSUME IInv, NEW w \in Workers, EndLease(w)
    PROVE  QueueInv' /\ Len(job') = Len(job)
<1>1. CASE outcome[w] = "ok" /\ Done(w, cur[w])
  BY <1>1, DoneKeeps DEF IInv
<1>2. CASE outcome[w] = "failed" /\ Retry(w, cur[w], Backoff[attempts[cur[w]] + 1])
  <2>1. cur[w] \in queue /\ cur[w] \in Ids
    BY <1>2, ExpireFacts DEF Retry, find, IInv
  <2>2. attempts[cur[w]] + 1 \in 1 .. MaxAttempts
    BY <2>1, QueueAssumption DEF IInv, QueueInv, QueueTypeOK, EveryJobAccounted
  <2>3. Backoff[attempts[cur[w]] + 1] \in Nat BY <2>2, BackoffAssumption
  <2> QED BY <1>2, <2>3, RetryKeeps DEF IInv
<1>3. CASE outcome[w] = "limited" /\ \E t \in PauseTicks : Pause(w, cur[w], t)
  BY <1>3, PauseKeeps, WorkerAssumption DEF IInv
<1>4. CASE ~find(w, cur[w]) /\ UNCHANGED queueVars
  BY <1>4 DEF queueVars, IInv, QueueInv, QueueTypeOK, LeasedIsOldest,
      EveryJobAccounted, Fresh, KeyOf, OrderKey
<1> QED BY <1>1, <1>2, <1>3, <1>4 DEF EndLease

(* A step that leaves the queue alone keeps its invariant.                  *)
LEMMA QueueUnchanged ==
    ASSUME QueueInv, UNCHANGED queueVars
    PROVE  QueueInv' /\ Len(job') = Len(job)
  BY DEF queueVars, QueueInv, QueueTypeOK, LeasedIsOldest, EveryJobAccounted,
         Fresh, KeyOf, OrderKey

(* Every step keeps the invariant.                                          *)
LEMMA NextInv == IInv /\ [Next]_vars => IInv'
<1> SUFFICES ASSUME IInv, [Next]_vars PROVE IInv' OBVIOUS
<1> USE DEF IInv
<1>0. Len(job) \in Nat BY DEF QueueInv, QueueTypeOK
<1>1. CASE Deliver
  <2>1. QueueInv' /\ Len(job') = Len(job) + 1 BY <1>1, EnqueueKeeps DEF Deliver
  <2> QED BY <1>0, <1>1, <2>1 DEF Deliver, workerVars, TypeOK, HandsOn, QueueInv
<1>2. CASE TimePasses
  <2>1. QueueInv' /\ Len(job') = Len(job) BY <1>2, TickKeeps DEF TimePasses
  <2> QED BY <1>2, <2>1 DEF TimePasses, workerVars, TypeOK, HandsOn, QueueInv
<1>3. ASSUME NEW w \in Workers, RunOneClaims(w) PROVE IInv'
  <2>1. PICK j \in queue : Claim(w, j) /\ cur' = [cur EXCEPT ![w] = j]
    BY <1>3 DEF RunOneClaims
  <2>2. QueueInv' /\ Len(job') = Len(job) BY <2>1, ClaimKeeps
  <2>3. j \in 1 .. Len(job) /\ j \in Ids BY ExpireFacts DEF QueueInv, QueueTypeOK
  <2>4. TypeOK' BY <1>3, <2>1, <2>2, <2>3 DEF RunOneClaims, TypeOK, QueueInv, Phases
  <2>5. HandsOn' BY <1>3, <2>1, <2>2, <2>3 DEF RunOneClaims, TypeOK, HandsOn
  <2> QED BY <2>2, <2>4, <2>5
<1>4. ASSUME NEW w \in Workers, RunOneFindsNone(w) PROVE IInv'
  <2>1. QueueInv' /\ Len(job') = Len(job) BY <1>4, ClaimNoneKeeps DEF RunOneFindsNone
  <2> QED BY <1>4, <2>1 DEF RunOneFindsNone, workerVars, TypeOK, HandsOn, QueueInv
<1>5. ASSUME NEW w \in Workers, KeepLease(w) PROVE IInv'
  <2>1. QueueInv' /\ Len(job') = Len(job) BY <1>5, ExtendKeeps DEF KeepLease
  <2> QED BY <1>5, <2>1 DEF KeepLease, workerVars, TypeOK, HandsOn, QueueInv
<1>6. ASSUME NEW w \in Workers, KeepLeaseLost(w) PROVE IInv'
  <2>1. QueueInv' /\ Len(job') = Len(job) BY <1>6, QueueUnchanged DEF KeepLeaseLost
  <2> QED BY <1>6, <2>1 DEF KeepLeaseLost, TypeOK, HandsOn, QueueInv, Phases
<1>7. ASSUME NEW w \in Workers, EnqueueRepos(w) PROVE IInv'
  <2>1. job[cur[w]] \in Job
    BY <1>7 DEF EnqueueRepos, HandsOn, QueueInv, QueueTypeOK
  <2>2. PICK r \in Repos : Enqueue(job[cur[w]].inst, r) BY <1>7 DEF EnqueueRepos
  <2>3. QueueInv' /\ Len(job') = Len(job) + 1
    BY <2>1, <2>2, EnqueueKeeps DEF Job
  <2> QED BY <1>0, <1>7, <2>3 DEF EnqueueRepos, workerVars, TypeOK, HandsOn, QueueInv
<1>8. ASSUME NEW w \in Workers, BodyReturns(w) PROVE IInv'
  <2>1. QueueInv' /\ Len(job') = Len(job) BY <1>8, QueueUnchanged DEF BodyReturns
  <2>2. PICK o \in Outcomes : /\ outcome' = [outcome EXCEPT ![w] = o]
                              /\ pauses' = IF o = "limited" THEN pauses + 1 ELSE pauses
    BY <1>8 DEF BodyReturns
  <2> QED BY <1>8, <2>1, <2>2 DEF BodyReturns, TypeOK, HandsOn, QueueInv, Phases
<1>9. ASSUME NEW w \in Workers, LostBodyReturns(w) PROVE IInv'
  <2>1. QueueInv' /\ Len(job') = Len(job) BY <1>9, QueueUnchanged DEF LostBodyReturns
  <2> QED BY <1>9, <2>1 DEF LostBodyReturns, TypeOK, HandsOn, QueueInv, Phases
<1>10. ASSUME NEW w \in Workers, Finish(w) PROVE IInv'
  <2>1. QueueInv' /\ Len(job') = Len(job) BY <1>10, EndLeaseKeeps DEF Finish
  <2> QED BY <1>10, <2>1 DEF Finish, TypeOK, HandsOn, QueueInv, Phases, Outcomes
<1>11. ASSUME NEW w \in Workers, Stop(w) PROVE IInv'
  <2>1. QueueInv' /\ Len(job') = Len(job) BY <1>11, QueueUnchanged DEF Stop
  <2> QED BY <1>11, <2>1 DEF Stop, TypeOK, HandsOn, QueueInv, Phases, Outcomes
<1>12. ASSUME NEW w \in Workers, Start(w) PROVE IInv'
  <2>1. QueueInv' /\ Len(job') = Len(job) BY <1>12, QueueUnchanged DEF Start
  <2> QED BY <1>12, <2>1 DEF Start, TypeOK, HandsOn, QueueInv, Phases
<1>13. CASE UNCHANGED vars
  <2>1. QueueInv' /\ Len(job') = Len(job) BY <1>13, QueueUnchanged DEF vars
  <2> QED BY <1>13, <2>1 DEF vars, workerVars, TypeOK, HandsOn, QueueInv
<1> QED
  BY <1>1, <1>2, <1>3, <1>4, <1>5, <1>6, <1>7, <1>8, <1>9, <1>10, <1>11, <1>12, <1>13
  DEF Next, WorkerStep

(* The inductive invariant holds throughout.                                *)
THEOREM Invariance == Spec => []IInv
<1>1. Init => IInv BY InitInv
<1>2. IInv /\ [Next]_vars => IInv' BY NextInv
<1> QED BY <1>1, <1>2, PTL DEF Spec

(* Every variable of the queue and the workers keeps its type.              *)
THEOREM TypeCorrect == Spec => []TypeOK
<1>1. IInv => TypeOK BY DEF IInv
<1> QED BY <1>1, Invariance, PTL

(* Claim, Retry, Pause, Done and expiry keep the order of every key: a      *)
(* leased job is the oldest of its key in the queue.                        *)
THEOREM LeasedIsOldestAlways == Spec => []LeasedIsOldest
<1>1. IInv => LeasedIsOldest BY DEF IInv, QueueInv
<1> QED BY <1>1, Invariance, PTL

(* "Never two at once": no two jobs of one key are leased together.         *)
THEOREM OneLeasePerKeyAlways == Spec => []OneLeasePerKey
<1>1. IInv => OneLeasePerKey
  <2> SUFFICES ASSUME IInv, NEW j \in queue, NEW k \in queue, token[j] # NoToken,
                      token[k] # NoToken, KeyOf(j) = KeyOf(k)
               PROVE  j = k
    BY DEF OneLeasePerKey
  <2>1. j <= k /\ k <= j BY DEF IInv, QueueInv, LeasedIsOldest
  <2>2. j \in Int /\ k \in Int BY ExpireFacts DEF IInv, Ids
  <2> QED BY <2>1, <2>2
<1> QED BY <1>1, Invariance, PTL

(* No job is lost, kept twice, or dead-lettered before or after its last    *)
(* attempt.                                                                 *)
THEOREM EveryJobAccountedAlways == Spec => []EveryJobAccounted
<1>1. IInv => EveryJobAccounted BY DEF IInv, QueueInv
<1> QED BY <1>1, Invariance, PTL

(* The queue honours at most one worker of each key.                        *)
THEOREM OneHonouredWorkerAlways == Spec => []OneHonouredWorkerPerKey
<1>1. IInv => OneHonouredWorkerPerKey
  <2> SUFFICES ASSUME IInv, NEW v \in Workers, NEW w \in Workers, Current(v), Current(w),
                      KeyOf(cur[v]) = KeyOf(cur[w])
               PROVE  v = w
    BY DEF OneHonouredWorkerPerKey
  <2>1. /\ cur[v] \in queue /\ token[cur[v]] = v
        /\ cur[w] \in queue /\ token[cur[w]] = w
    BY DEF Current, find
  <2>2. cur[v] <= cur[w] /\ cur[w] <= cur[v]
    BY <2>1, QueueAssumption DEF IInv, QueueInv, LeasedIsOldest
  <2>3. cur[v] \in Int /\ cur[w] \in Int BY <2>1, ExpireFacts DEF IInv, Ids
  <2>4. cur[v] = cur[w] BY <2>2, <2>3
  <2> QED BY <2>1, <2>4
<1> QED BY <1>1, Invariance, PTL

-----------------------------------------------------------------------------
(* The action properties.                                                   *)

(* A step that takes jobs out of the queue adds none, and takes only leased *)
(* ones: those that Done or Retry name, or whose lease ran out.             *)
LEMMA LeavesLeased ==
    ASSUME IInv, [Next]_vars
    PROVE  \/ queue \subseteq queue'
           \/ queue' \subseteq queue /\ \A j \in queue \ queue' : token[j] # NoToken
<1> DEFINE Leaves == \/ queue \subseteq queue'
                     \/ queue' \subseteq queue /\ \A j \in queue \ queue' : token[j] # NoToken
<1>1. ASSUME expireLocked PROVE Leaves
  BY <1>1 DEF expireLocked, ExpiredDead, Expired
<1>2. CASE Deliver BY <1>2 DEF Deliver, Enqueue
<1>3. CASE TimePasses BY <1>3 DEF TimePasses, Tick
<1>4. ASSUME NEW w \in Workers, RunOneClaims(w) PROVE Leaves
  BY <1>1, <1>4 DEF RunOneClaims, Claim
<1>5. ASSUME NEW w \in Workers, RunOneFindsNone(w) PROVE Leaves
  BY <1>1, <1>5 DEF RunOneFindsNone, ClaimNone
<1>6. ASSUME NEW w \in Workers, KeepLease(w) PROVE Leaves BY <1>6 DEF KeepLease, Extend
<1>7. ASSUME NEW w \in Workers, EnqueueRepos(w) PROVE Leaves
  BY <1>7 DEF EnqueueRepos, Enqueue
<1>8. ASSUME NEW w \in Workers, Finish(w) PROVE Leaves
  <2>1. CASE Done(w, cur[w]) BY <2>1, QueueAssumption DEF Done, find
  <2>2. CASE Retry(w, cur[w], Backoff[attempts[cur[w]] + 1])
    BY <2>2, QueueAssumption DEF Retry, find
  <2>3. ASSUME NEW t \in PauseTicks, Pause(w, cur[w], t) PROVE Leaves BY <2>3 DEF Pause
  <2>4. CASE UNCHANGED queueVars BY <2>4 DEF queueVars
  <2> QED BY <1>8, <2>1, <2>2, <2>3, <2>4 DEF Finish, EndLease
<1>9. CASE UNCHANGED queue BY <1>9
<1> QED
  BY <1>2, <1>3, <1>4, <1>5, <1>6, <1>7, <1>8, <1>9
  DEF Next, WorkerStep, KeepLeaseLost, BodyReturns, LostBodyReturns, Stop, Start, vars, queueVars

(* Jobs of one key leave the queue, done or dead, in the order they came:   *)
(* what leaves was leased, and so the oldest of its key.                    *)
THEOREM JobsLeaveInOrder == Spec => LeaveInOrder
<1>1. ASSUME IInv, [Next]_vars
      PROVE  [\A j \in queue \ queue' : \A k \in queue' : KeyOf(k) = KeyOf(j) => j < k]_vars
  <2> SUFFICES ASSUME NEW j \in queue \ queue', NEW k \in queue', KeyOf(k) = KeyOf(j)
               PROVE  j < k
    OBVIOUS
  <2>1. queue' \subseteq queue /\ token[j] # NoToken BY <1>1, LeavesLeased
  <2>2. j <= k BY <1>1, <2>1 DEF IInv, QueueInv, LeasedIsOldest
  <2>3. j \in Int /\ k \in Int BY <1>1, <2>1, ExpireFacts DEF IInv, Ids
  <2> QED BY <2>2, <2>3
<1> QED BY <1>1, Invariance, PTL DEF Spec, LeaveInOrder

(* Only time shortens a pause: of two rate limits the longer is waited out, *)
(* in whichever order the workers report them.                              *)
THEOREM PausesWaitedOut == Spec => PauseWaitedOut
<1>1. ASSUME IInv, [Next]_vars
      PROVE  [\A i \in Installations : paused'[i] >= paused[i] \/ TimePasses]_vars
  <2> DEFINE Longer == \A i \in Installations : paused'[i] >= paused[i]
  <2>1. paused \in [Installations -> Nat] BY <1>1 DEF IInv, QueueInv, QueueTypeOK
  <2>2. ASSUME UNCHANGED paused PROVE Longer BY <2>1, <2>2
  <2>3. ASSUME NEW w \in Workers, Finish(w) PROVE Longer
    <3>1. ASSUME NEW t \in PauseTicks, Pause(w, cur[w], t) PROVE Longer
      <4>1. job[cur[w]] \in Job
        <5>1. cur[w] \in queue BY <3>1 DEF Pause, find
        <5>2. job \in Seq(Job) /\ queue \subseteq 1 .. Len(job)
          BY <1>1 DEF IInv, QueueInv, QueueTypeOK
        <5>3. cur[w] \in 1 .. Len(job) BY <5>1, <5>2
        <5> QED BY <5>2, <5>3
      <4>2. t \in Nat BY WorkerAssumption
      <4> QED BY <2>1, <3>1, <4>1, <4>2 DEF Pause, Job
    <3> QED BY <2>2, <2>3, <3>1 DEF Finish, EndLease, Done, Retry, queueVars
  <2>4. CASE Next /\ ~TimePasses
    BY <2>2, <2>3, <2>4
    DEF Next, WorkerStep, Deliver, Enqueue, RunOneClaims, Claim, RunOneFindsNone, ClaimNone,
        expireLocked, KeepLease, Extend, KeepLeaseLost, EnqueueRepos, BodyReturns,
        LostBodyReturns, Stop, Start, queueVars
  <2> QED BY <1>1, <2>2, <2>4 DEF vars, queueVars
<1> QED BY <1>1, Invariance, PTL DEF Spec, PauseWaitedOut

(* A lease that has not run out ends only by its holder's doing: neither a  *)
(* Claim, nor another worker's late Done, Retry or Pause touches it.        *)
THEOREM LeasesEndedByHolder == Spec => LeaseOnlyEndedByHolder
<1>1. ASSUME IInv, [Next]_vars
      PROVE  [\A w \in Workers : Current(w) /\ ~Current(w)' =>
                 Finish(w) \/ Stop(w) \/ TimePasses]_vars
  <2> SUFFICES ASSUME NEW w \in Workers, Current(w), ~Finish(w), ~Stop(w), ~TimePasses
               PROVE  Current(w)'
    OBVIOUS
  <2> DEFINE c == cur[w]
             Kept == c \in queue' /\ token'[c] = w /\ until'[c] > 0
             Same == phase'[w] \in {"running", "ended"} /\ cur'[w] = c
  <2>1. /\ phase[w] \in {"running", "ended"}
        /\ c \in queue /\ token[c] = w /\ until[c] > 0
    BY DEF Current, find
  <2>2. /\ phase \in [Workers -> Phases] /\ cur \in [Workers -> Ids \cup {0}]
        /\ token \in [Ids -> Workers \cup {NoToken}] /\ until \in [Ids -> Nat]
        /\ queue \subseteq Ids /\ c \in Ids
    <3>1. queue \subseteq Ids BY <1>1, ExpireFacts DEF IInv
    <3> QED BY <1>1, <2>1, <3>1 DEF IInv, TypeOK, QueueTypeOK
  <2>3. Kept /\ Same => Current(w)' BY DEF Current, find
  <2>4. ASSUME queue \subseteq queue', token' = token, until' = until PROVE Kept
    BY <2>1, <2>4
  <2>5. ASSUME workerVars' = workerVars PROVE Same BY <2>1, <2>5 DEF workerVars
  <2>6. ASSUME NEW v \in Workers, v # w,
               cur' = [cur EXCEPT ![v] = cur'[v]], phase' = [phase EXCEPT ![v] = phase'[v]]
        PROVE  Same
    BY <2>1, <2>2, <2>6
  <2> HIDE DEF c, Kept, Same
  <2>7. CASE Deliver
    <3>1. Kept BY <2>4, <2>7 DEF Deliver, Enqueue
    <3> QED BY <2>3, <2>5, <2>7, <3>1 DEF Deliver
  <2>8. ASSUME NEW v \in Workers, RunOneClaims(v) PROVE Current(w)'
    <3>1. v # w BY <2>1, <2>8 DEF RunOneClaims
    <3>2. Same BY <2>6, <2>8, <3>1, <2>2 DEF RunOneClaims
    <3>3. PICK j \in queue : Claim(v, j) BY <2>8 DEF RunOneClaims
    <3>4. c \notin Expired /\ ExpiredToken[c] = w /\ w # NoToken
      BY <2>1, <2>2, QueueAssumption DEF Expired, ExpiredToken
    <3>5. j # c BY <3>3, <3>4 DEF Claim, Ready
    <3> QED BY <2>1, <2>2, <2>3, <3>2, <3>3, <3>4, <3>5
            DEF Kept, Claim, expireLocked, ExpiredDead, ExpiredToken
  <2>9. ASSUME NEW v \in Workers, RunOneFindsNone(v) PROVE Current(w)'
    <3>1. c \notin Expired /\ ExpiredToken[c] = w
      BY <2>1, <2>2 DEF Expired, ExpiredToken
    <3> QED BY <2>1, <2>3, <2>5, <2>9, <3>1
            DEF Kept, RunOneFindsNone, ClaimNone, expireLocked, ExpiredDead
  <2>10. ASSUME NEW v \in Workers, KeepLease(v) PROVE Current(w)'
    BY <2>1, <2>2, <2>3, <2>5, <2>10, QueueAssumption DEF Kept, KeepLease, Extend, find
  <2>11. ASSUME NEW v \in Workers, KeepLeaseLost(v) PROVE Current(w)'
    <3>1. v # w BY <2>11 DEF KeepLeaseLost, Current
    <3>2. Same BY <2>6, <2>11, <3>1, <2>2 DEF KeepLeaseLost
    <3> QED BY <2>3, <2>4, <2>11, <3>2 DEF KeepLeaseLost, queueVars
  <2>12. ASSUME NEW v \in Workers, EnqueueRepos(v) PROVE Current(w)'
    <3>1. Kept BY <2>4, <2>12 DEF EnqueueRepos, Enqueue
    <3> QED BY <2>3, <2>5, <2>12, <3>1 DEF EnqueueRepos
  <2>13. ASSUME NEW v \in Workers, BodyReturns(v) PROVE Current(w)'
    <3>1. Same BY <2>1, <2>2, <2>13 DEF Same, c, BodyReturns
    <3> QED BY <2>3, <2>4, <2>13, <3>1 DEF BodyReturns, queueVars
  <2>14. ASSUME NEW v \in Workers, LostBodyReturns(v) PROVE Current(w)'
    <3>1. v # w BY <2>1, <2>14 DEF LostBodyReturns
    <3>2. Same BY <2>1, <2>2, <2>14, <3>1 DEF Same, c, LostBodyReturns
    <3> QED BY <2>3, <2>4, <2>14, <3>2 DEF LostBodyReturns, queueVars
  <2>15. ASSUME NEW v \in Workers, Finish(v) PROVE Current(w)'
    <3>1. v # w BY <2>15
    <3>2. Same BY <2>1, <2>2, <2>15, <3>1 DEF Same, c, Finish
    <3>3. CASE Done(v, cur[v])
      BY <2>1, <2>2, <2>3, <3>1, <3>2, <3>3 DEF Kept, Done, find
    <3>4. CASE Retry(v, cur[v], Backoff[attempts[cur[v]] + 1])
      BY <2>1, <2>2, <2>3, <3>1, <3>2, <3>4 DEF Kept, Retry, find
    <3>5. ASSUME NEW t \in PauseTicks, Pause(v, cur[v], t) PROVE Current(w)'
      BY <2>1, <2>2, <2>3, <3>1, <3>2, <3>5 DEF Kept, Pause, find
    <3>6. CASE UNCHANGED queueVars BY <2>3, <2>4, <3>2, <3>6 DEF queueVars
    <3> QED BY <2>15, <3>3, <3>4, <3>5, <3>6 DEF Finish, EndLease
  <2>16. ASSUME NEW v \in Workers, Stop(v) PROVE Current(w)'
    <3>1. v # w BY <2>16
    <3>2. Same BY <2>1, <2>2, <2>16, <3>1 DEF Same, c, Stop
    <3> QED BY <2>3, <2>4, <2>16, <3>2 DEF Stop, queueVars
  <2>17. ASSUME NEW v \in Workers, Start(v) PROVE Current(w)'
    <3>1. v # w BY <2>1, <2>17 DEF Start
    <3>2. Same BY <2>1, <2>2, <2>17, <3>1 DEF Same, c, Start
    <3> QED BY <2>3, <2>4, <2>17, <3>2 DEF Start, queueVars
  <2>18. CASE UNCHANGED vars
    BY <2>3, <2>4, <2>5, <2>18 DEF vars, queueVars
  <2> QED
    BY <1>1, <2>7, <2>8, <2>9, <2>10, <2>11, <2>12, <2>13, <2>14, <2>15, <2>16, <2>17, <2>18
    DEF Next, WorkerStep
<1> QED BY <1>1, Invariance, PTL DEF Spec, LeaseOnlyEndedByHolder

-----------------------------------------------------------------------------
(* The refinement of KeyedQueue.                                            *)

LEMMA EagerInit == Init => Eager!Init
<1> SUFFICES ASSUME Init PROVE Eager!Init
  OBVIOUS
<1>1. Expired = {} /\ Doomed = {}
  BY DEF Init, QueueInit, Expired, Doomed
<1> QED
  BY <1>1, QueueAssumption DEF Init, QueueInit, Eager!Init, Ids

(* A step after which the same leases are over, under which no job fails    *)
(* and whose leases are current as before, changes nothing in KeyedQueue.   *)
LEMMA EagerStutter ==
    ASSUME IInv, job' = job, queue' = queue, dead' = dead, attempts' = attempts, Expired' = Expired,
           \A j \in Ids : (IF until'[j] > 0 THEN token'[j] ELSE NoToken) = (IF until[j] > 0 THEN token[j] ELSE NoToken)
    PROVE  UNCHANGED Eager!vars
<1>1. Doomed' = Doomed
  BY DEF Doomed
<1> QED
  BY <1>1 DEF Eager!vars

LEMMA EagerEnqueue ==
    ASSUME IInv, NEW i \in Installations, NEW r \in Repos \cup {NoRepo}, Enqueue(i, r)
    PROVE  Eager!Next
<1>1. PICK n \in Nat : n = Len(job)
  BY DEF IInv, QueueInv, QueueTypeOK
<1>2. PICK x \in Job : x = [inst |-> i, repo |-> r]
  BY DEF Job
<1>3. /\ job' = Append(job, x) /\ queue' = queue \cup {n + 1}
      /\ UNCHANGED <<dead, finished, attempts, notBefore, token, until, paused>>
  BY <1>1, <1>2 DEF Enqueue
<1>4. n + 1 \in Ids /\ n + 1 \notin queue
  BY <1>1, QueueAssumption DEF Enqueue, IInv, QueueInv, QueueTypeOK, Ids
<1>5. token[n + 1] = NoToken
  BY <1>4 DEF IInv, QueueInv, Fresh
<1>6. Expired' = Expired
  BY <1>3, <1>5 DEF Expired
<1>7. Doomed' = Doomed /\ n + 1 \notin Doomed
  BY <1>3, <1>4, <1>6 DEF Doomed, Expired
<1>8. Eager!Submit(x)
  BY <1>1, <1>3, <1>6, <1>7 DEF Eager!Submit
<1> QED
  BY <1>8 DEF Eager!Next

(* Once expireLocked has run no lease is over unnoticed; KeyedQueue knew of *)
(* the ones that were.                                                      *)
LEMMA EagerExpire ==
    ASSUME IInv, expireLocked, Expired' = {}
    PROVE  /\ Doomed = ExpiredDead /\ Doomed' = {}
           /\ (queue \ Doomed)' = queue \ Doomed
           /\ (dead \cup Doomed)' = dead \cup Doomed
           /\ [j \in Ids |-> IF j \in Expired THEN attempts[j] + 1 ELSE attempts[j]]'
                = [j \in Ids |-> IF j \in Expired THEN attempts[j] + 1 ELSE attempts[j]]
<1>1. Doomed = ExpiredDead /\ Doomed' = {}
  BY DEF Doomed, ExpiredDead
<1>2. attempts' = [j \in Ids |-> IF j \in Expired THEN attempts[j] + 1 ELSE attempts[j]]
  BY DEF expireLocked, ExpiredAttempts
<1>3. [j \in Ids |-> IF j \in Expired' THEN attempts'[j] + 1 ELSE attempts'[j]] = attempts'
  BY <1>2
<1> QED
  BY <1>1, <1>2, <1>3 DEF expireLocked

(* Claim takes the job and nothing else: what it takes back was back.       *)
LEMMA EagerClaim ==
    ASSUME IInv, NEW w \in Workers, NEW j \in queue, Claim(w, j)
    PROVE  Eager!Next
<1>1. /\ token \in [Ids -> Workers \cup {NoToken}] /\ until \in [Ids -> Nat] /\ queue \subseteq Ids
      /\ job' = job
  BY ExpireFacts DEF IInv, QueueInv, QueueTypeOK, Claim, expireLocked
<1>2. /\ token' = [ExpiredToken EXCEPT ![j] = w] /\ until' = [until EXCEPT ![j] = LeaseTicks]
      /\ expireLocked
  BY DEF Claim
<1>3. ExpiredToken \in [Ids -> Workers \cup {NoToken}]
  BY ExpireFacts DEF IInv
<1>4. /\ token'[j] = w /\ until'[j] = LeaseTicks /\ LeaseTicks > 0 /\ LeaseTicks \in Nat
      /\ \A k \in Ids : k # j => token'[k] = ExpiredToken[k] /\ until'[k] = until[k]
  BY <1>1, <1>2, <1>3, QueueAssumption
<1>5. \A k \in Ids : ExpiredToken[k] = IF k \in Expired THEN NoToken ELSE token[k]
  BY DEF ExpiredToken
<1>6. queue' \subseteq queue
  BY <1>2 DEF expireLocked
<1>7. Expired' = {}
  <2>1. ASSUME NEW k \in queue', token'[k] # NoToken, until'[k] = 0 PROVE FALSE
    <3>1. k # j /\ k \in Ids /\ k \in queue
      BY <1>1, <1>4, <1>6, <2>1
    <3>2. token[k] # NoToken /\ until[k] = 0 /\ k \notin Expired
      BY <1>4, <1>5, <2>1, <3>1
    <3> QED
      BY <3>1, <3>2 DEF Expired
  <2> QED
    BY <2>1 DEF Expired
<1>8. /\ Doomed = ExpiredDead
      /\ (queue \ Doomed)' = queue \ Doomed
      /\ (dead \cup Doomed)' = dead \cup Doomed
      /\ [k \in Ids |-> IF k \in Expired THEN attempts[k] + 1 ELSE attempts[k]]'
           = [k \in Ids |-> IF k \in Expired THEN attempts[k] + 1 ELSE attempts[k]]
  BY <1>2, <1>7, EagerExpire
<1>9. /\ j \in queue \ Doomed /\ ExpiredToken[j] = NoToken
      /\ \A k \in queue \ Doomed : k < j => KeyOf(k) # KeyOf(j)
  BY <1>8 DEF Claim, Ready, IsHead
<1>10. (IF until[j] > 0 THEN token[j] ELSE NoToken) = NoToken
  BY <1>1, <1>5, <1>9 DEF Expired
<1>11. ASSUME NEW k \in Ids, k # j
       PROVE  (IF until'[k] > 0 THEN token'[k] ELSE NoToken) = (IF until[k] > 0 THEN token[k] ELSE NoToken)
  BY <1>1, <1>4, <1>5, <1>11 DEF Expired
<1> DEFINE holder == [k \in Ids |-> IF until[k] > 0 THEN token[k] ELSE NoToken]
<1>12. holder' = [holder EXCEPT ![j] = w]
  BY <1>1, <1>4, <1>11
<1>13. Eager!Take(w, j)
  <2>1. j \notin Eager!Held
    BY <1>1, <1>10 DEF Eager!Held
  <2>2. Eager!Oldest(j)
    BY <1>9 DEF Eager!Oldest, KeyOf
  <2> QED
    BY <1>1, <1>8, <1>9, <1>12, <2>1, <2>2 DEF Eager!Take
<1> QED
  BY <1>9, <1>13 DEF Eager!Next

(* A Claim that finds no job takes back what KeyedQueue had back already.   *)
LEMMA EagerClaimNone ==
    ASSUME IInv, ClaimNone PROVE UNCHANGED Eager!vars
<1>1. /\ token \in [Ids -> Workers \cup {NoToken}] /\ until \in [Ids -> Nat] /\ queue \subseteq Ids
      /\ expireLocked /\ token' = ExpiredToken /\ until' = until /\ job' = job
  BY ExpireFacts DEF IInv, QueueInv, QueueTypeOK, ClaimNone, expireLocked
<1>2. \A k \in Ids : token'[k] = IF k \in Expired THEN NoToken ELSE token[k]
  BY <1>1 DEF ExpiredToken
<1>3. queue' \subseteq queue
  BY <1>1 DEF expireLocked
<1>4. Expired' = {}
  BY <1>1, <1>2, <1>3 DEF Expired
<1>5. \A k \in Ids : (IF until'[k] > 0 THEN token'[k] ELSE NoToken) = (IF until[k] > 0 THEN token[k] ELSE NoToken)
  BY <1>1, <1>2 DEF Expired
<1> QED
  BY <1>1, <1>4, <1>5, EagerExpire DEF Eager!vars

(* Extend only moves the end of a lease that is current.                    *)
LEMMA EagerExtend ==
    ASSUME IInv, NEW w \in Workers, NEW j, Extend(w, j) PROVE UNCHANGED Eager!vars
<1>1. /\ j \in queue /\ token[j] = w /\ until[j] > 0 /\ until' = [until EXCEPT ![j] = LeaseTicks]
      /\ UNCHANGED <<job, queue, dead, finished, attempts, notBefore, token, paused>>
  BY DEF Extend, find
<1>2. until \in [Ids -> Nat] /\ queue \subseteq Ids
  BY ExpireFacts DEF IInv, QueueInv, QueueTypeOK
<1>3. until'[j] > 0 /\ \A k \in Ids : k # j => until'[k] = until[k]
  BY <1>1, <1>2, QueueAssumption
<1>4. Expired' = Expired
  BY <1>1, <1>2, <1>3 DEF Expired
<1>5. \A k \in Ids : (IF until'[k] > 0 THEN token'[k] ELSE NoToken) = (IF until[k] > 0 THEN token[k] ELSE NoToken)
  BY <1>1, <1>3
<1> QED
  BY <1>1, <1>4, <1>5, EagerStutter

(* What a lease that find accepts is in KeyedQueue: held, and not failed.   *)
LEMMA EagerHeld ==
    ASSUME IInv, NEW w \in Workers, NEW j, find(w, j)
    PROVE  /\ j \in queue /\ j \in Ids /\ j \notin Expired /\ j \in queue \ Doomed /\ j \in Eager!Held
           /\ token[j] = w /\ until[j] > 0 /\ w # NoToken
<1>1. j \in queue /\ j \in Ids /\ token[j] = w /\ until[j] > 0 /\ w # NoToken
  BY ExpireFacts, QueueAssumption DEF IInv, find
<1>2. j \notin Expired /\ j \notin Doomed
  BY <1>1 DEF Expired, Doomed
<1> QED
  BY <1>1, <1>2 DEF Eager!Held

LEMMA EagerDone ==
    ASSUME IInv, NEW w \in Workers, NEW j, Done(w, j) PROVE Eager!Next
<1>1. /\ find(w, j) /\ queue' = queue \ {j}
      /\ token' = [token EXCEPT ![j] = NoToken] /\ until' = [until EXCEPT ![j] = 0]
      /\ UNCHANGED <<job, dead, attempts, notBefore, paused>>
  BY DEF Done
<1>2. /\ j \in queue /\ j \in Ids /\ j \notin Expired /\ j \in queue \ Doomed /\ j \in Eager!Held
      /\ token[j] = w /\ until[j] > 0
  BY <1>1, EagerHeld
<1>3. /\ token \in [Ids -> Workers \cup {NoToken}] /\ until \in [Ids -> Nat] /\ queue \subseteq Ids
  BY ExpireFacts DEF IInv, QueueInv, QueueTypeOK
<1>4. /\ token'[j] = NoToken /\ until'[j] = 0
      /\ \A k \in Ids : k # j => token'[k] = token[k] /\ until'[k] = until[k]
  BY <1>1, <1>2, <1>3
<1>5. Expired' = Expired
  BY <1>1, <1>2, <1>3, <1>4 DEF Expired
<1>6. Doomed' = Doomed
  BY <1>1, <1>5 DEF Doomed
<1> DEFINE holder == [k \in Ids |-> IF until[k] > 0 THEN token[k] ELSE NoToken]
<1>7. holder' = [holder EXCEPT ![j] = NoToken]
  BY <1>2, <1>3, <1>4
<1>8. Eager!Finish(j)
  BY <1>1, <1>2, <1>5, <1>6, <1>7 DEF Eager!Finish
<1> QED
  BY <1>2, <1>8 DEF Eager!Next

(* Retry and Pause give the job back, Retry after a failed attempt.         *)
LEMMA EagerRetry ==
    ASSUME IInv, NEW w \in Workers, NEW j, NEW after, Retry(w, j, after) PROVE Eager!Next
<1>1. /\ find(w, j)
      /\ token' = [token EXCEPT ![j] = NoToken]
      /\ attempts' = [attempts EXCEPT ![j] = attempts[j] + 1]
      /\ UNCHANGED <<job, until>>
  BY DEF Retry
<1>2. /\ j \in queue /\ j \in Ids /\ j \notin Expired /\ j \in queue \ Doomed /\ j \in Eager!Held
      /\ token[j] = w /\ until[j] > 0
  BY <1>1, EagerHeld
<1>3. /\ token \in [Ids -> Workers \cup {NoToken}] /\ attempts \in [Ids -> Nat] /\ queue \subseteq Ids
  BY ExpireFacts DEF IInv, QueueInv, QueueTypeOK
<1>4. /\ token'[j] = NoToken /\ attempts'[j] = attempts[j] + 1
      /\ \A k \in Ids : k # j => token'[k] = token[k] /\ attempts'[k] = attempts[k]
  BY <1>1, <1>2, <1>3
<1> DEFINE holder == [k \in Ids |-> IF until[k] > 0 THEN token[k] ELSE NoToken]
           fails == [k \in Ids |-> IF k \in Expired THEN attempts[k] + 1 ELSE attempts[k]]
           last == {k \in {j} : fails[k] + 1 >= MaxAttempts}
<1>5. PICK gone : gone = IF attempts[j] + 1 >= MaxAttempts THEN {j} ELSE {}
  OBVIOUS
<1>6. queue' = queue \ gone /\ dead' = dead \cup gone
  BY <1>5 DEF Retry
<1>7. last = gone
  <2>1. fails[j] = attempts[j]
    BY <1>2
  <2> QED
    BY <1>5, <2>1
<1>8. Expired' = Expired
  BY <1>1, <1>2, <1>3, <1>4, <1>5, <1>6 DEF Expired
<1>9. Doomed' = Doomed
  BY <1>2, <1>3, <1>4, <1>8 DEF Doomed, Expired
<1>10. holder' = [k \in Ids |-> IF k \in {j} THEN NoToken ELSE holder[k]]
  BY <1>1, <1>2, <1>4
<1>11. fails' = [k \in Ids |-> IF k \in {j} THEN fails[k] + 1 ELSE fails[k]]
  BY <1>2, <1>4, <1>8
<1>12. (queue \ Doomed)' = (queue \ Doomed) \ last /\ (dead \cup Doomed)' = (dead \cup Doomed) \cup last
  BY <1>6, <1>7, <1>9
<1>13. Eager!GiveBack({j}, {j})
  BY <1>1, <1>10, <1>11, <1>12 DEF Eager!GiveBack, Ids
<1> QED
  BY <1>2, <1>13 DEF Eager!Next

LEMMA EagerPause ==
    ASSUME IInv, NEW w \in Workers, NEW j, NEW wait, Pause(w, j, wait) PROVE Eager!Next
<1>1. /\ find(w, j)
      /\ token' = [token EXCEPT ![j] = NoToken]
      /\ UNCHANGED <<job, queue, dead, finished, attempts, until>>
  BY DEF Pause
<1>2. /\ j \in queue /\ j \in Ids /\ j \notin Expired /\ j \in queue \ Doomed /\ j \in Eager!Held
      /\ token[j] = w /\ until[j] > 0
  BY <1>1, EagerHeld
<1>3. /\ token \in [Ids -> Workers \cup {NoToken}] /\ attempts \in [Ids -> Nat] /\ queue \subseteq Ids
  BY ExpireFacts DEF IInv, QueueInv, QueueTypeOK
<1>4. token'[j] = NoToken /\ \A k \in Ids : k # j => token'[k] = token[k]
  BY <1>1, <1>2, <1>3
<1> DEFINE holder == [k \in Ids |-> IF until[k] > 0 THEN token[k] ELSE NoToken]
           fails == [k \in Ids |-> IF k \in Expired THEN attempts[k] + 1 ELSE attempts[k]]
<1>5. Expired' = Expired
  BY <1>1, <1>2, <1>3, <1>4 DEF Expired
<1>6. Doomed' = Doomed
  BY <1>1, <1>5 DEF Doomed
<1>7. holder' = [k \in Ids |-> IF k \in {j} THEN NoToken ELSE holder[k]]
  BY <1>1, <1>2, <1>4
<1>8. fails' = [k \in Ids |-> IF k \in {} THEN fails[k] + 1 ELSE fails[k]]
  BY <1>1, <1>5
<1>9. Eager!GiveBack({j}, {})
  BY <1>1, <1>5, <1>6, <1>7, <1>8 DEF Eager!GiveBack, Ids
<1> QED
  BY <1>2, <1>9 DEF Eager!Next

(* The passing of time gives back, after a failed attempt, every job whose  *)
(* lease it ends.                                                           *)
LEMMA EagerTick ==
    ASSUME IInv, Tick PROVE Eager!Next
<1>1. /\ token \in [Ids -> Workers \cup {NoToken}] /\ attempts \in [Ids -> Nat]
      /\ until \in [Ids -> Nat] /\ queue \subseteq Ids
      /\ \A k \in Ids : token[k] # NoToken => k \in queue
  BY ExpireFacts DEF IInv, QueueInv, QueueTypeOK, Fresh
<1>2. /\ \A k \in Ids : until'[k] = IF until[k] > 0 THEN until[k] - 1 ELSE 0
      /\ UNCHANGED <<job, queue, dead, finished, attempts, token>>
  BY DEF Tick, Less
<1> DEFINE holder == [k \in Ids |-> IF until[k] > 0 THEN token[k] ELSE NoToken]
           fails == [k \in Ids |-> IF k \in Expired THEN attempts[k] + 1 ELSE attempts[k]]
<1>3. PICK S : S = {k \in queue : token[k] # NoToken /\ until[k] = 1}
  OBVIOUS
<1>4. S \subseteq Ids /\ S \cap Expired = {} /\ S \subseteq queue \ Doomed
  BY <1>1, <1>3 DEF Expired, Doomed
<1>5. S \in SUBSET Eager!Held
  BY <1>1, <1>3, <1>4 DEF Eager!Held
<1>6. Expired' = Expired \cup S
  <2>1. ASSUME NEW k \in queue PROVE until'[k] = 0 <=> until[k] = 0 \/ until[k] = 1
    BY <1>1, <1>2
  <2> QED
    BY <1>2, <1>3, <2>1 DEF Expired
<1>7. PICK last : last = {k \in S : fails[k] + 1 >= MaxAttempts}
  OBVIOUS
<1>8. \A k \in S : fails[k] = attempts[k]
  BY <1>4
<1>9. Doomed' = Doomed \cup last
  <2>1. last = {k \in S : attempts[k] + 1 >= MaxAttempts}
    BY <1>7, <1>8
  <2> QED
    BY <1>2, <1>6, <2>1 DEF Doomed
<1>10. holder' = [k \in Ids |-> IF k \in S THEN NoToken ELSE holder[k]]
  <2>1. ASSUME NEW k \in Ids
        PROVE  (IF until'[k] > 0 THEN token'[k] ELSE NoToken) = IF k \in S THEN NoToken ELSE holder[k]
    BY <1>1, <1>2, <1>3
  <2> QED
    BY <2>1
<1>11. fails' = [k \in Ids |-> IF k \in S THEN fails[k] + 1 ELSE fails[k]]
  BY <1>2, <1>4, <1>6
<1>12. (queue \ Doomed)' = (queue \ Doomed) \ last /\ (dead \cup Doomed)' = (dead \cup Doomed) \cup last
  BY <1>2, <1>9
<1>13. Eager!GiveBack(S, S)
  BY <1>2, <1>7, <1>10, <1>11, <1>12 DEF Eager!GiveBack, Ids
<1> QED
  BY <1>5, <1>13 DEF Eager!Next

(* A step that leaves the queue alone.                                      *)
LEMMA EagerUnchanged ==
    ASSUME IInv, UNCHANGED queueVars PROVE UNCHANGED Eager!vars
<1>1. Expired' = Expired
  BY DEF queueVars, Expired
<1> QED
  BY <1>1, EagerStutter DEF queueVars

(* Every step of the workers and the queue is a step of KeyedQueue or       *)
(* changes nothing there.                                                   *)
LEMMA EagerNext ==
    ASSUME IInv, [Next]_vars PROVE [Eager!Next]_Eager!vars
<1>1. CASE Deliver
  BY <1>1, EagerEnqueue DEF Deliver
<1>2. CASE TimePasses
  BY <1>2, EagerTick DEF TimePasses
<1>3. ASSUME NEW w \in Workers, RunOneClaims(w) PROVE Eager!Next
  BY <1>3, EagerClaim DEF RunOneClaims
<1>4. ASSUME NEW w \in Workers, RunOneFindsNone(w) PROVE UNCHANGED Eager!vars
  BY <1>4, EagerClaimNone DEF RunOneFindsNone
<1>5. ASSUME NEW w \in Workers, KeepLease(w) PROVE UNCHANGED Eager!vars
  BY <1>5, EagerExtend DEF KeepLease
<1>6. ASSUME NEW w \in Workers, EnqueueRepos(w) PROVE Eager!Next
  <2>1. cur[w] \in 1 .. Len(job) /\ job \in Seq(Job)
    BY <1>6 DEF EnqueueRepos, IInv, HandsOn, QueueInv, QueueTypeOK
  <2>2. job[cur[w]] \in Job
    BY <2>1
  <2>3. job[cur[w]].inst \in Installations
    BY <2>2 DEF Job
  <2> QED
    BY <1>6, <2>3, EagerEnqueue DEF EnqueueRepos
<1>7. ASSUME NEW w \in Workers, Finish(w) PROVE [Eager!Next]_Eager!vars
  <2>1. CASE Done(w, cur[w])
    BY <2>1, EagerDone
  <2>2. CASE Retry(w, cur[w], Backoff[attempts[cur[w]] + 1])
    BY <2>2, EagerRetry
  <2>3. ASSUME NEW t \in PauseTicks, Pause(w, cur[w], t) PROVE Eager!Next
    BY <2>3, EagerPause
  <2>4. CASE UNCHANGED queueVars
    BY <2>4, EagerUnchanged
  <2> QED
    BY <1>7, <2>1, <2>2, <2>3, <2>4 DEF Finish, EndLease
<1>8. CASE UNCHANGED queueVars
  BY <1>8, EagerUnchanged
<1> QED
  BY <1>1, <1>2, <1>3, <1>4, <1>5, <1>6, <1>7, <1>8
  DEF Next, WorkerStep, KeepLeaseLost, BodyReturns, LostBodyReturns, Stop, Start, vars

(* The queue, which takes expired leases back only at the next Claim,       *)
(* implements the one that ends them on time.                               *)
THEOREM LazyExpiryRefines == Spec => LazyExpiryUnobservable
<1>1. Init => Eager!Init
  BY EagerInit
<1>2. IInv /\ [Next]_vars => [Eager!Next]_Eager!vars
  BY EagerNext
<1> QED
  BY <1>1, <1>2, Invariance, PTL DEF Spec, LazyExpiryUnobservable, Eager!Spec
=============================================================================
