----------------------------- MODULE JobWorkers -----------------------------
(***************************************************************************)
(* The workers of ghsync/service.go (Work, RunPending, RunOne, keepLease,   *)
(* runJob, finish) on the queue of JobQueue.                                *)
(*                                                                         *)
(* A worker claims a job and runs its body while a second goroutine extends *)
(* the lease.  The extension may come late or fail any number of times, so  *)
(* a lease can run out under a body that is still running; keepLease then   *)
(* cancels the body, but only once an Extend has answered ErrLeaseLost.     *)
(***************************************************************************)
EXTENDS JobQueue

CONSTANTS
    PauseTicks,   \* how long a rate limit may last, in ticks
    MaxPauses,    \* bound: how often GitHub answers with a rate limit
    MaxStops      \* bound: how often a worker's context ends

ASSUME WorkerAssumption ==
    /\ PauseTicks \subseteq Nat \ {0}
    /\ MaxPauses \in Nat
    /\ MaxStops \in Nat

VARIABLES
    phase,    \* where each worker is
    cur,      \* the job of the lease a worker holds in its hands (0: none)
    outcome,  \* how the body of a worker in phase "ended" came out
    pauses,   \* rate limits so far
    stops     \* ended contexts so far

workerVars == <<phase, cur, outcome, pauses, stops>>

vars == <<queueVars, workerVars>>

(* idle: in Work's loop.  running: runJob is under way.  lost: Extend has   *)
(* answered ErrLeaseLost and cancelled the body, which has not returned     *)
(* yet.  ended: stop() has returned and finish is next.  stopped: the       *)
(* context has ended and Work has returned.                                 *)
Phases == {"idle", "running", "lost", "ended", "stopped"}

(* ok: the body succeeded, or failed in a way a retry cannot fix.           *)
Outcomes == {"ok", "limited", "failed"}

TypeOK ==
    /\ QueueTypeOK
    /\ phase \in [Workers -> Phases]
    /\ cur \in [Workers -> Ids \cup {0}]
    /\ outcome \in [Workers -> Outcomes]
    /\ pauses \in Nat
    /\ stops \in Nat

Init ==
    /\ QueueInit
    /\ phase = [w \in Workers |-> "idle"]
    /\ cur = [w \in Workers |-> 0]
    /\ outcome = [w \in Workers |-> "ok"]
    /\ pauses = 0
    /\ stops = 0

-----------------------------------------------------------------------------

(* A webhook delivery, EnqueueImport or the nightly jobs queue some work.   *)
Deliver ==
    /\ \E i \in Installations, r \in Repos \cup {NoRepo} : Enqueue(i, r)
    /\ UNCHANGED workerVars

RunOneClaims(w) ==
    /\ phase[w] = "idle"
    /\ \E j \in queue :
         /\ Claim(w, j)
         /\ cur' = [cur EXCEPT ![w] = j]
    /\ phase' = [phase EXCEPT ![w] = "running"]
    /\ UNCHANGED <<outcome, pauses, stops>>

(* No job is ready: Work waits for its poll interval.                       *)
RunOneFindsNone(w) ==
    /\ phase[w] = "idle"
    /\ ClaimNone
    /\ UNCHANGED workerVars

(* keepLease, at a tick of its ticker.                                      *)
KeepLease(w) ==
    /\ phase[w] = "running"
    /\ Extend(w, cur[w])
    /\ UNCHANGED workerVars

KeepLeaseLost(w) ==
    /\ phase[w] = "running"
    /\ ~find(w, cur[w])
    /\ phase' = [phase EXCEPT ![w] = "lost"]
    /\ UNCHANGED <<queueVars, cur, outcome, pauses, stops>>

(* enqueueRepos: the body of an installation-wide job queues one job for    *)
(* each of the installation's repositories.                                 *)
EnqueueRepos(w) ==
    /\ phase[w] = "running"
    /\ job[cur[w]].repo = NoRepo
    /\ \E r \in Repos : Enqueue(job[cur[w]].inst, r)
    /\ UNCHANGED workerVars

(* The body returns and stop() ends the extending goroutine.                *)
BodyReturns(w) ==
    /\ phase[w] = "running"
    /\ \E o \in Outcomes :
         /\ outcome' = [outcome EXCEPT ![w] = o]
         /\ o = "limited" => pauses < MaxPauses
         /\ pauses' = IF o = "limited" THEN pauses + 1 ELSE pauses
    /\ phase' = [phase EXCEPT ![w] = "ended"]
    /\ UNCHANGED <<queueVars, cur, stops>>

(* The cancelled body returns: RunOne answers ErrLeaseLost and touches the  *)
(* queue no more.                                                           *)
LostBodyReturns(w) ==
    /\ phase[w] = "lost"
    /\ phase' = [phase EXCEPT ![w] = "idle"]
    /\ cur' = [cur EXCEPT ![w] = 0]
    /\ UNCHANGED <<queueVars, outcome, pauses, stops>>

(* finish, by the body's outcome; the queue refuses a lease that ran out.   *)
EndLease(w) ==
    \/ outcome[w] = "ok" /\ Done(w, cur[w])
    \/ outcome[w] = "failed" /\ Retry(w, cur[w], Backoff[attempts[cur[w]] + 1])
    \/ outcome[w] = "limited" /\ \E t \in PauseTicks : Pause(w, cur[w], t)
    \/ ~find(w, cur[w]) /\ UNCHANGED queueVars

Finish(w) ==
    /\ phase[w] = "ended"
    /\ EndLease(w)
    /\ phase' = [phase EXCEPT ![w] = "idle"]
    /\ cur' = [cur EXCEPT ![w] = 0]
    /\ outcome' = [outcome EXCEPT ![w] = "ok"]
    /\ UNCHANGED <<pauses, stops>>

(* The worker's context ends: every queue call fails from here on, so the   *)
(* lease is left to run out.                                                *)
Stop(w) ==
    /\ phase[w] # "stopped"
    /\ stops < MaxStops
    /\ stops' = stops + 1
    /\ phase' = [phase EXCEPT ![w] = "stopped"]
    /\ cur' = [cur EXCEPT ![w] = 0]
    /\ outcome' = [outcome EXCEPT ![w] = "ok"]
    /\ UNCHANGED <<queueVars, pauses>>

(* Work is run again.                                                       *)
Start(w) ==
    /\ phase[w] = "stopped"
    /\ phase' = [phase EXCEPT ![w] = "idle"]
    /\ UNCHANGED <<queueVars, cur, outcome, pauses, stops>>

TimePasses == Tick /\ UNCHANGED workerVars

WorkerStep(w) ==
    \/ RunOneClaims(w)
    \/ RunOneFindsNone(w)
    \/ KeepLease(w)
    \/ KeepLeaseLost(w)
    \/ EnqueueRepos(w)
    \/ BodyReturns(w)
    \/ LostBodyReturns(w)
    \/ Finish(w)
    \/ Stop(w)
    \/ Start(w)

Next == Deliver \/ TimePasses \/ \E w \in Workers : WorkerStep(w)

Spec == Init /\ [][Next]_vars

(* Work loops for as long as its context lives, bodies return (maxJobRun    *)
(* bounds them), and time passes.  Nothing is assumed of keepLease: an      *)
(* extension may fail for ever.                                             *)
Fairness ==
    /\ WF_vars(TimePasses)
    /\ \A w \in Workers :
         /\ WF_vars(RunOneClaims(w))
         /\ WF_vars(RunOneFindsNone(w))
         /\ WF_vars(BodyReturns(w))
         /\ WF_vars(LostBodyReturns(w))
         /\ WF_vars(Finish(w))
         /\ WF_vars(Start(w))

LiveSpec == Spec /\ Fairness

-----------------------------------------------------------------------------

(* Two bodies of one key may overlap when a lease runs out under the first, *)
(* but at most one of them still holds a lease the queue honours.           *)
Current(w) == phase[w] \in {"running", "ended"} /\ find(w, cur[w])

OneHonouredWorkerPerKey ==
    \A v, w \in Workers :
       Current(v) /\ Current(w) /\ KeyOf(cur[v]) = KeyOf(cur[w]) => v = w

(* The jobs of a key leave the queue, done or dead, in the order they came. *)
LeaveInOrder ==
    [][\A j \in queue \ queue' : \A k \in queue' : KeyOf(k) = KeyOf(j) => j < k]_vars

(* A rate limit is waited out: only the passing of time shortens the pause  *)
(* of an installation, so a second, shorter rate limit reported by another  *)
(* worker cannot cut the first one short.                                   *)
PauseWaitedOut ==
    [][\A i \in Installations : paused'[i] >= paused[i] \/ TimePasses]_vars

(* A worker holds a current lease for as long as it does not stop, finish   *)
(* or run out of time: nobody else can end it.                              *)
LeaseOnlyEndedByHolder ==
    [][\A w \in Workers : Current(w) /\ ~Current(w)' =>
          Finish(w) \/ Stop(w) \/ TimePasses]_vars

(* Every job is done or dead-lettered in the end, however many bodies fail, *)
(* leases run out or workers restart.                                       *)
EveryJobSettles ==
    \A j \in Ids : j \in queue ~> j \in finished \cup dead

-----------------------------------------------------------------------------
(* The queue implements KeyedQueue, with a lease over the moment its time   *)
(* is up and the job's failure counted there and then.                      *)

Doomed == {j \in Expired : attempts[j] + 1 >= MaxAttempts}

Eager == INSTANCE KeyedQueue WITH
    JobSet <- Job,
    KeyOf <- OrderKey,
    jobs <- job,
    pending <- queue \ Doomed,
    holder <- [j \in Ids |-> IF until[j] > 0 THEN token[j] ELSE NoToken],
    fails <- [j \in Ids |-> IF j \in Expired THEN attempts[j] + 1 ELSE attempts[j]],
    setAside <- dead \cup Doomed

(* Taking expired leases back only at the next Claim cannot be told apart   *)
(* from ending them on time: every step of the workers and the queue is a   *)
(* step of KeyedQueue or changes nothing there.                             *)
LazyExpiryUnobservable == Eager!Spec
=============================================================================
