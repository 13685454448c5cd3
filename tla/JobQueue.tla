------------------------------ MODULE JobQueue ------------------------------
(***************************************************************************)
(* The GitHub sync job queue: the Jobs port of ghsync/jobs.go as MemJobs    *)
(* (ghsync/memjobs.go) implements it.  Every operation runs under one mutex *)
(* and is therefore one action.                                             *)
(*                                                                         *)
(* Jobs are named by their enqueue number (the code's "job_<seq>"), so the  *)
(* order of the code's slice is the order of the numbers.  Times are kept   *)
(* as what is left of them: until[j] is Until minus now, notBefore[j] and   *)
(* paused[i] likewise, all floored at zero, and Tick lets one unit pass.    *)
(* A lease token is the worker that claimed: a worker runs one job at a     *)
(* time and forgets a lease before it claims again, so two leases somebody  *)
(* can still present never carry the same pair of job and worker.           *)
(***************************************************************************)
EXTENDS Integers, Sequences

CONSTANTS
    Installations,  \* GitHub installation ids
    Repos,          \* GitHub repository ids
    NoRepo,         \* Job.Repository = 0: installation-wide work
    Workers,        \* the goroutines that run Work
    NoToken,        \* memJob.token = ""
    MaxAttempts,    \* ghsync.MaxAttempts (10)
    LeaseTicks,     \* Service.lease, in ticks
    BackoffBase,    \* ghsync.BackoffBase, in ticks
    BackoffMax,     \* ghsync.BackoffMax, in ticks
    MaxJobs         \* bound: how many jobs are enqueued

ASSUME QueueAssumption ==
    /\ NoRepo \notin Repos
    /\ Repos \cap Installations = {}
    /\ NoToken \notin Workers
    /\ MaxAttempts \in Nat \ {0}
    /\ LeaseTicks \in Nat \ {0}
    /\ BackoffBase \in Nat \ {0}
    /\ BackoffMax \in Nat \ {0}
    /\ MaxJobs \in Nat

VARIABLES
    job,        \* every job ever enqueued, in order; its length is MemJobs.seq
    queue,      \* the numbers of the jobs in MemJobs.queue
    dead,       \* the numbers of the jobs in MemJobs.dead
    finished,   \* history: the numbers of the jobs Done removed
    attempts,   \* Job.Attempts
    notBefore,  \* Job.NotBefore, as time left
    token,      \* memJob.token
    until,      \* memJob.until, as time left
    paused      \* MemJobs.paused, as time left (0: no entry)

queueVars == <<job, queue, dead, finished, attempts, notBefore, token, until, paused>>

Ids == 1 .. MaxJobs

Job == [inst : Installations, repo : Repos \cup {NoRepo}]

(* Job.OrderKey: the repository, or the installation for installation-wide  *)
(* work.                                                                    *)
OrderKey(x) == IF x.repo # NoRepo THEN x.repo ELSE x.inst

KeyOf(j) == OrderKey(job[j])

(* Backoff: doubled from BackoffBase on every failure, capped at BackoffMax. *)
Backoff[n \in Nat] ==
    IF n <= 1 THEN BackoffBase
    ELSE IF 2 * Backoff[n - 1] >= BackoffMax THEN BackoffMax
    ELSE 2 * Backoff[n - 1]

(* Every wait the queue can ask for is a positive number of ticks.          *)
ASSUME BackoffAssumption == \A n \in 1 .. MaxAttempts : Backoff[n] \in Nat \ {0}

QueueTypeOK ==
    /\ job \in Seq(Job) /\ Len(job) <= MaxJobs
    /\ queue \subseteq 1 .. Len(job)
    /\ dead \subseteq 1 .. Len(job)
    /\ finished \subseteq 1 .. Len(job)
    /\ attempts \in [Ids -> Nat]
    /\ notBefore \in [Ids -> Nat]
    /\ token \in [Ids -> Workers \cup {NoToken}]
    /\ until \in [Ids -> Nat]
    /\ paused \in [Installations -> Nat]

QueueInit ==
    /\ job = << >>
    /\ queue = {}
    /\ dead = {}
    /\ finished = {}
    /\ attempts = [j \in Ids |-> 0]
    /\ notBefore = [j \in Ids |-> 0]
    /\ token = [j \in Ids |-> NoToken]
    /\ until = [j \in Ids |-> 0]
    /\ paused = [i \in Installations |-> 0]

-----------------------------------------------------------------------------

(* Mutant: the job is queued under the number before the increment.         *)
Enqueue_OldSeq(i, r) ==
    /\ Len(job) < MaxJobs
    /\ job' = Append(job, [inst |-> i, repo |-> r])
    /\ queue' = queue \cup {Len(job)}
    /\ UNCHANGED <<dead, finished, attempts, notBefore, token, until, paused>>

Enqueue(i, r) ==
    /\ Len(job) < MaxJobs
    /\ job' = Append(job, [inst |-> i, repo |-> r])
    /\ queue' = queue \cup {Len(job) + 1}
    /\ UNCHANGED <<dead, finished, attempts, notBefore, token, until, paused>>

(* Mutant: expired leases are never taken back.                             *)
Expired_Never == {}

(* expireLocked: leases that ran out stay in the queue, unnoticed, until    *)
(* the next Claim takes them back and counts a failed attempt for each.     *)
Expired == {j \in queue : token[j] # NoToken /\ until[j] = 0}

ExpiredAttempts == [j \in Ids |-> IF j \in Expired THEN attempts[j] + 1 ELSE attempts[j]]

ExpiredDead == {j \in Expired : attempts[j] + 1 >= MaxAttempts}

ExpiredToken == [j \in Ids |-> IF j \in Expired THEN NoToken ELSE token[j]]

(* Mutant: a job waiting for its retry does not hold back the later ones.   *)
IsHead_SkipsWaiting(j, q) == \A k \in q : k < j /\ notBefore[k] = 0 => KeyOf(k) # KeyOf(j)

(* The first job of its key that Claim still finds in the queue.            *)
IsHead(j, q) == \A k \in q : k < j => KeyOf(k) # KeyOf(j)

(* What Claim may lease once expireLocked has run.                          *)
Ready ==
    LET q == queue \ ExpiredDead
    IN  {j \in q : /\ IsHead(j, q)
                   /\ ExpiredToken[j] = NoToken
                   /\ notBefore[j] = 0
                   /\ paused[job[j].inst] = 0}

(* Mutant: an expired lease does not count as an attempt.                   *)
expireLocked_NotCounted ==
    /\ UNCHANGED <<queue, dead, attempts>>
    /\ UNCHANGED <<job, finished, notBefore, paused>>

expireLocked ==
    /\ queue' = queue \ ExpiredDead
    /\ dead' = dead \cup ExpiredDead
    /\ attempts' = ExpiredAttempts
    /\ UNCHANGED <<job, finished, notBefore, paused>>

(* Claim by w of job j, the oldest one ready.                               *)
Claim(w, j) ==
    /\ j \in Ready
    /\ \A k \in Ready : j <= k
    /\ expireLocked
    /\ token' = [ExpiredToken EXCEPT ![j] = w]
    /\ until' = [until EXCEPT ![j] = LeaseTicks]

(* Claim that answers ErrNoJob: the expired leases are taken back all the same. *)
ClaimNone ==
    /\ Ready = {}
    /\ expireLocked
    /\ token' = ExpiredToken
    /\ UNCHANGED until

(* Mutant: the token is not compared.                                       *)
find_AnyToken(w, j) == j \in queue /\ token[j] # NoToken /\ until[j] > 0

(* find: the lease of job j that w holds is still the current one.          *)
find(w, j) == j \in queue /\ token[j] = w /\ until[j] > 0

Extend(w, j) ==
    /\ find(w, j)
    /\ until' = [until EXCEPT ![j] = LeaseTicks]
    /\ UNCHANGED <<job, queue, dead, finished, attempts, notBefore, token, paused>>

Done(w, j) ==
    /\ find(w, j)
    /\ queue' = queue \ {j}
    /\ finished' = finished \cup {j}
    /\ token' = [token EXCEPT ![j] = NoToken]
    /\ until' = [until EXCEPT ![j] = 0]
    /\ UNCHANGED <<job, dead, attempts, notBefore, paused>>

Retry(w, j, after) ==
    /\ find(w, j)
    /\ token' = [token EXCEPT ![j] = NoToken]
    /\ attempts' = [attempts EXCEPT ![j] = @ + 1]
    /\ IF attempts[j] + 1 >= MaxAttempts
         THEN /\ dead' = dead \cup {j}
              /\ queue' = queue \ {j}
              /\ UNCHANGED notBefore
         ELSE /\ notBefore' = [notBefore EXCEPT ![j] = after]
              /\ UNCHANGED <<queue, dead>>
    /\ UNCHANGED <<job, finished, until, paused>>

(* Mutant: the last pause wins.                                             *)
Pause_LastWins(w, j, wait) ==
    /\ find(w, j)
    /\ token' = [token EXCEPT ![j] = NoToken]
    /\ notBefore' = [notBefore EXCEPT ![j] = wait]
    /\ paused' = [paused EXCEPT ![job[j].inst] = wait]
    /\ UNCHANGED <<job, queue, dead, finished, attempts, until>>

(* Pause: the longer of two pauses of one installation wins.                *)
Pause(w, j, wait) ==
    /\ find(w, j)
    /\ token' = [token EXCEPT ![j] = NoToken]
    /\ notBefore' = [notBefore EXCEPT ![j] = wait]
    /\ paused' = [paused EXCEPT ![job[j].inst] = IF wait > @ THEN wait ELSE @]
    /\ UNCHANGED <<job, queue, dead, finished, attempts, until>>

Less(n) == IF n > 0 THEN n - 1 ELSE 0

(* One unit of time passes.                                                 *)
Tick ==
    /\ \/ \E j \in Ids : until[j] > 0 \/ notBefore[j] > 0
       \/ \E i \in Installations : paused[i] > 0
    /\ until' = [j \in Ids |-> Less(until[j])]
    /\ notBefore' = [j \in Ids |-> Less(notBefore[j])]
    /\ paused' = [i \in Installations |-> Less(paused[i])]
    /\ UNCHANGED <<job, queue, dead, finished, attempts, token>>

-----------------------------------------------------------------------------

(* Claim never leases a job while another of its key is leased, not even    *)
(* when the other lease has run out unnoticed: "never two at once".         *)
OneLeasePerKey ==
    \A j, k \in queue :
       token[j] # NoToken /\ token[k] # NoToken /\ KeyOf(j) = KeyOf(k) => j = k

(* A leased job is the oldest of its key that is still in the queue,        *)
(* whatever retries, expiries and dead letters went before.                 *)
LeasedIsOldest ==
    \A j, k \in queue :
       token[j] # NoToken /\ KeyOf(j) = KeyOf(k) => j <= k

(* No job is lost or counted twice: each one enqueued is in the queue,      *)
(* removed by Done, or a dead letter, and a dead letter is one that failed  *)
(* exactly MaxAttempts times.                                               *)
EveryJobAccounted ==
    /\ queue \cup finished \cup dead = 1 .. Len(job)
    /\ queue \cap finished = {} /\ queue \cap dead = {} /\ finished \cap dead = {}
    /\ \A j \in dead : attempts[j] = MaxAttempts
    /\ \A j \in queue \cup finished : attempts[j] < MaxAttempts
=============================================================================
