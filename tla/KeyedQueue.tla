----------------------------- MODULE KeyedQueue -----------------------------
(***************************************************************************)
(* What the Jobs port promises (the rules listed above the Jobs interface   *)
(* in ghsync/jobs.go), without clocks: jobs of one key are taken one at a   *)
(* time and in the order they were submitted, a job that was not finished   *)
(* goes back, and one that has failed MaxAttempts times is set aside.  Here *)
(* a lease ends at the moment it runs out; JobQueue only notices at the     *)
(* next Claim, and implements this specification all the same.              *)
(***************************************************************************)
EXTENDS Integers, Sequences

CONSTANTS
    Workers, NoToken,
    MaxAttempts,
    MaxJobs,
    JobSet,         \* what can be submitted
    KeyOf(_)        \* the ordering key of a submitted job

VARIABLES
    jobs,       \* the submitted jobs, in order
    pending,    \* submitted and neither finished nor set aside
    holder,     \* the worker whose lease is current, or NoToken
    fails,      \* failed attempts
    setAside    \* the dead letters

vars == <<jobs, pending, holder, fails, setAside>>

Init ==
    /\ jobs = << >>
    /\ pending = {}
    /\ holder = [j \in 1 .. MaxJobs |-> NoToken]
    /\ fails = [j \in 1 .. MaxJobs |-> 0]
    /\ setAside = {}

Held == {j \in pending : holder[j] # NoToken}

Submit(x) ==
    /\ jobs' = Append(jobs, x)
    /\ pending' = pending \cup {Len(jobs) + 1}
    /\ UNCHANGED <<holder, fails, setAside>>

(* The oldest job of its key, and so the only one of it that may be held.   *)
Oldest(j) == \A k \in pending : k < j => KeyOf(jobs[k]) # KeyOf(jobs[j])

Take(w, j) ==
    /\ j \in pending \ Held
    /\ Oldest(j)
    /\ holder' = [holder EXCEPT ![j] = w]
    /\ UNCHANGED <<jobs, pending, fails, setAside>>

Finish(j) ==
    /\ j \in Held
    /\ pending' = pending \ {j}
    /\ holder' = [holder EXCEPT ![j] = NoToken]
    /\ UNCHANGED <<jobs, fails, setAside>>

(* The held jobs in S go back, those in F after a failed attempt.           *)
GiveBack(S, F) ==
    LET last == {j \in F : fails[j] + 1 >= MaxAttempts}
    IN  /\ holder' = [j \in 1 .. MaxJobs |-> IF j \in S THEN NoToken ELSE holder[j]]
        /\ fails' = [j \in 1 .. MaxJobs |-> IF j \in F THEN fails[j] + 1 ELSE fails[j]]
        /\ setAside' = setAside \cup last
        /\ pending' = pending \ last
        /\ UNCHANGED jobs

Next ==
    \/ \E x \in JobSet : Submit(x)
    \/ \E j \in pending : \E w \in Workers : Take(w, j)
    \/ \E j \in pending : Finish(j)
    \/ \E S \in SUBSET Held : \E F \in SUBSET S : GiveBack(S, F)

Spec == Init /\ [][Next]_vars
=============================================================================
