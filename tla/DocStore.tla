------------------------------ MODULE DocStore ------------------------------
(***************************************************************************)
(* The stores a planning document can be in, as the clients of one project  *)
(* see them.  Two deployments, chosen in Init:                              *)
(*   "clued"  the primary is a clued server (store/remotestore over         *)
(*            server/storeapi over store/mongostore): writes carry If-Match *)
(*            and claims take a lease; each client fans out to a file copy; *)
(*   "file"   the primary is the file store of a checkout that several      *)
(*            processes share: writes are unconditional and claims take a   *)
(*            lock file.                                                    *)
(* A document is its version (which write it is, no field of the code),     *)
(* its updated stamp, its status and its assignee.                          *)
(***************************************************************************)
EXTENDS Naturals, FiniteSets

CONSTANTS
    Docs,        \* document ids
    Clients,     \* processes with a Palace of their own
    Agents,      \* who claims; also the operations in flight
    None,        \* no document, no assignee, no holder
    Initial,     \* each document's status at the start
    LeaseTicks,  \* DefaultLeaseTTL and staleLock, in clock ticks
    Skew,        \* how far the clients' clocks are apart at most, in ticks
    Ahead,       \* how much each client's clock may be ahead of the slowest one
    MaxNow       \* bound, by driver: the clock, in ticks of a timestamp (a millisecond)

ASSUME DocStoreAssumption ==
    /\ Initial \in [Docs -> {"ready", "in_progress", "complete"}]
    /\ LeaseTicks \in Nat \ {0} /\ Skew \in Nat
    /\ Ahead \in [Clients -> SUBSET (0 .. Skew)]
    /\ MaxNow \in [{"clued", "file"} -> Nat]
    /\ None \notin Docs \cup Clients \cup Agents

VARIABLES
    driver,   \* the primary store's driver
    stored,   \* the primary's document, or None
    copy,     \* each client's file copy ("clued")
    seen,     \* remotestore.seen: the updated each client last saw, 0 for none
    lock,     \* the lease or lock file of each document
    now,      \* the clock: the server's, and the slowest of the clients'
    writes    \* how many versions there have been

storeVars == <<driver, stored, copy, seen, lock, now, writes>>

Statuses == {"ready", "in_progress", "complete"}

Document == [ver : Nat, updated : Nat, status : Statuses, assignee : Agents \cup {None}]

Lock == [holder : Agents, taken : Nat]

ASSUME NoDocumentAssumption == None \notin Document

ASSUME NoLockAssumption == None \notin Lock

StoreTypeOK ==
    /\ driver \in {"clued", "file"}
    /\ stored \in [Docs -> Document \cup {None}]
    /\ copy \in [Clients -> [Docs -> Document \cup {None}]]
    /\ seen \in [Clients -> [Docs -> Nat]]
    /\ lock \in [Docs -> Lock \cup {None}]
    /\ now \in Nat /\ writes \in Nat

NewDocument == [ver |-> 1, updated |-> 1, status |-> "ready", assignee |-> None]

StoreInit ==
    /\ driver \in {"clued", "file"}
    /\ stored = [d \in Docs |-> [NewDocument EXCEPT !.status = Initial[d]]]
    /\ copy = [c \in Clients |-> stored]
    /\ seen = [c \in Clients |-> [d \in Docs |-> 0]]
    /\ lock = [d \in Docs |-> None]
    /\ now = 1
    /\ writes = 1

(* remember and forget, after client c read d.                              *)
SeenAfterRead(c, d) ==
    [seen EXCEPT ![c][d] = IF driver = "file" THEN 0
                           ELSE IF stored[d] = None THEN 0 ELSE stored[d].updated]

(* List remembers what it lists and forgets nothing.                        *)
SeenAfterList(c) ==
    [seen EXCEPT ![c] = [d \in Docs |-> IF driver = "file" \/ stored[d] = None THEN @[d] ELSE stored[d].updated]]

(* Mutant: the server writes whatever If-Match says.                        *)
Accepts_Always(c, d) == TRUE

(* The server takes client c's write of d: remotestore.Put sends If-Match   *)
(* when it has seen d, storeapi.put compares it with the stored copy and    *)
(* mongostore.PutIf compares again as it writes.                            *)
Accepts(c, d) ==
    \/ driver = "file" \/ seen[c][d] = 0
    \/ stored[d] # None /\ stored[d].updated = seen[c][d]

(* remember after an accepted write that carried If-Match.                  *)
SeenAfterPut(c, d, doc) ==
    IF driver = "clued" /\ seen[c][d] # 0 THEN [seen EXCEPT ![c][d] = doc.updated] ELSE seen

(* timestamp: what client c's clock says.                                   *)
Clock(c) == {now + a : a \in Ahead[c]}

-----------------------------------------------------------------------------
(* Leases ("clued") and lock files ("file").                                *)

(* A lease is free at its expiry, a lock file stale after staleLock.        *)
Lapsed(l) == IF driver = "clued" THEN now >= l.taken + LeaseTicks ELSE now > l.taken + LeaseTicks

(* Mutant: an unexpired lease is handed out again.                          *)
AcquireLease_Shared(a, d) ==
    /\ driver = "clued"
    /\ lock' = [lock EXCEPT ![d] = [holder |-> a, taken |-> now]]

AcquireLease(a, d) ==
    /\ driver = "clued"
    /\ lock[d] # None => Lapsed(lock[d])
    /\ lock' = [lock EXCEPT ![d] = [holder |-> a, taken |-> now]]

(* O_CREATE|O_EXCL.                                                         *)
CreateLockFile(a, d) ==
    /\ driver = "file"
    /\ lock[d] = None
    /\ lock' = [lock EXCEPT ![d] = [holder |-> a, taken |-> now]]

(* ReleaseLease ends only the holder's own lease; the file's unlock removes *)
(* the path, whoever created it.                                            *)
Release(a, d) ==
    lock' = IF driver = "clued" /\ (lock[d] = None \/ lock[d].holder # a)
            THEN lock ELSE [lock EXCEPT ![d] = None]
=============================================================================
