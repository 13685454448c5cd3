------------------------------- MODULE Palace -------------------------------
(***************************************************************************)
(* Planning operations (service) of several clients on one project's        *)
(* documents (DocStore).  Every setter of the service reads the whole       *)
(* document, checks, changes a field and writes the whole document back;    *)
(* between the read and the write anything can happen to it.  A client runs *)
(* several operations at a time (MCP, HTTP and WebSocket calls).            *)
(***************************************************************************)
EXTENDS DocStore

CONSTANTS
    ClientOf,     \* the client an operation runs in
    Depends,      \* depends links, fixed: <<d, e>> when d depends on e
    Menu,         \* the requests there are: kind, doc, arg and force of each
    MaxOps,       \* bound: operations begun
    MaxFaults     \* bound: store calls that fail, answers that are lost, clients that die

Kinds == {"edit", "status", "claim", "create", "delete", "pull", "push"}

Args == Statuses \cup {"none", "clear", "skip", "overwrite", "newer"}

(* What is under way or complete at the start has its dependencies.         *)
ASSUME PalaceAssumption ==
    /\ ClientOf \in [Agents -> Clients]
    /\ Depends \subseteq Docs \X Docs
    /\ \A d, e \in Docs : <<d, e>> \in Depends /\ Initial[d] # "ready" => Initial[e] = "complete"
    /\ Menu \subseteq [kind : Kinds, doc : Docs, arg : Args, force : BOOLEAN]
    /\ \A m \in Menu : m.kind \in {"status", "create"} => m.arg \in Statuses
    /\ {MaxOps, MaxFaults} \subseteq Nat

VARIABLES
    op,         \* the operation in each slot
    grants,     \* history: who was told to hold a document and has not lost it by rule
    clobbers,   \* history: writes over a version their writer had not read
    finished,   \* history: documents that have been complete
    author,     \* history: the client whose write is stored
    ungated,    \* history: documents forced, or created under way or complete
    unchecked,  \* history: who was told to hold a document after a failed last read
    overran,    \* history: a claim has outlived its lock file
    begun, faults, crashes

histVars == <<grants, clobbers, finished, author, ungated, unchecked>>

vars == <<storeVars, op, histVars, overran, begun, faults, crashes>>

Steps == {"lock", "takeover", "reread", "gate", "save", "put", "copy", "recheck", "unlock"}

(* The operations that go through the service's save.                       *)
Saves == {"edit", "status", "claim", "create"}

(* at is the updated stamp that save has given the document.  base is the   *)
(* version the operation read, stamp the If-Match its client had for the    *)
(* document then, and reseen says that the client has read a newer version  *)
(* since (none of the three is a field of the code).                        *)
Operation == [kind : Kinds, arg : Args, force : BOOLEAN, doc : Docs, step : Steps, snap : Document,
              base : Nat, stamp : Nat, reseen : BOOLEAN, taken : Nat, at : Nat]

ASSUME NoOperationAssumption == None \notin Operation

TypeOK ==
    /\ StoreTypeOK
    /\ op \in [Agents -> Operation \cup {None}]
    /\ grants \in [Docs -> SUBSET Agents]
    /\ clobbers \subseteq [doc : Docs, kind : Kinds, cause : {"shared", "reseen", "unread", "stamp", "blind"}]
    /\ author \in [Docs -> Clients \cup {None}]
    /\ finished \subseteq Docs /\ ungated \subseteq Docs /\ unchecked \subseteq Docs \X Agents
    /\ overran \in BOOLEAN
    /\ begun \in 0 .. MaxOps /\ faults \in 0 .. MaxFaults /\ crashes \in 0 .. MaxFaults

Init ==
    /\ StoreInit
    /\ op = [o \in Agents |-> None]
    /\ grants = [d \in Docs |-> {}]
    /\ clobbers = {} /\ finished = {d \in Docs : Initial[d] = "complete"} /\ ungated = {} /\ unchecked = {}
    /\ author = [d \in Docs |-> None]
    /\ overran = FALSE
    /\ begun = 0 /\ faults = 0 /\ crashes = 0

(* The default workflow, for the statuses that matter to dependencies.      *)
Workflow == [ready |-> {"in_progress"}, in_progress |-> {"complete", "ready"}, complete |-> {"in_progress"}]

Finished(d) == stored[d] # None /\ stored[d].status = "complete"

(* openDependencies, for the depends links.                                 *)
OpenDependencies(d) == {e \in Docs : <<d, e>> \in Depends /\ ~ Finished(e)}

Version(doc) == IF doc = None THEN 0 ELSE doc.ver

(* o's client has read ds as they are in st: whoever works in that client   *)
(* on an older version of one of them will send the stamp read now.         *)
ReseenIn(st, f, o, ds) ==
    [p \in Agents |-> IF /\ driver = "clued" /\ f[p] # None /\ f[p].doc \in ds
                         /\ ClientOf[p] = ClientOf[o] /\ Version(st[f[p].doc]) # f[p].base
                      THEN [f[p] EXCEPT !.reseen = TRUE] ELSE f[p]]

Reseen(f, o, ds) == ReseenIn(stored, f, o, ds)

Goto(o, step) == [op EXCEPT ![o].step = step]

(* Returning, with or without an error: a claim gives its lock back first.  *)
Return(o) == IF op[o].kind = "claim" THEN Goto(o, "unlock") ELSE [op EXCEPT ![o] = None]

-----------------------------------------------------------------------------
(* The first Resolve of every operation but create.                         *)
Resolve(o) ==
    /\ op[o] = None /\ begun < MaxOps
    /\ \E m \in Menu : LET d == m.doc IN
         /\ m.kind \in {"edit", "status", "claim", "delete"}
         /\ stored[d] # None
         /\ op' = [Reseen(op, o, {d}) EXCEPT ![o] =
                     [kind |-> m.kind, arg |-> m.arg, force |-> m.force, doc |-> d,
                      step |-> CASE m.kind = "claim" -> "lock" [] m.kind = "edit" -> "save" [] OTHER -> "gate",
                      snap |-> stored[d], base |-> stored[d].ver, stamp |-> SeenAfterRead(ClientOf[o], d)[ClientOf[o]][d],
                      reseen |-> FALSE, taken |-> 0, at |-> 0]]
         /\ seen' = SeenAfterRead(ClientOf[o], d)
    /\ begun' = begun + 1
    /\ UNCHANGED <<driver, stored, copy, lock, now, writes, histVars, overran, faults, crashes>>

(* Create with a requested id and status, stamped before allocateID lists   *)
(* the kind under palace.mu.  An id in use is a Conflict; a document made   *)
(* complete may be refused for its criteria.  Neither the workflow nor the  *)
(* dependencies are asked.                                                  *)
Create(o) ==
    /\ op[o] = None /\ begun < MaxOps
    /\ \A p \in Agents : ~ (op[p] # None /\ op[p].kind = "create" /\ ClientOf[p] = ClientOf[o])
    /\ \E m \in Menu : LET d == m.doc IN
         /\ m.kind = "create"
         /\ \/ /\ stored[d] = None
               /\ \E t \in Clock(ClientOf[o]) :
                    op' = [Reseen(op, o, Docs) EXCEPT ![o] =
                             [kind |-> "create", arg |-> m.arg, force |-> FALSE, doc |-> d, step |-> "put",
                              snap |-> NewDocument, base |-> 0, stamp |-> seen[ClientOf[o]][d], reseen |-> FALSE,
                              taken |-> 0, at |-> t]]
            \/ /\ stored[d] # None \/ m.arg = "complete"
               /\ op' = Reseen(op, o, Docs)
    /\ seen' = SeenAfterList(ClientOf[o])
    /\ begun' = begun + 1
    /\ UNCHANGED <<driver, stored, copy, lock, now, writes, histVars, overran, faults, crashes>>

(* Sync of one document between the server and the client's file copy:      *)
(* syncDocuments lists the source.                                          *)
SyncList(o) ==
    /\ driver = "clued" /\ op[o] = None /\ begun < MaxOps
    /\ \E m \in Menu :
         LET d == m.doc
             c == ClientOf[o]
             source == IF m.kind = "pull" THEN stored[d] ELSE copy[c][d]
         IN  /\ m.kind \in {"pull", "push"} /\ source # None
             /\ op' = [(IF m.kind = "pull" THEN Reseen(op, o, Docs) ELSE op) EXCEPT ![o] =
                         [kind |-> m.kind, arg |-> m.arg, force |-> m.force, doc |-> d, step |-> "gate",
                          snap |-> source, base |-> 0, stamp |-> 0, reseen |-> FALSE, taken |-> 0, at |-> 0]]
             /\ seen' = IF m.kind = "pull" THEN SeenAfterList(c) ELSE seen
    /\ begun' = begun + 1
    /\ UNCHANGED <<driver, stored, copy, lock, now, writes, histVars, overran, faults, crashes>>

-----------------------------------------------------------------------------
(* Claim's lock.                                                            *)

InClaim(o) == op[o] # None /\ op[o].kind = "claim" /\ op[o].step \notin {"lock", "takeover"}

(* claimMu keeps the claims of one client apart.                            *)
ClaimMuFree(o) ==
    \A p \in Agents \ {o} : ClientOf[p] = ClientOf[o] => ~ InClaim(p) /\ (op[p] # None => op[p].step # "takeover")

LockDoc(o) ==
    /\ op[o] # None /\ op[o].step = "lock" /\ ClaimMuFree(o)
    /\ AcquireLease(o, op[o].doc) \/ CreateLockFile(o, op[o].doc)
    /\ op' = [op EXCEPT ![o].step = "reread", ![o].taken = now]
    /\ UNCHANGED <<driver, stored, copy, seen, now, writes, histVars, overran, begun, faults, crashes>>

(* The lock file's Stat says it is stale: it will be removed.               *)
StatLock(o) ==
    /\ driver = "file" /\ op[o] # None /\ op[o].step = "lock" /\ ClaimMuFree(o)
    /\ lock[op[o].doc] # None /\ Lapsed(lock[op[o].doc])
    /\ op' = Goto(o, "takeover")
    /\ UNCHANGED <<storeVars, histVars, overran, begun, faults, crashes>>

(* os.Remove of the path: by now it may be another claim's file.            *)
TakeOver(o) ==
    /\ op[o] # None /\ op[o].step = "takeover"
    /\ lock' = [lock EXCEPT ![op[o].doc] = None]
    /\ op' = Goto(o, "lock")
    /\ UNCHANGED <<driver, stored, copy, seen, now, writes, histVars, overran, begun, faults, crashes>>

(* claimLockTimeout: a Conflict.                                            *)
LockTimesOut(o) ==
    /\ op[o] # None /\ op[o].step = "lock"
    /\ lock[op[o].doc] # None
    /\ op' = [op EXCEPT ![o] = None]
    /\ UNCHANGED <<storeVars, histVars, overran, begun, faults, crashes>>

(* Mutant: the document is not read again under the lock.                   *)
Reread_Skipped(o) ==
    /\ op[o] # None /\ op[o].step = "reread"
    /\ op' = Goto(o, "gate")
    /\ UNCHANGED <<storeVars, histVars, overran, begun, faults, crashes>>

(* The second Resolve, under the lock, and who holds the document.          *)
Reread(o) ==
    /\ op[o] # None /\ op[o].step = "reread"
    /\ LET d == op[o].doc
           doc == stored[d]
           mine == doc # None /\ doc.assignee = o /\ doc.status = "in_progress"
           others == doc # None /\ doc.assignee \notin {None, o} /\ ~ op[o].force
       IN  /\ op' = IF doc = None \/ mine \/ others THEN Reseen(Return(o), o, {d})
                    ELSE [Reseen(op, o, {d}) EXCEPT ![o] =
                            [op[o] EXCEPT !.step = "gate", !.snap = doc, !.base = doc.ver,
                                          !.stamp = SeenAfterRead(ClientOf[o], d)[ClientOf[o]][d], !.reseen = FALSE]]
           /\ grants' = IF mine THEN [grants EXCEPT ![d] = @ \cup {o}] ELSE grants
           /\ seen' = SeenAfterRead(ClientOf[o], d)
    /\ UNCHANGED <<driver, stored, copy, lock, now, writes, clobbers, finished, author, ungated, unchecked, overran, begun, faults, crashes>>

-----------------------------------------------------------------------------
(* The checks between the read and the write.                               *)

Target(o) == IF op[o].kind = "claim" THEN "in_progress" ELSE op[o].arg

(* Mutant: only a completion waits for the dependencies.                    *)
Allowed_CompleteOnly(o) ==
    LET from == op[o].snap.status
        to == Target(o)
    IN  \/ op[o].force \/ to = from
        \/ to \in Workflow[from] /\ (to = "complete" => OpenDependencies(op[o].doc) = {})

(* The workflow and the dependencies let the document move, or force does.  *)
Allowed(o) ==
    LET from == op[o].snap.status
        to == Target(o)
    IN  \/ op[o].force \/ to = from
        \/ to \in Workflow[from] /\ (to \in {"in_progress", "complete"} => OpenDependencies(op[o].doc) = {})

(* applyStatus: completing lists every document, starting reads the ones it *)
(* depends on; a completion may also be refused for its criteria.           *)
ApplyStatus(o) ==
    /\ op[o] # None /\ op[o].step = "gate" /\ op[o].kind \in {"status", "claim"}
    /\ LET same == op[o].snap.status = Target(o)
           looks == ~ op[o].force /\ ~ same
           read == CASE looks /\ Target(o) = "complete" -> Docs
                     [] looks /\ Target(o) = "in_progress" -> {e \in Docs : <<op[o].doc, e>> \in Depends}
                     [] OTHER -> {}
       IN  /\ \/ /\ Allowed(o) /\ (same => op[o].kind = "claim")
                 /\ op' = Reseen(Goto(o, "save"), o, read)
              \/ /\ ~ Allowed(o) \/ Target(o) = "complete" \/ (same /\ op[o].kind = "status")
                 /\ op' = Reseen(Return(o), o, read)
           /\ seen' = IF driver = "file" THEN seen
                      ELSE [seen EXCEPT ![ClientOf[o]] = [e \in Docs |-> IF e \in read /\ stored[e] # None THEN stored[e].updated ELSE @[e]]]
    /\ UNCHANGED <<driver, stored, copy, lock, now, writes, histVars, overran, begun, faults, crashes>>

(* Delete: linkedBy lists every document.                                   *)
LinkedBy(o) ==
    /\ op[o] # None /\ op[o].step = "gate" /\ op[o].kind = "delete"
    /\ LET linked == \E e \in Docs : stored[e] # None /\ <<e, op[o].doc>> \in Depends
       IN  op' = Reseen(IF linked /\ ~ op[o].force THEN Return(o) ELSE Goto(o, "put"), o, Docs)
    /\ seen' = SeenAfterList(ClientOf[o])
    /\ UNCHANGED <<driver, stored, copy, lock, now, writes, histVars, overran, begun, faults, crashes>>

(* Mutant: an older source replaces a newer target.                         *)
Replaces_Older(mode, source, target) ==
    \/ target = None
    \/ target # source /\ mode \in {"overwrite", "newer"}

(* syncDocuments: what becomes of a document the target may have.           *)
Replaces(mode, source, target) ==
    \/ target = None
    \/ target # source /\ mode = "overwrite"
    \/ target # source /\ mode = "newer" /\ source.updated >= target.updated

(* Sync reads the target's copy.                                            *)
SyncGet(o) ==
    /\ op[o] # None /\ op[o].step = "gate" /\ op[o].kind \in {"pull", "push"}
    /\ LET d == op[o].doc
           c == ClientOf[o]
           target == IF op[o].kind = "pull" THEN copy[c][d] ELSE stored[d]
           read == IF op[o].kind = "push" THEN {d} ELSE {}
       IN  /\ op' = IF Replaces(op[o].arg, op[o].snap, target)
                    THEN [Reseen(op, o, read) EXCEPT ![o] =
                            [op[o] EXCEPT !.step = "put", !.base = Version(target),
                                          !.stamp = IF target = None THEN 0 ELSE target.updated, !.reseen = FALSE]]
                    ELSE Reseen(Return(o), o, read)
           /\ seen' = IF op[o].kind = "push" THEN SeenAfterRead(c, d) ELSE seen
    /\ UNCHANGED <<driver, stored, copy, lock, now, writes, histVars, overran, begun, faults, crashes>>

-----------------------------------------------------------------------------
(* The write.                                                               *)

(* save stamps the document, with its client's clock.                       *)
Save(o) ==
    /\ op[o] # None /\ op[o].step = "save"
    /\ \E t \in Clock(ClientOf[o]) : op' = [op EXCEPT ![o].step = "put", ![o].at = t]
    /\ UNCHANGED <<storeVars, histVars, overran, begun, faults, crashes>>

(* SetAssignee, as the setter that clears the field a claim sets; the other *)
(* setters change fields that are not modelled.                             *)
SetAssignee(doc) == [doc EXCEPT !.assignee = None]

(* What is written: the document as save has stamped it, or, by Sync, as    *)
(* it is.                                                                   *)
Result(o) ==
    LET doc == [op[o].snap EXCEPT !.ver = writes + 1, !.updated = op[o].at]
    IN  CASE op[o].kind = "edit" -> IF op[o].arg = "clear" THEN SetAssignee(doc) ELSE doc
          [] op[o].kind \in {"status", "create"} -> [doc EXCEPT !.status = op[o].arg]
          [] op[o].kind = "claim" -> [doc EXCEPT !.status = "in_progress", !.assignee = o]
          [] OTHER -> op[o].snap

(* Why a write went over a version its writer had not read, if it did: it   *)
(* had nothing to compare with, its client has seen the newer version since *)
(* (another client's, or its own from another call), or the two versions    *)
(* have the same stamp.                                                     *)
Cause(o) ==
    LET d == op[o].doc
    IN  IF driver = "file" THEN "blind"
        ELSE IF seen[ClientOf[o]][d] = 0 THEN "unread"
        ELSE IF op[o].reseen THEN (IF author[d] = ClientOf[o] THEN "shared" ELSE "reseen")
        ELSE IF stored[d] # None /\ stored[d].updated = op[o].stamp THEN "stamp"
        ELSE "blind"

Informed(o) == Version(stored[op[o].doc]) = op[o].base

(* History of a write that reaches the primary.  A grant ends by rule when  *)
(* somebody who saw it, or forces, changes the assignee.                    *)
Record(o, doc) ==
    LET d == op[o].doc
    IN  /\ clobbers' = IF Informed(o) THEN clobbers
                       ELSE clobbers \cup {[doc |-> d, kind |-> op[o].kind, cause |-> Cause(o)]}
        /\ grants' = IF \/ stored[d] = None
                        \/ doc.assignee # stored[d].assignee /\ (Informed(o) \/ op[o].force)
                     THEN [grants EXCEPT ![d] = {}] ELSE grants
        /\ finished' = IF doc.status = "complete" THEN finished \cup {d} ELSE finished
        /\ author' = [author EXCEPT ![d] = ClientOf[o]]
        /\ ungated' = IF op[o].force \/ (op[o].kind = "create" /\ op[o].arg # "ready") THEN ungated \cup {d} ELSE ungated
        /\ UNCHANGED unchecked

WritesPrimary(o) == op[o] # None /\ op[o].step = "put" /\ op[o].kind \notin {"delete", "pull"}

(* What follows a write to the primary: MultiStore's other store, if the    *)
(* write went through the MultiStore, then Claim's last read.               *)
AfterPut(o) ==
    IF op[o].kind \in {"push", "pull"} THEN Return(o)
    ELSE IF driver = "clued" THEN [op EXCEPT ![o].step = "copy", ![o].snap = Result(o)]
    ELSE IF op[o].kind = "claim" THEN Goto(o, "recheck")
    ELSE Return(o)

Put(o) ==
    /\ WritesPrimary(o)
    /\ LET d == op[o].doc
           c == ClientOf[o]
           doc == Result(o)
       IN  \/ /\ Accepts(c, d)
              /\ stored' = [stored EXCEPT ![d] = doc]
              /\ writes' = writes + 1
              /\ seen' = SeenAfterPut(c, d, doc)
              /\ op' = ReseenIn(stored', AfterPut(o), o, {d})
              /\ Record(o, doc)
           \/ /\ ~ Accepts(c, d)
              /\ op' = Return(o)
              /\ UNCHANGED <<stored, writes, seen, histVars>>
    /\ UNCHANGED <<driver, copy, lock, now, overran, begun, faults, crashes>>

(* The write fails, or the server's answer to it is lost.                   *)
PutFails(o) ==
    /\ WritesPrimary(o) /\ faults + crashes < MaxFaults
    /\ op' = Return(o)
    /\ \/ UNCHANGED <<stored, writes, histVars>>
       \/ /\ driver = "clued" /\ Accepts(ClientOf[o], op[o].doc)
          /\ stored' = [stored EXCEPT ![op[o].doc] = Result(o)]
          /\ writes' = writes + 1
          /\ Record(o, Result(o))
    /\ faults' = faults + 1
    /\ UNCHANGED <<driver, copy, seen, lock, now, overran, begun, crashes>>

(* MultiStore.Delete on the primary; not found ends it there.               *)
Delete(o) ==
    /\ op[o] # None /\ op[o].step = "put" /\ op[o].kind = "delete"
    /\ LET d == op[o].doc
       IN  /\ op' = IF stored[d] = None \/ driver = "file" THEN Return(o) ELSE Goto(o, "copy")
           /\ stored' = [stored EXCEPT ![d] = None]
           /\ seen' = [seen EXCEPT ![ClientOf[o]][d] = 0]
           /\ grants' = [grants EXCEPT ![d] = {}]
    /\ UNCHANGED <<driver, copy, lock, now, writes, clobbers, finished, author, ungated, unchecked, overran, begun, faults, crashes>>

(* The fan-out to the client's file copy.                                   *)
PutCopy(o) ==
    /\ op[o] # None /\ op[o].step = "copy"
    /\ copy' = [copy EXCEPT ![ClientOf[o]][op[o].doc] = IF op[o].kind = "delete" THEN None ELSE op[o].snap]
    /\ op' = IF op[o].kind = "claim" THEN Goto(o, "recheck") ELSE Return(o)
    /\ UNCHANGED <<driver, stored, seen, lock, now, writes, histVars, overran, begun, faults, crashes>>

(* A FanoutError: the primary has it, the copy has not.                     *)
PutCopyFails(o) ==
    /\ op[o] # None /\ op[o].step = "copy" /\ faults + crashes < MaxFaults
    /\ op' = Return(o)
    /\ faults' = faults + 1
    /\ UNCHANGED <<storeVars, histVars, overran, begun, crashes>>

(* Sync's write to the file copy.                                           *)
PullCopy(o) ==
    /\ op[o] # None /\ op[o].step = "put" /\ op[o].kind = "pull"
    /\ copy' = [copy EXCEPT ![ClientOf[o]][op[o].doc] = op[o].snap]
    /\ op' = Return(o)
    /\ UNCHANGED <<driver, stored, seen, lock, now, writes, histVars, overran, begun, faults, crashes>>

(* Claim reads the document once more: a claim that lost says so.           *)
Recheck(o) ==
    /\ op[o] # None /\ op[o].step = "recheck"
    /\ LET d == op[o].doc
       IN  /\ grants' = IF stored[d] = None \/ stored[d].assignee = o THEN [grants EXCEPT ![d] = @ \cup {o}] ELSE grants
           /\ op' = Reseen(Return(o), o, {d})
           /\ seen' = SeenAfterRead(ClientOf[o], d)
    /\ UNCHANGED <<driver, stored, copy, lock, now, writes, clobbers, finished, author, ungated, unchecked, overran, begun, faults, crashes>>

(* That read fails: the claim is reported as won, whoever has the document. *)
RecheckFails(o) ==
    /\ op[o] # None /\ op[o].step = "recheck" /\ faults + crashes < MaxFaults
    /\ LET d == op[o].doc
       IN  /\ grants' = [grants EXCEPT ![d] = @ \cup {o}]
           /\ unchecked' = unchecked \cup {<<d, o>>}
    /\ op' = Return(o)
    /\ faults' = faults + 1
    /\ UNCHANGED <<storeVars, clobbers, finished, author, ungated, overran, begun, crashes>>

Unlock(o) ==
    /\ op[o] # None /\ op[o].step = "unlock"
    /\ Release(o, op[o].doc)
    /\ op' = [op EXCEPT ![o] = None]
    /\ UNCHANGED <<driver, stored, copy, seen, now, writes, histVars, overran, begun, faults, crashes>>

-----------------------------------------------------------------------------
(* A client dies: its operations stop where they are, its locks stay.       *)
Crash(c) ==
    /\ faults + crashes < MaxFaults
    /\ \E o \in Agents : op[o] # None /\ ClientOf[o] = c
    /\ op' = [o \in Agents |-> IF ClientOf[o] = c THEN None ELSE op[o]]
    /\ seen' = [seen EXCEPT ![c] = [d \in Docs |-> 0]]
    /\ crashes' = crashes + 1
    /\ UNCHANGED <<driver, stored, copy, lock, now, writes, histVars, overran, begun, faults>>

(* The claim has held its lock longer than the lock is good for.            *)
Overran(o) == InClaim(o) /\ Lapsed([holder |-> o, taken |-> op[o].taken])

Tick ==
    /\ now < MaxNow[driver]
    /\ now' = now + 1
    /\ UNCHANGED <<driver, stored, copy, seen, lock, writes, op, histVars, begun, faults, crashes>>
    /\ overran' = (overran \/ (driver = "file" /\ \E o \in Agents : Overran(o)'))

Next ==
    \/ \E o \in Agents :
         \/ Resolve(o) \/ Create(o) \/ SyncList(o)
         \/ LockDoc(o) \/ StatLock(o) \/ TakeOver(o) \/ LockTimesOut(o) \/ Reread(o)
         \/ ApplyStatus(o) \/ LinkedBy(o) \/ SyncGet(o)
         \/ Save(o) \/ Put(o) \/ PutFails(o) \/ Delete(o) \/ PutCopy(o) \/ PutCopyFails(o) \/ PullCopy(o)
         \/ Recheck(o) \/ RecheckFails(o) \/ Unlock(o)
    \/ \E c \in Clients : Crash(c)
    \/ Tick

Spec == Init /\ [][Next]_vars

-----------------------------------------------------------------------------
(* Against a server no write goes over a version its writer has not read,   *)
(* but for three holes: remotestore keeps one stamp per document and client *)
(* for all its calls, it has none for a document it never read or deleted,  *)
(* and two writes of one millisecond, on clocks that differ or not, have    *)
(* one stamp.                                                               *)
LostUpdateOnlyKnown == driver = "clued" => \A b \in clobbers : b.cause # "blind"

(* Two claims are between lock and unlock of one document only when a lease *)
(* has run out under one of them; with lock files, only after some claim    *)
(* outlived its file or died and left it.                                   *)
ClaimsExclude ==
    \A o, p \in Agents :
        o # p /\ InClaim(o) /\ InClaim(p) /\ op[o].doc = op[p].doc =>
            IF driver = "clued" THEN Overran(o) \/ Overran(p) ELSE overran \/ crashes > 0

(* An agent that was told it holds a document is the stored assignee until  *)
(* somebody takes the document away knowingly: a claim that lost was        *)
(* refused, or a lost update (above) has overwritten the winner, or the     *)
(* claim's last read failed and it was told without having looked.          *)
HeldByWinner ==
    \A d \in Docs : \A o \in grants[d] :
        \/ stored[d] = None \/ stored[d].assignee = o
        \/ \E b \in clobbers : b.doc = d /\ (b.kind # "claim" \/ driver = "clued")
        \/ driver = "file" /\ (overran \/ crashes > 0)
        \/ <<d, o>> \in unchecked

(* A document that was put under way or completed by a claim or a status,   *)
(* and never by force or as it was created, depends only on documents that  *)
(* have been complete.                                                      *)
StartedAfterDependencies ==
    \A d \in Docs \ ungated :
        stored[d] # None /\ stored[d].status # "ready" =>
            \A e \in Docs : <<d, e>> \in Depends => e \in finished

(* A document's stamp on the server goes back only through a sync that was  *)
(* told to overwrite, through a write in one of the first two holes above,  *)
(* or through a save by a slower clock, and then by no more than the clocks *)
(* are apart: however late it lands, a save replaces what it was made from. *)
StampsGoForward ==
    [][\A d \in Docs :
         stored[d] # None /\ stored'[d] # None /\ stored'[d].updated < stored[d].updated =>
            \E o \in Agents :
                /\ op[o] # None /\ op[o].doc = d
                /\ \/ op[o].reseen \/ seen[ClientOf[o]][d] = 0
                   \/ op[o].kind = "push" /\ op[o].arg = "overwrite"
                   \/ op[o].kind \in Saves /\ stored[d].updated <= stored'[d].updated + Skew]_vars
=============================================================================
