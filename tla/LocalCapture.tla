---------------------------- MODULE LocalCapture ----------------------------
(***************************************************************************)
(* Capture on one machine: the hook script (hooks/event-relay) posts each   *)
(* event to the daemon (session/daemon/daemon.go), which stores it through  *)
(* ingest.Handle, and appends it to the write-ahead log itself when the     *)
(* post fails.  hooks/session-start replaces a running daemon by a new one: *)
(* the old one stops listening before it has finished.                      *)
(***************************************************************************)
EXTENDS EventWal

CONSTANTS
    Oversize,    \* events larger than maxBodyBytes, which the daemon answers with 413
    MaxCrashes,  \* bound: how many daemons die without shutting down
    MaxStarts    \* bound: how many daemons are started

ASSUME LocalAssumption == Procs # {} /\ {MaxCrashes, MaxStarts} \subseteq Nat

VARIABLES
    daemon,   \* where each daemon is in Run
    hook,     \* where each event's hook script, or its request, is
    by,       \* the daemon that handles the request of an event, while one does
    crashes,  \* daemons dead so far
    starts    \* daemons started so far

localVars == <<daemon, hook, by, crashes, starts>>

vars == <<walVars, localVars>>

(* starting: listening, the first flush not done.  serving.  closing:       *)
(* srv.Shutdown has closed the listener; requests and loops are finishing.  *)
DaemonPhases == {"off", "starting", "serving", "closing"}

(* posting: curl has the event.  inserting, buffering, answering: the       *)
(* daemon's handler has it.  appending: curl has failed.                    *)
HookPhases == {"todo", "posting", "inserting", "buffering", "answering", "appending", "done"}

InHandler == {"inserting", "buffering", "answering"}

AnyDaemon == CHOOSE d \in Procs : TRUE

TypeOK ==
    /\ WalTypeOK
    /\ daemon \in [Procs -> DaemonPhases]
    /\ hook \in [Events -> HookPhases]
    /\ by \in [Events -> Procs]
    /\ crashes \in Nat /\ starts \in Nat

Init ==
    /\ WalInit
    /\ daemon = [d \in Procs |-> "off"]
    /\ hook = [e \in Events |-> "todo"]
    /\ by = [e \in Events |-> AnyDaemon]
    /\ crashes = 0 /\ starts = 0

Raw(e) == [ev |-> e, stamped |-> FALSE]

Listening == \E d \in Procs : daemon[d] \in {"starting", "serving"}

Step(e, ph) == hook' = [hook EXCEPT ![e] = ph]

-----------------------------------------------------------------------------
(* The hook script.                                                         *)

HookFires(e) ==
    /\ hook[e] = "todo"
    /\ Step(e, "posting")
    /\ UNCHANGED <<walVars, daemon, by, crashes, starts>>

(* curl -f fails: nobody listens, or the daemon answers 413.                *)
CurlFails(e) ==
    /\ hook[e] = "posting"
    /\ ~Listening \/ (e \in Oversize /\ \E d \in Procs : daemon[d] = "serving")
    /\ Step(e, "appending")
    /\ UNCHANGED <<walVars, daemon, by, crashes, starts>>

(* The script appends the body as it came, under no lock, and returns ok     *)
(* whether or not that worked.                                              *)
HookAppends(e) ==
    /\ hook[e] = "appending"
    /\ WalAppend(Raw(e)) \/ WalAppendFails(Raw(e))
    /\ Step(e, "done")
    /\ UNCHANGED <<daemon, by, crashes, starts>>

(* The daemon's request handler.                                            *)

Accept(d, e) ==
    /\ daemon[d] = "serving"
    /\ hook[e] = "posting" /\ e \notin Oversize
    /\ Step(e, "inserting")
    /\ by' = [by EXCEPT ![e] = d]
    /\ UNCHANGED <<walVars, daemon, crashes, starts>>

(* Handle inserts the stamped event, ...                                    *)
HandleInserts(e) ==
    /\ hook[e] = "inserting"
    /\ InsertOK(Stamped(e))
    /\ Step(e, "answering")
    /\ UNCHANGED <<up, file, cut, flush, overrun, torn, spilled, daemon, by, crashes, starts>>

HandleInsertFails(e) ==
    /\ hook[e] = "inserting"
    /\ InsertFails(Stamped(e)) \/ InsertUncertain(Stamped(e))
    /\ Step(e, "buffering")
    /\ UNCHANGED <<up, file, cut, flush, overrun, torn, spilled, daemon, by, crashes, starts>>

(* Mutant: the lock is not taken.                                           *)
WalMuFree_NoLock(d) == TRUE

(* walMu: this daemon is not in a flush.                                    *)
WalMuFree(d) == flush[d].pc = "none"

(* ... or appends it to the log, while its own flush does not run.  The     *)
(* hook is answered ok whether or not that worked.                          *)
HandleBuffers(e) ==
    /\ hook[e] = "buffering"
    /\ WalMuFree(by[e])
    /\ WalAppend(Stamped(e)) \/ WalAppendFails(Stamped(e))
    /\ Step(e, "answering")
    /\ UNCHANGED <<daemon, by, crashes, starts>>

Answer(e) ==
    /\ hook[e] = "answering"
    /\ Step(e, "done")
    /\ by' = [by EXCEPT ![e] = AnyDaemon]
    /\ UNCHANGED <<walVars, daemon, crashes, starts>>

-----------------------------------------------------------------------------
(* The daemon's life.                                                       *)

(* Run: bind the port (only one can), then flush before serving.            *)
Start(d) ==
    /\ daemon[d] = "off" /\ ~Listening
    /\ starts < MaxStarts
    /\ starts' = starts + 1
    /\ daemon' = [daemon EXCEPT ![d] = "starting"]
    /\ IF LogIsEmpty THEN UNCHANGED walVars ELSE FlushRead(d)
    /\ UNCHANGED <<hook, by, crashes>>

Serve(d) ==
    /\ daemon[d] = "starting" /\ flush[d].pc = "none"
    /\ daemon' = [daemon EXCEPT ![d] = "serving"]
    /\ UNCHANGED <<walVars, hook, by, crashes, starts>>

(* Mutant: the log is replayed only when the daemon starts.                 *)
FlushTick_Never(d) == FALSE /\ UNCHANGED vars

(* The flush loop's ticker.                                                 *)
FlushTick(d) ==
    /\ daemon[d] = "serving"
    /\ FlushRead(d)
    /\ UNCHANGED localVars

(* The context may have ended while the daemon starts, and has when it       *)
(* closes.  A flush that fails is logged, and the next tick tries again.    *)
FlushStep(d) ==
    /\ \/ daemon[d] # "closing" /\ FlushInserts(d)
       \/ daemon[d] # "closing" /\ FlushKeeps(d)
       \/ FlushTimesOut(d, daemon[d] \in {"starting", "closing"})
       \/ FlushTruncates(d) \/ FlushOpenFails(d)
       \/ FlushWrites(d) \/ FlushWriteFails(d)
    /\ UNCHANGED localVars

(* SIGTERM: the context ends and the listener is closed.  A tick that is     *)
(* due at that moment may still be served first.                            *)
Shutdown(d) ==
    /\ daemon[d] = "serving"
    /\ daemon' = [daemon EXCEPT ![d] = "closing"]
    /\ UNCHANGED walVars \/ FlushRead(d)
    /\ UNCHANGED <<hook, by, crashes, starts>>

(* The process of daemon d is gone.  A request it was handling fails in the *)
(* hook's curl.                                                             *)
Gone(d) ==
    LET inHand == {e \in Events : by[e] = d /\ hook[e] \in InHandler}
    IN  /\ daemon' = [daemon EXCEPT ![d] = "off"]
        /\ hook' = [e \in Events |-> IF e \in inHand THEN "appending" ELSE hook[e]]
        /\ by' = [e \in Events |-> IF e \in inHand THEN AnyDaemon ELSE by[e]]
        /\ WalCrash(d, {e \in inHand : hook[e] = "answering"})
        /\ UNCHANGED starts

(* Run returns once the loops have ended.  Handlers are waited for, but not *)
(* longer than shutdownTimeout, which is shorter than a store call may take.*)
Exit(d) ==
    /\ daemon[d] = "closing"
    /\ flush[d].pc = "none"
    /\ Gone(d)
    /\ UNCHANGED crashes

Crash(d) ==
    /\ daemon[d] # "off"
    /\ crashes < MaxCrashes
    /\ crashes' = crashes + 1
    /\ Gone(d)

StoreStep == (StoreGoesDown \/ StoreComesBack) /\ UNCHANGED localVars

HookStep(e) ==
    \/ HookFires(e) \/ CurlFails(e) \/ HookAppends(e)
    \/ HandleInserts(e) \/ HandleInsertFails(e) \/ HandleBuffers(e) \/ Answer(e)

DaemonStep(d) ==
    \/ Start(d) \/ Serve(d) \/ FlushTick(d) \/ FlushStep(d)
    \/ Shutdown(d) \/ Exit(d) \/ Crash(d)
    \/ \E e \in Events : Accept(d, e)

Next ==
    \/ StoreStep
    \/ \E e \in Events : HookStep(e)
    \/ \E d \in Procs : DaemonStep(d)

Spec == Init /\ [][Next]_vars

(* curl and the handlers finish what they started, the flush ticker fires   *)
(* and a flush goes on; a daemon that is starting serves, one that closes   *)
(* exits.  Neither the store nor session-start owes anything.               *)
Fairness ==
    /\ \A e \in Events : WF_vars(HookStep(e) /\ hook[e] # "todo")
    /\ \A d \in Procs :
         /\ WF_vars(FlushTick(d))
         /\ WF_vars(FlushStep(d))
         /\ WF_vars(Serve(d))
         /\ WF_vars(Exit(d))
         /\ WF_vars(\E e \in Events : Accept(d, e))

LiveSpec == Spec /\ Fairness

-----------------------------------------------------------------------------

(* An event whose hook has returned is in the store, in the log, or with a  *)
(* flush that will write it back, unless its line was appended by another   *)
(* process in the middle of a flush, a crash or a failed write came between *)
(* truncating and rewriting the log, or its line was not appended whole (the*)
(* append failed, or continued the half line of one that had).              *)
LostOnlyInKnownWindows ==
    \A e \in Events : hook[e] = "done" => Safe(e) \/ e \in Excused

(* wal.go: "the daemon serialises its own Append and Flush calls".  As long *)
(* as a single daemon has run, no line that its own handler appended is     *)
(* wiped by its flush: only the hook script's lines can be.                 *)
OwnLinesNeverOverrun ==
    \A l \in overrun : l.stamped => starts > 1

(* Once the store and a daemon stay up, every event that a hook handed over *)
(* reaches the store, however many times it had to be buffered and however  *)
(* its replays failed, unless it was lost in one of those windows.          *)
BufferedEventsReplayed ==
    <>[](up /\ \E d \in Procs : daemon[d] = "serving")
      => \A e \in Events : hook[e] = "done" ~> Stored(e) \/ e \in Excused
=============================================================================
