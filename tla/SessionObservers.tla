--------------------------- MODULE SessionObservers ---------------------------
(***************************************************************************)
(* What the daemon learns about one session from its hook events            *)
(* (ingest.Service with Detach set, livestate): every event is handled in a *)
(* request of its own, and the first-sight upsert, the touch, the late git  *)
(* lookup and the live-state observation each run on a goroutine of their   *)
(* own, in any order.                                                       *)
(***************************************************************************)
EXTENDS Naturals, Sequences

CONSTANTS
    MaxEvents,   \* bound: hook events of the session
    MaxFaults,   \* bound: store calls that fail and restarts of the daemon
    Inputs,      \* what a hook event may say: a live state or Nothing, and whether it has a cwd
    Nothing

(* livestate.StateOf also knows "ended", which is treated like the others.  *)
States == {"working", "waiting"}

ASSUME ObserversAssumption ==
    /\ {MaxEvents, MaxFaults} \subseteq Nat
    /\ Inputs \subseteq [state : States \cup {Nothing}, cwd : BOOLEAN]

VARIABLES
    events,       \* events that have arrived; an event's number is also its time
    tasks,        \* goroutines under way
    svc,          \* sessionState, and whether the session is in Service.seen
    sessionDoc,   \* the session record of the store
    stateChanges, \* the SessionStateChanged events, in the order they were stored
    faults,       \* history: store calls that failed and restarts
    overlap,      \* history: what of an earlier event was still under way when one arrived
    last,         \* history: the state of the last event that was stored and says one
    unmet,        \* history: the latest observation did not find the session
    dropped       \* history: why something the service knows is not in the store

observersVars == <<events, tasks, svc, sessionDoc, stateChanges, faults, overlap, last, unmet, dropped>>

Event == [n : 1 .. MaxEvents, state : States \cup {Nothing}, cwd : BOOLEAN]

StateChange == [from : States \cup {Nothing}, to : States]

(* handle is the request; the others are what it detaches.  found is a git  *)
(* origin that was looked up, change what the observation has to record.    *)
Task == [kind : {"handle", "upsert", "git", "touch", "state"}, event : Event,
         step : {"lookup", "store", "record", "remember"}, found : BOOLEAN, change : StateChange \cup {Nothing}]

ObserversTypeOK ==
    /\ events \in 0 .. MaxEvents
    /\ tasks \subseteq Task
    /\ svc \in [seen : BOOLEAN, gitOriginFound : BOOLEAN, gitLookup : BOOLEAN, liveState : States \cup {Nothing}]
    /\ sessionDoc \in [exists : BOOLEAN, live : States \cup {Nothing}, lastSeen : Nat, git : BOOLEAN]
    /\ stateChanges \in Seq(StateChange)
    /\ faults \in 0 .. MaxFaults
    /\ overlap \subseteq {"observation", "touch"} /\ last \in States \cup {Nothing} /\ unmet \in BOOLEAN
    /\ dropped \subseteq {"error", "restart", "early"}

NewService == [seen |-> FALSE, gitOriginFound |-> FALSE, gitLookup |-> FALSE, liveState |-> Nothing]

ObserversInit ==
    /\ events = 0 /\ tasks = {}
    /\ svc = NewService
    /\ sessionDoc = [exists |-> FALSE, live |-> Nothing, lastSeen |-> 0, git |-> FALSE]
    /\ stateChanges = <<>>
    /\ faults = 0
    /\ overlap = {} /\ last = Nothing /\ unmet = FALSE /\ dropped = {}

Go(kind, e, step) == [kind |-> kind, event |-> e, step |-> step, found |-> FALSE, change |-> Nothing]

(* A store call of a task fails: it is logged and the goroutine ends.       *)
TaskFails(t) ==
    /\ faults < MaxFaults /\ faults' = faults + 1
    /\ tasks' = tasks \ {t}
    /\ dropped' = dropped \cup {"error"}

-----------------------------------------------------------------------------
(* track: one late git lookup at a time until an origin is known.           *)
LooksUpGit(e) == svc.seen /\ e.cwd /\ ~ svc.gitOriginFound /\ ~ svc.gitLookup

(* History: an event arrives before an earlier one is observed or has       *)
(* touched the session.                                                     *)
Overtaken ==
    {o \in {"observation", "touch"} :
       \E t \in tasks : t.kind \in (IF o = "touch" THEN {"touch"} ELSE {"handle", "state"})}

(* Handle, up to the insert: track and touch are detached.                  *)
Arrive ==
    /\ events < MaxEvents
    /\ events' = events + 1
    /\ \E i \in Inputs :
         LET e == [n |-> events + 1, state |-> i.state, cwd |-> i.cwd]
         IN  /\ tasks' = tasks \cup {Go("handle", e, "store"), Go("touch", e, "store")}
                           \cup (IF ~ svc.seen THEN {Go("upsert", e, "lookup")} ELSE {})
                           \cup (IF LooksUpGit(e) THEN {Go("git", e, "lookup")} ELSE {})
             /\ svc' = [svc EXCEPT !.seen = TRUE, !.gitLookup = svc.gitLookup \/ LooksUpGit(e)]
    /\ overlap' = overlap \cup Overtaken
    /\ UNCHANGED <<sessionDoc, stateChanges, faults, last, unmet, dropped>>

(* Handle: only an event that was stored is observed.                       *)
Insert(t) ==
    /\ t.kind = "handle"
    /\ \/ /\ tasks' = (tasks \ {t}) \cup (IF t.event.state = Nothing THEN {} ELSE {Go("state", t.event, "store")})
          /\ last' = IF t.event.state = Nothing THEN last ELSE t.event.state
          /\ UNCHANGED <<faults, dropped>>
       \/ TaskFails(t) /\ UNCHANGED last
    /\ UNCHANGED <<events, svc, sessionDoc, stateChanges, overlap, unmet>>

(* upsertSession: the lookup may find no origin, and has nothing to look    *)
(* in without a working directory.                                          *)
UpsertLookup(t) ==
    /\ t.kind = "upsert" /\ t.step = "lookup"
    /\ \E found \in (IF t.event.cwd THEN BOOLEAN ELSE {FALSE}) :
         /\ tasks' = (tasks \ {t}) \cup {[t EXCEPT !.step = "store", !.found = found]}
         /\ svc' = [svc EXCEPT !.gitOriginFound = svc.gitOriginFound \/ found]
    /\ UNCHANGED <<events, sessionDoc, stateChanges, faults, overlap, last, unmet, dropped>>

(* Mutant: the origin is only written when the record is new.               *)
UpsertedSession_OnInsert(found) ==
    [sessionDoc EXCEPT !.exists = TRUE, !.lastSeen = events, !.git = IF sessionDoc.exists THEN sessionDoc.git ELSE found]

(* Store.UpsertSession: a field that is not known leaves the stored one.    *)
UpsertedSession(found) ==
    [sessionDoc EXCEPT !.exists = TRUE, !.lastSeen = events, !.git = sessionDoc.git \/ found]

UpsertStore(t) ==
    /\ t.kind = "upsert" /\ t.step = "store"
    /\ \/ /\ sessionDoc' = UpsertedSession(t.found)
          /\ tasks' = tasks \ {t}
          /\ UNCHANGED <<faults, dropped>>
       \/ TaskFails(t) /\ UNCHANGED sessionDoc
    /\ UNCHANGED <<events, svc, stateChanges, overlap, last, unmet>>

(* fillGitInfo: the service takes the origin for known before it is stored. *)
FillLookup(t) ==
    /\ t.kind = "git" /\ t.step = "lookup"
    /\ \E found \in BOOLEAN :
         /\ tasks' = (tasks \ {t}) \cup (IF found THEN {[t EXCEPT !.step = "store"]} ELSE {})
         /\ svc' = [svc EXCEPT !.gitLookup = FALSE, !.gitOriginFound = svc.gitOriginFound \/ found]
    /\ UNCHANGED <<events, sessionDoc, stateChanges, faults, overlap, last, unmet, dropped>>

(* SetGitInfoIfMissing, which does nothing for a session that is not there. *)
FillGitInfo(t) ==
    /\ t.kind = "git" /\ t.step = "store"
    /\ \/ /\ sessionDoc' = [sessionDoc EXCEPT !.git = sessionDoc.git \/ sessionDoc.exists]
          /\ tasks' = tasks \ {t}
          /\ dropped' = IF sessionDoc.exists THEN dropped ELSE dropped \cup {"early"}
          /\ UNCHANGED faults
       \/ TaskFails(t) /\ UNCHANGED sessionDoc
    /\ UNCHANGED <<events, svc, stateChanges, overlap, last, unmet>>

(* TouchSession sets the time it is given, also an earlier one.             *)
Touch(t) ==
    /\ t.kind = "touch"
    /\ \/ /\ sessionDoc' = IF sessionDoc.exists THEN [sessionDoc EXCEPT !.lastSeen = t.event.n] ELSE sessionDoc
          /\ tasks' = tasks \ {t}
          /\ UNCHANGED <<faults, dropped>>
       \/ TaskFails(t) /\ UNCHANGED sessionDoc
    /\ UNCHANGED <<events, svc, stateChanges, overlap, last, unmet>>

-----------------------------------------------------------------------------
(* Mutant: the change is remembered from the service, not from the store.   *)
PreviousState_Cached == svc.liveState

(* SetLiveState returns the state that was stored.                          *)
PreviousState == sessionDoc.live

(* Mutant: the same state again is ignored, but so is a new one while the   *)
(* agent works.                                                             *)
Differs_Idle(state) == sessionDoc.live # state /\ sessionDoc.live # "working"

Differs(state) == sessionDoc.live # state

(* livestate.Observe: SetLiveState.  A session that is not there yet leaves *)
(* the observation to the next event; the same state again is only          *)
(* remembered.                                                              *)
SetLiveState(t) ==
    /\ t.kind = "state" /\ t.step = "store"
    /\ \/ /\ ~ sessionDoc.exists
          /\ tasks' = tasks \ {t}
          /\ unmet' = TRUE
          /\ UNCHANGED <<sessionDoc, faults, dropped>>
       \/ /\ sessionDoc.exists /\ ~ Differs(t.event.state)
          /\ tasks' = (tasks \ {t}) \cup {[t EXCEPT !.step = "remember"]}
          /\ unmet' = FALSE
          /\ UNCHANGED <<sessionDoc, faults, dropped>>
       \/ /\ sessionDoc.exists /\ Differs(t.event.state)
          /\ sessionDoc' = [sessionDoc EXCEPT !.live = t.event.state]
          /\ tasks' = (tasks \ {t}) \cup {[t EXCEPT !.step = "record", !.change = [from |-> PreviousState, to |-> t.event.state]]}
          /\ unmet' = FALSE
          /\ UNCHANGED <<faults, dropped>>
       \/ TaskFails(t) /\ UNCHANGED <<sessionDoc, unmet>>
    /\ UNCHANGED <<events, svc, stateChanges, overlap, last>>

(* livestate.Observe: the event that records the change.                    *)
RecordStateChange(t) ==
    /\ t.kind = "state" /\ t.step = "record"
    /\ \/ /\ stateChanges' = Append(stateChanges, t.change)
          /\ tasks' = (tasks \ {t}) \cup {[t EXCEPT !.step = "remember", !.change = Nothing]}
          /\ UNCHANGED <<faults, dropped>>
       \/ TaskFails(t) /\ UNCHANGED stateChanges
    /\ UNCHANGED <<events, svc, sessionDoc, overlap, last, unmet>>

(* observeState: the service remembers the state; limit samples carry it.   *)
Remember(t) ==
    /\ t.kind = "state" /\ t.step = "remember"
    /\ svc' = IF svc.seen THEN [svc EXCEPT !.liveState = t.event.state] ELSE svc
    /\ tasks' = tasks \ {t}
    /\ UNCHANGED <<events, sessionDoc, stateChanges, faults, overlap, last, unmet, dropped>>

(* The daemon is restarted: goroutines and what the service knew are gone.  *)
RestartService ==
    /\ faults < MaxFaults
    /\ faults' = faults + 1
    /\ tasks' = {} /\ svc' = NewService
    /\ dropped' = IF tasks = {} THEN dropped ELSE dropped \cup {"restart"}
    /\ UNCHANGED <<events, sessionDoc, stateChanges, overlap, last, unmet>>

Step(t) ==
    \/ Insert(t) \/ UpsertLookup(t) \/ UpsertStore(t) \/ FillLookup(t) \/ FillGitInfo(t)
    \/ Touch(t) \/ SetLiveState(t) \/ RecordStateChange(t) \/ Remember(t)

ObserversNext == Arrive \/ RestartService \/ \E t \in tasks : Step(t)

ObserversSpec == ObserversInit /\ [][ObserversNext]_observersVars

-----------------------------------------------------------------------------
Quiet == tasks = {}

(* Each event was observed before the next one arrived.  The other          *)
(* goroutines may still have been under way.                                *)
ObservedInTurn == "observation" \notin overlap

(* When all work is done and nothing failed, the session is there and shows *)
(* the time of the last event, if no touch was overtaken by a later one,    *)
(* and the state of the last event that says one, if no observation was; a  *)
(* slow first upsert or git lookup does not matter.  An observation that    *)
(* came before the session was there is made up for by the next event that  *)
(* says a state: only when it was the latest is the state not shown.  The   *)
(* service remembers the same state.                                        *)
QuietSessionIsCurrent ==
    Quiet /\ dropped = {} /\ events > 0 =>
        /\ sessionDoc.exists
        /\ "touch" \notin overlap => sessionDoc.lastSeen = events
        /\ ObservedInTurn =>
              /\ ~ unmet => sessionDoc.live = last
              /\ svc.liveState # Nothing => svc.liveState = sessionDoc.live

(* The recorded changes of the live state form a chain to the state the     *)
(* session has, through restarts, as long as no observation was overtaken   *)
(* by a later event, nothing failed and no goroutine was cut off.           *)
ChangesLeadToState ==
    ObservedInTurn /\ dropped = {} =>
        /\ \A k \in 1 .. Len(stateChanges) - 1 : stateChanges[k].to = stateChanges[k + 1].from
        /\ Quiet => sessionDoc.live = IF stateChanges = <<>> THEN Nothing ELSE stateChanges[Len(stateChanges)].to

(* A git origin the service knows of is in the store or on its way, unless  *)
(* a call failed, the daemon was restarted, or the late lookup came to the  *)
(* store before the session did.                                            *)
KnownOriginIsStored ==
    svc.gitOriginFound /\ dropped = {} =>
        \/ sessionDoc.git
        \/ \E t \in tasks : (t.kind = "git" /\ t.step = "store") \/ (t.kind = "upsert" /\ t.found)
=============================================================================
