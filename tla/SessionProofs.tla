----------------------------- MODULE SessionProofs -----------------------------
(***************************************************************************)
(* What the store learns about a session, proved for any number of events,  *)
(* goroutines, lines, backfills, restarts and failed calls: first what the  *)
(* hook events say (SessionObservers), then its transcript                  *)
(* (TranscriptMirror).  The two share no variable.                          *)
(***************************************************************************)
EXTENDS SessionObservers, TranscriptMirror, TLAPS

GitLookup(t) == t.kind = "git" /\ t.step = "lookup"

(* What holds of the goroutines in any order they run.                      *)
TasksInv ==
    /\ \A t \in tasks : t.step = "lookup" => ~ t.found
    /\ \A t \in tasks : GitLookup(t) => svc.gitLookup
    /\ \A s, t \in tasks : GitLookup(s) /\ GitLookup(t) => s = t
    /\ \A t \in tasks : t.kind = "state" => /\ t.event.state \in States /\ t.step # "lookup"
                                            /\ t.step = "record" => t.change \in StateChange
    /\ svc.seen \/ svc.liveState = Nothing

(* Each event was observed before the next one came, no store call failed   *)
(* and no goroutine was cut off.                                            *)
Orderly == ObservedInTurn /\ dropped = {}

(* Where the recorded changes lead.                                         *)
StateEnd == IF stateChanges = <<>> THEN Nothing ELSE stateChanges[Len(stateChanges)].to

StatesChained == \A k \in 1 .. Len(stateChanges) - 1 : stateChanges[k].to = stateChanges[k + 1].from

Observes(t) == t.kind \in {"handle", "state"}

RecordingState(t) == t.kind = "state" /\ t.step = "record"

(* A state that was set: the observation records it or remembers it.        *)
HasSet(t) == t.kind = "state" /\ t.step \in {"record", "remember"}

(* One goroutine observes a state.                                          *)
OneObserver == \A s, t \in tasks : Observes(s) /\ Observes(t) => s = t

StateInv ==
    /\ \A t \in tasks : t.kind = "state" => t.event.state = last
    /\ \A t \in tasks : HasSet(t) => sessionDoc.live = t.event.state
    /\ ~ unmet => sessionDoc.live = last \/ \E t \in tasks : t.kind = "state" /\ t.step = "store"
    /\ svc.liveState # Nothing => svc.liveState = sessionDoc.live \/ \E t \in tasks : HasSet(t)

StateChainInv ==
    /\ StatesChained
    /\ \A t \in tasks : RecordingState(t) => t.change.from = StateEnd /\ t.change.to = sessionDoc.live
    /\ (\E t \in tasks : RecordingState(t)) \/ sessionDoc.live = StateEnd

(* The session is there, or about to be, and so is its time: a goroutine    *)
(* touches it for the last event.                                           *)
PresentInv ==
    /\ svc.seen => events > 0
    /\ events > 0 => sessionDoc.exists \/ \E t \in tasks : t.kind = "upsert"

TimeInv ==
    /\ \A t \in tasks : t.kind = "touch" => t.event.n = events
    /\ events > 0 => \/ sessionDoc.lastSeen = events
                     \/ \E t \in tasks : t.kind \in {"upsert", "touch"}

Presence == dropped = {} => PresentInv /\ ("touch" \notin overlap => TimeInv)

ObserversInv ==
    /\ ObserversTypeOK /\ TasksInv /\ KnownOriginIsStored /\ Presence
    /\ Orderly => OneObserver /\ StateInv /\ StateChainInv

-----------------------------------------------------------------------------
(* A goroutine that was started is one of the kinds the types know.         *)
LEMMA GoType ==
    ASSUME NEW kind \in {"handle", "upsert", "git", "touch", "state"}, NEW e \in Event,
           NEW step \in {"lookup", "store", "record", "remember"}
    PROVE  Go(kind, e, step) \in Task
BY DEF Go, Task

(* Nothing is under way before the first event.                             *)
LEMMA InitObservers == ObserversInit => ObserversInv
<1> SUFFICES ASSUME ObserversInit PROVE ObserversInv
    OBVIOUS
<1>1. ObserversTypeOK
  <2>1. svc \in [seen : BOOLEAN, gitOriginFound : BOOLEAN, gitLookup : BOOLEAN, liveState : States \cup {Nothing}]
    BY DEF ObserversInit, NewService
  <2>2. sessionDoc \in [exists : BOOLEAN, live : States \cup {Nothing}, lastSeen : Nat, git : BOOLEAN]
    BY DEF ObserversInit
  <2>3. events \in 0 .. MaxEvents /\ faults \in 0 .. MaxFaults
    BY ObserversAssumption DEF ObserversInit
  <2>4. stateChanges \in Seq(StateChange) /\ tasks \subseteq Task
    BY DEF ObserversInit
  <2> QED
    BY <2>1, <2>2, <2>3, <2>4 DEF ObserversInit, ObserversTypeOK
<1>2. TasksInv /\ KnownOriginIsStored
    BY DEF ObserversInit, TasksInv, KnownOriginIsStored, NewService
<1>3. Presence
    BY DEF ObserversInit, Presence, PresentInv, TimeInv, NewService
<1>4. OneObserver /\ StateInv /\ StateChainInv
  <2>1. OneObserver
    BY DEF ObserversInit, OneObserver
  <2>2. StateInv
    BY DEF ObserversInit, StateInv, NewService
  <2>3. StatesChained /\ StateEnd = Nothing
    BY DEF ObserversInit, StatesChained, StateEnd
  <2>4. StateChainInv
    BY <2>3 DEF ObserversInit, StateChainInv
  <2> QED
    BY <2>1, <2>2, <2>4
<1> QED
    BY <1>1, <1>2, <1>3, <1>4 DEF ObserversInv

(* The session stays present while none of its upserts and touches ends.    *)
LEMMA PresenceKept ==
    ASSUME Presence, UNCHANGED <<events, overlap>>, dropped' = {} => dropped = {}, svc'.seen = svc.seen,
           sessionDoc'.exists = sessionDoc.exists, sessionDoc'.lastSeen = sessionDoc.lastSeen,
           \A q \in tasks' : q.kind = "touch" => q \in tasks,
           \A q \in tasks : q.kind \in {"upsert", "touch"} => \E u \in tasks' : u.kind = q.kind
    PROVE  Presence'
<1>1. SUFFICES ASSUME dropped' = {} PROVE PresentInv' /\ ("touch" \notin overlap' => TimeInv')
    BY DEF Presence
<1>2. PresentInv /\ PresentInv'
    BY <1>1 DEF Presence, PresentInv
<1>3. ASSUME "touch" \notin overlap' PROVE TimeInv'
    BY <1>1, <1>3 DEF Presence, TimeInv
<1> QED
    BY <1>2, <1>3

(* A store call that fails ends the goroutine, and the order is lost.       *)
LEMMA FailsObservers ==
    ASSUME ObserversInv, NEW t \in tasks, TaskFails(t),
           UNCHANGED <<events, svc, sessionDoc, stateChanges, overlap, last, unmet>>
    PROVE  ObserversInv'
<1>1. ObserversTypeOK'
    BY ObserversAssumption DEF ObserversInv, ObserversTypeOK, TaskFails
<1>2. TasksInv'
    BY DEF ObserversInv, TasksInv, TaskFails, GitLookup
<1>3. dropped' # {}
    BY DEF TaskFails
<1> QED
    BY <1>1, <1>2, <1>3 DEF ObserversInv, KnownOriginIsStored, Orderly, Presence

(* Handle: an event that comes in order finds no state being observed.      *)
LEMMA ArriveObservers ==
    ASSUME ObserversInv, Arrive PROVE ObserversInv'
<1>1. PICK i \in Inputs : Arrive!3!(i)
    BY DEF Arrive
<1>2. PICK e : e = [n |-> events + 1, state |-> i.state, cwd |-> i.cwd]
    OBVIOUS
<1>3. e \in Event /\ e.n = events + 1
  <2>1. i \in [state : States \cup {Nothing}, cwd : BOOLEAN]
    BY ObserversAssumption
  <2>2. events + 1 \in 1 .. MaxEvents
    BY ObserversAssumption DEF ObserversInv, ObserversTypeOK, Arrive
  <2> QED
    BY <1>2, <2>1, <2>2 DEF Event
<1>4. PICK look \in BOOLEAN : look = LooksUpGit(e)
    BY DEF LooksUpGit, ObserversInv, ObserversTypeOK
<1>5. /\ tasks' = tasks \cup {Go("handle", e, "store"), Go("touch", e, "store")}
                     \cup (IF ~ svc.seen THEN {Go("upsert", e, "lookup")} ELSE {})
                     \cup (IF look THEN {Go("git", e, "lookup")} ELSE {})
      /\ svc' = [svc EXCEPT !.seen = TRUE, !.gitLookup = svc.gitLookup \/ look]
    BY <1>1, <1>2, <1>4
<1>6. \A t \in tasks' : \/ t \in tasks
                        \/ t = Go("handle", e, "store") \/ t = Go("touch", e, "store")
                        \/ t = Go("upsert", e, "lookup") /\ ~ svc.seen
                        \/ t = Go("git", e, "lookup") /\ look
    BY <1>5
<1>7. look => svc.seen /\ ~ svc.gitLookup
    BY <1>4 DEF LooksUpGit
<1>8. /\ svc'.seen /\ svc'.gitLookup = (svc.gitLookup \/ look)
      /\ svc'.gitOriginFound = svc.gitOriginFound /\ svc'.liveState = svc.liveState
      /\ svc' \in [seen : BOOLEAN, gitOriginFound : BOOLEAN, gitLookup : BOOLEAN, liveState : States \cup {Nothing}]
    BY <1>5 DEF ObserversInv, ObserversTypeOK
<1>9. ObserversTypeOK'
  <2>1. tasks' \subseteq Task
    BY <1>3, <1>6, GoType DEF ObserversInv, ObserversTypeOK
  <2>2. events' \in 0 .. MaxEvents /\ overlap' \subseteq {"observation", "touch"}
    BY ObserversAssumption DEF ObserversInv, ObserversTypeOK, Arrive, Overtaken
  <2> QED
    BY <1>8, <2>1, <2>2 DEF ObserversInv, ObserversTypeOK, Arrive
<1>10. TasksInv'
  <2>1. \A t \in tasks' : t.step = "lookup" => ~ t.found
    BY <1>6 DEF ObserversInv, TasksInv, Go
  <2>2. \A t \in tasks' : GitLookup(t) => (t \in tasks /\ svc.gitLookup) \/ (t = Go("git", e, "lookup") /\ look)
    BY <1>6 DEF ObserversInv, TasksInv, Go, GitLookup
  <2>3. \A t \in tasks' : GitLookup(t) => svc'.gitLookup
    BY <1>8, <2>2
  <2>4. \A s, t \in tasks' : GitLookup(s) /\ GitLookup(t) => s = t
    BY <1>7, <2>2 DEF ObserversInv, TasksInv
  <2>5. \A t \in tasks' : t.kind = "state" => t \in tasks
    BY <1>6 DEF Go
  <2> QED
    BY <1>8, <2>1, <2>3, <2>4, <2>5 DEF ObserversInv, TasksInv, GitLookup
<1>11. KnownOriginIsStored'
  <2>1. tasks \subseteq tasks'
    BY <1>5
  <2> QED
    BY <1>8, <2>1 DEF ObserversInv, KnownOriginIsStored, Arrive
<1>12. Presence'
  <2> SUFFICES ASSUME dropped' = {} PROVE PresentInv' /\ ("touch" \notin overlap' => TimeInv')
    BY DEF Presence
  <2>1. PresentInv
    BY DEF ObserversInv, Presence, Arrive
  <2>2. events \in Nat /\ events' = events + 1 /\ sessionDoc' = sessionDoc /\ tasks \subseteq tasks'
    BY <1>5, ObserversAssumption DEF ObserversInv, ObserversTypeOK, Arrive
  <2>3. Go("touch", e, "store") \in tasks' /\ Go("touch", e, "store").kind = "touch"
    BY <1>5 DEF Go
  <2>4. svc.seen => sessionDoc.exists \/ \E t \in tasks : t.kind = "upsert"
    BY <2>1 DEF PresentInv
  <2>5. ~ svc.seen => Go("upsert", e, "lookup") \in tasks' /\ Go("upsert", e, "lookup").kind = "upsert"
    BY <1>5 DEF Go
  <2>6. PresentInv'
    BY <2>2, <2>4, <2>5 DEF PresentInv
  <2>7. ASSUME "touch" \notin overlap' PROVE TimeInv'
    <3>1. \A t \in tasks : t.kind # "touch"
      BY <2>7 DEF Arrive, Overtaken
    <3>2. \A t \in tasks' : t.kind = "touch" => t.event.n = events'
      BY <1>3, <1>6, <2>2, <3>1 DEF Go
    <3> QED
      BY <2>3, <3>2 DEF TimeInv
  <2> QED
    BY <2>6, <2>7
<1>13. ASSUME Orderly' PROVE OneObserver' /\ StateInv' /\ StateChainInv'
  <2>1. Orderly
    BY <1>13 DEF Orderly, ObservedInTurn, Arrive
  <2>2. OneObserver /\ StateInv /\ StateChainInv
    BY <2>1 DEF ObserversInv
  <2>3. \A t \in tasks : ~ Observes(t)
    BY <1>13 DEF Orderly, ObservedInTurn, Arrive, Overtaken, Observes
  <2>4. \A t \in tasks' : Observes(t) => t = Go("handle", e, "store")
    BY <1>6, <2>3 DEF Go, Observes
  <2>5. OneObserver'
    BY <2>4 DEF OneObserver, Observes
  <2>6. (\A t \in tasks' : t.kind # "state") /\ \A t \in tasks : t.kind # "state"
    BY <2>3, <2>4 DEF Go, Observes
  <2>7. StateInv'
    BY <1>8, <2>2, <2>6 DEF StateInv, HasSet, Arrive
  <2>8. StateChainInv'
    BY <2>2, <2>6 DEF StateChainInv, StatesChained, StateEnd, RecordingState, Arrive
  <2> QED
    BY <2>5, <2>7, <2>8
<1> QED
    BY <1>9, <1>10, <1>11, <1>12, <1>13 DEF ObserversInv

(* Handle: only an event that was stored is observed.                       *)
LEMMA InsertObservers ==
    ASSUME ObserversInv, NEW t \in tasks, Insert(t) PROVE ObserversInv'
<1>1. CASE TaskFails(t) /\ UNCHANGED last
    BY <1>1, FailsObservers DEF Insert
<1>2. CASE /\ tasks' = (tasks \ {t}) \cup (IF t.event.state = Nothing THEN {} ELSE {Go("state", t.event, "store")})
           /\ last' = IF t.event.state = Nothing THEN last ELSE t.event.state
           /\ UNCHANGED <<faults, dropped>>
  <2>1. PICK u : u = Go("state", t.event, "store")
    OBVIOUS
  <2>2. /\ t \in Task /\ t.kind = "handle"
        /\ UNCHANGED <<events, svc, sessionDoc, stateChanges, overlap, unmet>>
    BY DEF Insert, ObserversInv, ObserversTypeOK
  <2>3. /\ u \in Task /\ u.kind = "state" /\ u.step = "store" /\ u.event = t.event
    BY <2>1, <2>2, GoType DEF Go, Task
  <2>4. \A q \in tasks' : (q \in tasks /\ q # t) \/ (q = u /\ t.event.state # Nothing)
    BY <1>2, <2>1
  <2>5. t.event.state \in States \cup {Nothing}
    BY <2>2 DEF Task, Event
  <2>6. ObserversTypeOK'
    BY <1>2, <2>2, <2>3, <2>4, <2>5 DEF ObserversInv, ObserversTypeOK
  <2>7. TasksInv'
    <3>1. \A q \in tasks' : q.step = "lookup" \/ GitLookup(q) => q \in tasks
      BY <2>3, <2>4 DEF GitLookup
    <3>2. \A q \in tasks' : q.kind = "state" => \/ q \in tasks
                                                \/ q.event.state \in States /\ q.step = "store"
      BY <2>3, <2>4, <2>5
    <3> QED
      BY <2>2, <3>1, <3>2 DEF ObserversInv, TasksInv, GitLookup
  <2>8. KnownOriginIsStored'
    <3>1. \A q \in tasks : q.kind # "handle" => q \in tasks'
      BY <1>2, <2>2
    <3> QED
      BY <1>2, <2>2, <3>1 DEF ObserversInv, KnownOriginIsStored
  <2>9. ASSUME Orderly' PROVE OneObserver' /\ StateInv' /\ StateChainInv'
    <3>1. OneObserver /\ StateInv /\ StateChainInv
      BY <1>2, <2>2, <2>9 DEF Orderly, ObservedInTurn, ObserversInv
    <3>2. Observes(t) /\ Observes(u)
      BY <2>2, <2>3 DEF Observes
    <3>3. \A q \in tasks' : Observes(q) => q = u /\ t.event.state # Nothing
      BY <2>4, <3>1, <3>2 DEF OneObserver
    <3>4. OneObserver'
      BY <3>3 DEF OneObserver, Observes
    <3>5. \A q \in tasks : q.kind # "state"
      BY <2>2, <3>1, <3>2 DEF OneObserver, Observes
    <3>6. \A q \in tasks' : q.kind = "state" => q = u /\ t.event.state # Nothing
      BY <3>3 DEF Observes
    <3>7. StateInv'
      <4>1. \A q \in tasks' : q.kind = "state" => q.event.state = last'
        BY <1>2, <2>3, <3>6
      <4>2. \A q \in tasks' : ~ HasSet(q)
        BY <2>3, <3>6 DEF HasSet
      <4>3. ~ unmet' => sessionDoc'.live = last' \/ \E q \in tasks' : q.kind = "state" /\ q.step = "store"
        <5>1. CASE t.event.state = Nothing
          BY <1>2, <2>2, <3>1, <3>5, <5>1 DEF StateInv
        <5>2. CASE t.event.state # Nothing
          BY <1>2, <2>1, <2>3, <5>2
        <5> QED
          BY <5>1, <5>2
      <4>4. svc'.liveState # Nothing => svc'.liveState = sessionDoc'.live
        BY <2>2, <3>1, <3>5 DEF StateInv, HasSet
      <4> QED
        BY <4>1, <4>2, <4>3, <4>4 DEF StateInv, HasSet
    <3>8. StateChainInv'
      BY <2>2, <2>3, <3>1, <3>5, <3>6 DEF StateChainInv, StatesChained, StateEnd, RecordingState
    <3> QED
      BY <3>4, <3>7, <3>8
  <2>10. Presence'
    <3>1. \A q \in tasks : q.kind # "handle" => q \in tasks'
      BY <1>2, <2>2
    <3>2. \A q \in tasks' : q.kind = "touch" => q \in tasks
      BY <2>3, <2>4
    <3> QED
      BY <1>2, <2>2, <3>1, <3>2, PresenceKept DEF ObserversInv
  <2> QED
    BY <2>6, <2>7, <2>8, <2>9, <2>10 DEF ObserversInv
<1> QED
    BY <1>1, <1>2 DEF Insert

(* What a goroutine that does not observe the state leaves as it was: the   *)
(* state and the chain only depend on the goroutines that do.               *)
LEMMA StateKept ==
    ASSUME ObserversInv, Orderly, NEW t \in tasks, ~ Observes(t),
           \A q \in tasks' : Observes(q) => q \in tasks,
           \A q \in tasks : Observes(q) => q \in tasks',
           sessionDoc'.live = sessionDoc.live, svc'.liveState = svc.liveState,
           UNCHANGED <<stateChanges, last, unmet>>
    PROVE  StateInv' /\ StateChainInv'
<1>1. StateInv /\ StateChainInv
    BY DEF ObserversInv
<1>2. \A q : q.kind = "state" => Observes(q)
    BY DEF Observes
<1>3. StateInv'
    BY <1>1, <1>2 DEF StateInv, HasSet
<1>4. StateChainInv'
    BY <1>1, <1>2 DEF StateChainInv, StatesChained, StateEnd, RecordingState
<1> QED
    BY <1>3, <1>4

(* upsertSession, the git lookup.                                           *)
LEMMA UpsertLookupObservers ==
    ASSUME ObserversInv, NEW t \in tasks, UpsertLookup(t) PROVE ObserversInv'
<1>1. PICK found \in BOOLEAN :
         /\ tasks' = (tasks \ {t}) \cup {[t EXCEPT !.step = "store", !.found = found]}
         /\ svc' = [svc EXCEPT !.gitOriginFound = svc.gitOriginFound \/ found]
    BY DEF UpsertLookup
<1>2. PICK u : u = [t EXCEPT !.step = "store", !.found = found]
    OBVIOUS
<1>3. /\ t \in Task /\ t.kind = "upsert"
      /\ UNCHANGED <<events, sessionDoc, stateChanges, faults, overlap, last, unmet, dropped>>
    BY DEF UpsertLookup, ObserversInv, ObserversTypeOK
<1>4. /\ u \in Task /\ u.kind = "upsert" /\ u.step = "store" /\ u.event = t.event /\ u.found = found
    BY <1>2, <1>3 DEF Task
<1>5. tasks' = (tasks \ {t}) \cup {u}
    BY <1>1, <1>2
<1>6. /\ svc'.seen = svc.seen /\ svc'.gitLookup = svc.gitLookup /\ svc'.liveState = svc.liveState
      /\ svc'.gitOriginFound = (svc.gitOriginFound \/ found)
      /\ svc' \in [seen : BOOLEAN, gitOriginFound : BOOLEAN, gitLookup : BOOLEAN, liveState : States \cup {Nothing}]
    BY <1>1 DEF ObserversInv, ObserversTypeOK
<1>7. ObserversTypeOK'
    BY <1>3, <1>4, <1>5, <1>6 DEF ObserversInv, ObserversTypeOK
<1>8. TasksInv'
  <2>1. \A q \in tasks' : q.step = "lookup" \/ GitLookup(q) \/ q.kind = "state" => q \in tasks
    BY <1>4, <1>5 DEF GitLookup
  <2> QED
    BY <1>6, <2>1 DEF ObserversInv, TasksInv, GitLookup
<1>9. KnownOriginIsStored'
  <2>1. ~ t.found
    BY DEF ObserversInv, TasksInv, UpsertLookup
  <2> QED
    BY <1>3, <1>4, <1>5, <1>6, <2>1 DEF ObserversInv, KnownOriginIsStored
<1>10. ASSUME Orderly' PROVE OneObserver' /\ StateInv' /\ StateChainInv'
  <2>1. Orderly
    BY <1>3, <1>10 DEF Orderly, ObservedInTurn
  <2>2. OneObserver /\ StateInv /\ StateChainInv
    BY <2>1 DEF ObserversInv
  <2>3. /\ ~ Observes(t)
        /\ \A q \in tasks' : Observes(q) => q \in tasks
        /\ \A q \in tasks : Observes(q) => q \in tasks'
    BY <1>3, <1>4, <1>5 DEF Observes
  <2>4. StateInv' /\ StateChainInv'
    BY <1>3, <1>6, <2>1, <2>3, StateKept
  <2>5. OneObserver'
    BY <2>2, <2>3 DEF OneObserver, Observes
  <2> QED
    BY <2>4, <2>5
<1>11. Presence'
    BY <1>3, <1>4, <1>5, <1>6, PresenceKept DEF ObserversInv
<1> QED
    BY <1>7, <1>8, <1>9, <1>10, <1>11 DEF ObserversInv

(* A goroutine that ends leaves the others as they were.                    *)
LEMMA EndedTask ==
    ASSUME ObserversInv, NEW t \in tasks, tasks' = tasks \ {t},
           UNCHANGED <<events, svc>>
    PROVE  /\ TasksInv'
           /\ OneObserver => OneObserver'
<1>1. TasksInv'
    BY DEF ObserversInv, TasksInv, GitLookup
<1>2. OneObserver => OneObserver'
    BY DEF OneObserver, Observes
<1> QED
    BY <1>1, <1>2

(* upsertSession, the store call.                                           *)
LEMMA UpsertSessionObservers ==
    ASSUME ObserversInv, NEW t \in tasks, UpsertStore(t) PROVE ObserversInv'
<1>1. CASE TaskFails(t) /\ UNCHANGED sessionDoc
    BY <1>1, FailsObservers DEF UpsertStore
<1>2. CASE sessionDoc' = UpsertedSession(t.found) /\ tasks' = tasks \ {t} /\ UNCHANGED <<faults, dropped>>
  <2>1. /\ t \in Task /\ t.kind = "upsert"
        /\ UNCHANGED <<events, svc, stateChanges, overlap, last, unmet>>
    BY DEF UpsertStore, ObserversInv, ObserversTypeOK
  <2>2. /\ sessionDoc'.exists /\ sessionDoc'.lastSeen = events /\ sessionDoc'.live = sessionDoc.live
        /\ sessionDoc'.git = (sessionDoc.git \/ t.found)
        /\ sessionDoc' \in [exists : BOOLEAN, live : States \cup {Nothing}, lastSeen : Nat, git : BOOLEAN]
    <3>1. t.found \in BOOLEAN /\ events \in Nat
      BY <2>1, ObserversAssumption DEF Task, ObserversInv, ObserversTypeOK
    <3>2. PICK git \in BOOLEAN : git = (sessionDoc.git \/ t.found)
      BY <3>1 DEF ObserversInv, ObserversTypeOK
    <3>3. sessionDoc' = [sessionDoc EXCEPT !.exists = TRUE, !.lastSeen = events, !.git = git]
      BY <1>2, <3>2 DEF UpsertedSession
    <3> QED
      BY <3>1, <3>2, <3>3 DEF ObserversInv, ObserversTypeOK
  <2>3. ObserversTypeOK'
    BY <1>2, <2>1, <2>2 DEF ObserversInv, ObserversTypeOK
  <2>4. KnownOriginIsStored'
    BY <1>2, <2>1, <2>2 DEF ObserversInv, KnownOriginIsStored
  <2>5. ASSUME Orderly' PROVE OneObserver' /\ StateInv' /\ StateChainInv'
    <3>1. Orderly
      BY <1>2, <2>1, <2>5 DEF Orderly, ObservedInTurn
    <3>2. OneObserver'
      BY <1>2, <2>1, <3>1, EndedTask DEF ObserversInv
    <3>3. StateInv' /\ StateChainInv'
      BY <1>2, <2>1, <2>2, <3>1, StateKept DEF Observes
    <3> QED
      BY <3>2, <3>3
  <2>6. Presence'
    BY <1>2, <2>1, <2>2 DEF ObserversInv, Presence, PresentInv, TimeInv
  <2> QED
    BY <1>2, <2>1, <2>3, <2>4, <2>5, <2>6, EndedTask DEF ObserversInv
<1> QED
    BY <1>1, <1>2 DEF UpsertStore

(* fillGitInfo, the lookup: the only one under way ends with it.            *)
LEMMA FillLookupObservers ==
    ASSUME ObserversInv, NEW t \in tasks, FillLookup(t) PROVE ObserversInv'
<1>1. PICK found \in BOOLEAN :
         /\ tasks' = (tasks \ {t}) \cup (IF found THEN {[t EXCEPT !.step = "store"]} ELSE {})
         /\ svc' = [svc EXCEPT !.gitLookup = FALSE, !.gitOriginFound = svc.gitOriginFound \/ found]
    BY DEF FillLookup
<1>2. PICK u : u = [t EXCEPT !.step = "store"]
    OBVIOUS
<1>3. /\ t \in Task /\ t.kind = "git" /\ t.step = "lookup" /\ GitLookup(t)
      /\ UNCHANGED <<events, sessionDoc, stateChanges, faults, overlap, last, unmet, dropped>>
    BY DEF FillLookup, ObserversInv, ObserversTypeOK, GitLookup
<1>4. /\ u \in Task /\ u.kind = "git" /\ u.step = "store" /\ u.event = t.event
    BY <1>2, <1>3 DEF Task
<1>5. /\ \A q \in tasks' : (q \in tasks /\ q # t) \/ (q = u /\ found)
      /\ \A q \in tasks : q # t => q \in tasks'
      /\ found => u \in tasks'
    BY <1>1, <1>2
<1>6. /\ svc'.seen = svc.seen /\ svc'.liveState = svc.liveState
      /\ svc'.gitOriginFound = (svc.gitOriginFound \/ found)
      /\ svc' \in [seen : BOOLEAN, gitOriginFound : BOOLEAN, gitLookup : BOOLEAN, liveState : States \cup {Nothing}]
    BY <1>1 DEF ObserversInv, ObserversTypeOK
<1>7. ObserversTypeOK'
    BY <1>3, <1>4, <1>5, <1>6 DEF ObserversInv, ObserversTypeOK
<1>8. TasksInv'
  <2>1. \A q \in tasks' : ~ GitLookup(q)
    BY <1>3, <1>4, <1>5 DEF ObserversInv, TasksInv, GitLookup
  <2>2. \A q \in tasks' : q.step = "lookup" \/ q.kind = "state" => q \in tasks
    BY <1>4, <1>5
  <2> QED
    BY <1>6, <2>1, <2>2 DEF ObserversInv, TasksInv, GitLookup
<1>9. KnownOriginIsStored'
    BY <1>3, <1>4, <1>5, <1>6 DEF ObserversInv, KnownOriginIsStored
<1>10. ASSUME Orderly' PROVE OneObserver' /\ StateInv' /\ StateChainInv'
  <2>1. Orderly
    BY <1>3, <1>10 DEF Orderly, ObservedInTurn
  <2>2. OneObserver
    BY <2>1 DEF ObserversInv
  <2>3. /\ ~ Observes(t)
        /\ \A q \in tasks' : Observes(q) => q \in tasks
        /\ \A q \in tasks : Observes(q) => q \in tasks'
    BY <1>3, <1>4, <1>5 DEF Observes
  <2>4. StateInv' /\ StateChainInv'
    BY <1>3, <1>6, <2>1, <2>3, StateKept
  <2>5. OneObserver'
    BY <2>2, <2>3 DEF OneObserver, Observes
  <2> QED
    BY <2>4, <2>5
<1>11. Presence'
    BY <1>3, <1>4, <1>5, <1>6, PresenceKept DEF ObserversInv
<1> QED
    BY <1>7, <1>8, <1>9, <1>10, <1>11 DEF ObserversInv

(* SetGitInfoIfMissing.                                                     *)
LEMMA FillGitInfoObservers ==
    ASSUME ObserversInv, NEW t \in tasks, FillGitInfo(t) PROVE ObserversInv'
<1>1. CASE TaskFails(t) /\ UNCHANGED sessionDoc
    BY <1>1, FailsObservers DEF FillGitInfo
<1>2. CASE /\ sessionDoc' = [sessionDoc EXCEPT !.git = sessionDoc.git \/ sessionDoc.exists]
           /\ tasks' = tasks \ {t}
           /\ dropped' = IF sessionDoc.exists THEN dropped ELSE dropped \cup {"early"}
           /\ UNCHANGED faults
  <2>1. /\ t \in Task /\ t.kind = "git"
        /\ UNCHANGED <<events, svc, stateChanges, overlap, last, unmet>>
    BY DEF FillGitInfo, ObserversInv, ObserversTypeOK
  <2>2. /\ sessionDoc'.exists = sessionDoc.exists /\ sessionDoc'.lastSeen = sessionDoc.lastSeen
        /\ sessionDoc'.live = sessionDoc.live /\ sessionDoc'.git = (sessionDoc.git \/ sessionDoc.exists)
        /\ sessionDoc' \in [exists : BOOLEAN, live : States \cup {Nothing}, lastSeen : Nat, git : BOOLEAN]
    <3>1. PICK git \in BOOLEAN : git = (sessionDoc.git \/ sessionDoc.exists)
      BY DEF ObserversInv, ObserversTypeOK
    <3>2. sessionDoc' = [sessionDoc EXCEPT !.git = git]
      BY <1>2, <3>1
    <3> QED
      BY <3>1, <3>2 DEF ObserversInv, ObserversTypeOK
  <2>3. dropped' = {} => sessionDoc.exists /\ dropped = {}
    BY <1>2
  <2>4. ObserversTypeOK'
    BY <1>2, <2>1, <2>2 DEF ObserversInv, ObserversTypeOK
  <2>5. KnownOriginIsStored'
    BY <2>2, <2>3 DEF KnownOriginIsStored
  <2>6. ASSUME Orderly' PROVE OneObserver' /\ StateInv' /\ StateChainInv'
    <3>1. Orderly
      BY <2>1, <2>3, <2>6 DEF Orderly, ObservedInTurn
    <3>2. OneObserver'
      BY <1>2, <2>1, <3>1, EndedTask DEF ObserversInv
    <3>3. StateInv' /\ StateChainInv'
      BY <1>2, <2>1, <2>2, <3>1, StateKept DEF Observes
    <3> QED
      BY <3>2, <3>3
  <2>7. Presence'
    BY <1>2, <2>1, <2>2, <2>3, PresenceKept DEF ObserversInv
  <2> QED
    BY <1>2, <2>1, <2>4, <2>5, <2>6, <2>7, EndedTask DEF ObserversInv
<1> QED
    BY <1>1, <1>2 DEF FillGitInfo

(* TouchSession: while no touch was overtaken, the time it is given is that  *)
(* of the last event.                                                       *)
LEMMA TouchObservers ==
    ASSUME ObserversInv, NEW t \in tasks, Touch(t) PROVE ObserversInv'
<1>1. CASE TaskFails(t) /\ UNCHANGED sessionDoc
    BY <1>1, FailsObservers DEF Touch
<1>2. CASE /\ sessionDoc' = IF sessionDoc.exists THEN [sessionDoc EXCEPT !.lastSeen = t.event.n] ELSE sessionDoc
           /\ tasks' = tasks \ {t}
           /\ UNCHANGED <<faults, dropped>>
  <2>1. /\ t \in Task /\ t.kind = "touch"
        /\ UNCHANGED <<events, svc, stateChanges, overlap, last, unmet>>
    BY DEF Touch, ObserversInv, ObserversTypeOK
  <2>2. t.event.n \in Nat
    <3>1. t.event \in Event
      BY <2>1 DEF Task
    <3> QED
      BY <3>1, ObserversAssumption DEF Event
  <2>3. /\ sessionDoc'.exists = sessionDoc.exists
        /\ sessionDoc.exists => sessionDoc'.lastSeen = t.event.n
        /\ sessionDoc'.live = sessionDoc.live /\ sessionDoc'.git = sessionDoc.git
        /\ sessionDoc' \in [exists : BOOLEAN, live : States \cup {Nothing}, lastSeen : Nat, git : BOOLEAN]
    BY <1>2, <2>2 DEF ObserversInv, ObserversTypeOK
  <2>4. ObserversTypeOK'
    BY <1>2, <2>1, <2>3 DEF ObserversInv, ObserversTypeOK
  <2>5. KnownOriginIsStored'
    BY <1>2, <2>1, <2>3 DEF ObserversInv, KnownOriginIsStored
  <2>6. ASSUME Orderly' PROVE OneObserver' /\ StateInv' /\ StateChainInv'
    <3>1. Orderly
      BY <1>2, <2>1, <2>6 DEF Orderly, ObservedInTurn
    <3>2. OneObserver'
      BY <1>2, <2>1, <3>1, EndedTask DEF ObserversInv
    <3>3. StateInv' /\ StateChainInv'
      BY <1>2, <2>1, <2>3, <3>1, StateKept DEF Observes
    <3> QED
      BY <3>2, <3>3
  <2>7. ASSUME dropped' = {} PROVE PresentInv' /\ ("touch" \notin overlap' => TimeInv')
    <3>1. PresentInv /\ ("touch" \notin overlap => TimeInv)
      BY <1>2, <2>7 DEF ObserversInv, Presence
    <3>2. PresentInv'
      BY <1>2, <2>1, <2>3, <3>1 DEF PresentInv
    <3>3. ASSUME TimeInv PROVE TimeInv'
      <4>1. t.event.n = events
        BY <2>1, <3>3 DEF TimeInv
      <4>2. events > 0 => sessionDoc.exists \/ \E q \in tasks' : q.kind = "upsert"
        BY <1>2, <2>1, <3>1 DEF PresentInv
      <4> QED
        BY <1>2, <2>1, <2>3, <3>3, <4>1, <4>2 DEF TimeInv
    <3> QED
      BY <2>1, <3>1, <3>2, <3>3
  <2> QED
    BY <1>2, <2>1, <2>4, <2>5, <2>6, <2>7, EndedTask DEF ObserversInv, Presence
<1> QED
    BY <1>1, <1>2 DEF Touch

(* The observation goes from t to u: one goroutine observes still.          *)
LEMMA ObservationGoesOn ==
    ASSUME ObserversInv, NEW t \in tasks, NEW u \in Task, tasks' = (tasks \ {t}) \cup {u},
           t.kind = "state", u.kind = "state", u.event = t.event, u.step # "lookup",
           u.step = "record" => u.change \in StateChange,
           svc'.gitLookup = svc.gitLookup, svc'.seen = svc.seen, svc'.liveState = svc.liveState,
           svc'.gitOriginFound = svc.gitOriginFound, sessionDoc'.exists = sessionDoc.exists,
           sessionDoc'.git = sessionDoc.git, sessionDoc'.lastSeen = sessionDoc.lastSeen,
           UNCHANGED <<events, dropped, overlap>>
    PROVE  /\ TasksInv' /\ KnownOriginIsStored' /\ Presence'
           /\ Orderly' => /\ Orderly /\ OneObserver'
                          /\ \A q \in tasks' : q.kind = "state" => q = u
                          /\ \A q \in tasks : q.kind = "state" => q = t
<1>1. TasksInv'
  <2>1. t.event.state \in States
    BY DEF ObserversInv, TasksInv
  <2>2. \A q \in tasks' : q.step = "lookup" \/ GitLookup(q) => q \in tasks
    BY DEF GitLookup
  <2>3. \A q \in tasks' : q.kind = "state" => q \in tasks \/ q = u
    OBVIOUS
  <2> QED
    BY <2>1, <2>2, <2>3 DEF ObserversInv, TasksInv, GitLookup
<1>2. KnownOriginIsStored'
    BY DEF ObserversInv, KnownOriginIsStored
<1>3. ASSUME Orderly'
      PROVE  /\ Orderly /\ OneObserver'
             /\ \A q \in tasks' : q.kind = "state" => q = u
             /\ \A q \in tasks : q.kind = "state" => q = t
  <2>1. Orderly
    BY <1>3 DEF Orderly, ObservedInTurn
  <2>2. OneObserver
    BY <2>1 DEF ObserversInv
  <2>3. Observes(t) /\ Observes(u)
    BY DEF Observes
  <2>4. \A q \in tasks' : Observes(q) => q = u
    BY <2>2, <2>3 DEF OneObserver
  <2>5. OneObserver'
    BY <2>4 DEF OneObserver, Observes
  <2>6. \A q \in tasks : q.kind = "state" => q = t
    BY <2>2, <2>3 DEF OneObserver, Observes
  <2> QED
    BY <2>1, <2>4, <2>5, <2>6 DEF Observes
<1>4. Presence'
    BY PresenceKept DEF ObserversInv
<1> QED
    BY <1>1, <1>2, <1>3, <1>4

(* livestate.Observe, SetLiveState.                                         *)
LEMMA SetLiveStateObservers ==
    ASSUME ObserversInv, NEW t \in tasks, SetLiveState(t) PROVE ObserversInv'
<1>1. /\ t \in Task /\ t.kind = "state" /\ t.step = "store" /\ t.event.state \in States /\ t.event \in Event
      /\ UNCHANGED <<events, svc, stateChanges, overlap, last>>
  <2>1. t \in Task
    BY DEF ObserversInv, ObserversTypeOK
  <2> QED
    BY <2>1 DEF SetLiveState, ObserversInv, TasksInv, Task
<1>2. CASE TaskFails(t) /\ UNCHANGED <<sessionDoc, unmet>>
    BY <1>1, <1>2, FailsObservers
<1>3. CASE /\ ~ sessionDoc.exists
           /\ tasks' = tasks \ {t}
           /\ unmet' = TRUE
           /\ UNCHANGED <<sessionDoc, faults, dropped>>
  <2>3. ObserversTypeOK'
    BY <1>1, <1>3 DEF ObserversInv, ObserversTypeOK
  <2>4. KnownOriginIsStored'
    BY <1>1, <1>3 DEF ObserversInv, KnownOriginIsStored
  <2>5. ASSUME Orderly' PROVE OneObserver' /\ StateInv' /\ StateChainInv'
    <3>1. Orderly
      BY <1>1, <1>3, <2>5 DEF Orderly, ObservedInTurn
    <3>2. OneObserver /\ StateInv /\ StateChainInv
      BY <3>1 DEF ObserversInv
    <3>3. OneObserver'
      BY <1>1, <1>3, <3>2, EndedTask
    <3>4. \A q \in tasks : q.kind = "state" => q = t
      BY <1>1, <3>2 DEF OneObserver, Observes
    <3>5. StateInv'
      <4>1. \A q \in tasks' : q.kind # "state"
        BY <1>3, <3>4
      <4>2. unmet'
        BY <1>3
      <4>3. \A q \in tasks : ~ HasSet(q)
        BY <1>1, <3>4 DEF HasSet
      <4>4. svc'.liveState # Nothing => svc'.liveState = sessionDoc'.live
        BY <1>1, <1>3, <3>2, <4>3 DEF StateInv
      <4> QED
        BY <4>1, <4>2, <4>4 DEF StateInv, HasSet
    <3>6. StateChainInv'
      <4>1. \A q \in tasks : ~ RecordingState(q)
        BY <1>1, <3>4 DEF RecordingState
      <4> QED
        BY <1>1, <1>3, <3>2, <4>1 DEF StateChainInv, StatesChained, StateEnd, RecordingState
    <3> QED
      BY <3>3, <3>5, <3>6
  <2>6. Presence'
    BY <1>1, <1>3, PresenceKept DEF ObserversInv
  <2> QED
    BY <1>1, <1>3, <2>3, <2>4, <2>5, <2>6, EndedTask DEF ObserversInv
<1>4. CASE /\ sessionDoc.exists /\ ~ Differs(t.event.state)
           /\ tasks' = (tasks \ {t}) \cup {[t EXCEPT !.step = "remember"]}
           /\ unmet' = FALSE
           /\ UNCHANGED <<sessionDoc, faults, dropped>>
  <2>1. PICK u : u = [t EXCEPT !.step = "remember"]
    OBVIOUS
  <2>2. u \in Task /\ u.kind = "state" /\ u.step = "remember" /\ u.event = t.event
    BY <1>1, <2>1 DEF Task
  <2>3. tasks' = (tasks \ {t}) \cup {u}
    BY <1>4, <2>1
  <2>4. ObserversTypeOK'
    BY <1>1, <1>4, <2>2, <2>3 DEF ObserversInv, ObserversTypeOK
  <2>5. /\ TasksInv' /\ KnownOriginIsStored' /\ Presence'
        /\ Orderly' => /\ Orderly /\ OneObserver'
                       /\ \A q \in tasks' : q.kind = "state" => q = u
                       /\ \A q \in tasks : q.kind = "state" => q = t
    BY <1>1, <1>4, <2>2, <2>3, ObservationGoesOn
  <2>6. ASSUME Orderly' PROVE StateInv' /\ StateChainInv'
    <3>1. StateInv /\ StateChainInv
      BY <2>5, <2>6 DEF ObserversInv
    <3>2. sessionDoc.live = t.event.state
      BY <1>4 DEF Differs
    <3>3. StateInv'
      BY <1>1, <1>4, <2>2, <2>3, <2>5, <2>6, <3>1, <3>2 DEF StateInv, HasSet
    <3>4. StateChainInv'
      <4>1. \A q \in tasks' : ~ RecordingState(q)
        BY <2>2, <2>5, <2>6 DEF RecordingState
      <4>2. \A q \in tasks : ~ RecordingState(q)
        BY <1>1, <2>5, <2>6 DEF RecordingState
      <4> QED
        BY <1>1, <1>4, <3>1, <4>1, <4>2 DEF StateChainInv, StatesChained, StateEnd, RecordingState
    <3> QED
      BY <3>3, <3>4
  <2> QED
    BY <2>4, <2>5, <2>6 DEF ObserversInv
<1>5. CASE /\ sessionDoc.exists /\ Differs(t.event.state)
           /\ sessionDoc' = [sessionDoc EXCEPT !.live = t.event.state]
           /\ tasks' = (tasks \ {t}) \cup {[t EXCEPT !.step = "record", !.change = [from |-> PreviousState, to |-> t.event.state]]}
           /\ unmet' = FALSE
           /\ UNCHANGED <<faults, dropped>>
  <2>1. PICK c : c = [from |-> sessionDoc.live, to |-> t.event.state]
    OBVIOUS
  <2>2. PICK u : u = [t EXCEPT !.step = "record", !.change = c]
    OBVIOUS
  <2>3. c \in StateChange /\ c.from = sessionDoc.live /\ c.to = t.event.state
    BY <1>1, <2>1 DEF StateChange, ObserversInv, ObserversTypeOK
  <2>4. u \in Task /\ u.kind = "state" /\ u.step = "record" /\ u.event = t.event /\ u.change = c
    BY <1>1, <2>2, <2>3 DEF Task
  <2>5. tasks' = (tasks \ {t}) \cup {u}
    BY <1>5, <2>1, <2>2 DEF PreviousState
  <2>6. /\ sessionDoc'.live = t.event.state /\ sessionDoc'.exists = sessionDoc.exists
        /\ sessionDoc'.git = sessionDoc.git /\ sessionDoc'.lastSeen = sessionDoc.lastSeen
        /\ sessionDoc' \in [exists : BOOLEAN, live : States \cup {Nothing}, lastSeen : Nat, git : BOOLEAN]
    BY <1>1, <1>5 DEF ObserversInv, ObserversTypeOK
  <2>7. ObserversTypeOK'
    BY <1>1, <1>5, <2>4, <2>5, <2>6 DEF ObserversInv, ObserversTypeOK
  <2>8. /\ TasksInv' /\ KnownOriginIsStored' /\ Presence'
        /\ Orderly' => /\ Orderly /\ OneObserver'
                       /\ \A q \in tasks' : q.kind = "state" => q = u
                       /\ \A q \in tasks : q.kind = "state" => q = t
    BY <1>1, <1>5, <2>3, <2>4, <2>5, <2>6, ObservationGoesOn
  <2>9. ASSUME Orderly' PROVE StateInv' /\ StateChainInv'
    <3>1. StateInv /\ StateChainInv
      BY <2>8, <2>9 DEF ObserversInv
    <3>2. t.event.state = last /\ u \in tasks'
      BY <1>1, <2>5, <3>1 DEF StateInv
    <3>3. StateInv'
      <4>1. HasSet(u)
        BY <2>4 DEF HasSet
      <4>2. \A q \in tasks' : q.kind = "state" => q.event.state = last' /\ sessionDoc'.live = q.event.state
        BY <1>1, <2>4, <2>6, <2>8, <2>9, <3>2
      <4> QED
        BY <1>1, <2>6, <3>2, <4>1, <4>2 DEF StateInv, HasSet
    <3>4. StateChainInv'
      <4>1. \A q \in tasks : ~ RecordingState(q)
        BY <1>1, <2>8, <2>9 DEF RecordingState
      <4>2. StateEnd = sessionDoc.live /\ StatesChained
        BY <3>1, <4>1 DEF StateChainInv
      <4>3. StateEnd' = sessionDoc.live /\ StatesChained'
        BY <1>1, <4>2 DEF StateEnd, StatesChained
      <4>4. \A q \in tasks' : RecordingState(q) => q = u
        BY <2>8, <2>9 DEF RecordingState
      <4>5. RecordingState(u)
        BY <2>4 DEF RecordingState
      <4> QED
        BY <2>3, <2>4, <2>6, <3>2, <4>3, <4>4, <4>5 DEF StateChainInv, RecordingState
    <3> QED
      BY <3>3, <3>4
  <2> QED
    BY <2>7, <2>8, <2>9 DEF ObserversInv
<1> QED
    BY <1>2, <1>3, <1>4, <1>5 DEF SetLiveState

(* A change that starts where the chain ends is its new end.                *)
LEMMA StateChainGrows ==
    ASSUME stateChanges \in Seq(StateChange), NEW c \in StateChange, stateChanges' = Append(stateChanges, c),
           StatesChained, c.from = StateEnd
    PROVE  stateChanges' \in Seq(StateChange) /\ StatesChained' /\ StateEnd' = c.to
<1>1. PICK n \in Nat : n = Len(stateChanges)
    OBVIOUS
<1>2. /\ stateChanges' \in Seq(StateChange) /\ Len(stateChanges') = n + 1 /\ stateChanges'[n + 1] = c
      /\ \A k \in 1 .. n : stateChanges'[k] = stateChanges[k]
    BY <1>1
<1>3. StateEnd' = c.to
    BY <1>2 DEF StateEnd
<1>4. ASSUME NEW k \in Nat, 1 <= k, k <= n PROVE stateChanges'[k].to = stateChanges'[k + 1].from
  <2>1. CASE k < n
    BY <1>1, <1>2, <1>4, <2>1 DEF StatesChained
  <2>2. CASE k = n
    <3>1. stateChanges # <<>>
      BY <1>1, <1>4, <2>2
    <3>2. c.from = stateChanges[n].to
      BY <1>1, <3>1 DEF StateEnd
    <3>3. n \in 1 .. n
      BY <1>4, <2>2
    <3>4. stateChanges'[n] = stateChanges[n] /\ stateChanges'[n + 1] = c
      BY <1>2, <3>3
    <3> QED
      BY <2>2, <3>2, <3>4
  <2>3. k < n \/ k = n
    BY <1>4
  <2> QED
    BY <2>1, <2>2, <2>3, Zenon
<1>5. StatesChained'
    BY <1>1, <1>2, <1>4 DEF StatesChained
<1> QED
    BY <1>2, <1>3, <1>5

(* livestate.Observe, the event that records the change.                    *)
LEMMA RecordChangeObservers ==
    ASSUME ObserversInv, NEW t \in tasks, RecordStateChange(t) PROVE ObserversInv'
<1>1. /\ t \in Task /\ t.kind = "state" /\ t.step = "record" /\ t.change \in StateChange
      /\ UNCHANGED <<events, svc, sessionDoc, overlap, last, unmet>>
    BY DEF RecordStateChange, ObserversInv, ObserversTypeOK, TasksInv
<1>2. CASE TaskFails(t) /\ UNCHANGED stateChanges
    BY <1>1, <1>2, FailsObservers
<1>3. CASE /\ stateChanges' = Append(stateChanges, t.change)
           /\ tasks' = (tasks \ {t}) \cup {[t EXCEPT !.step = "remember", !.change = Nothing]}
           /\ UNCHANGED <<faults, dropped>>
  <2>1. PICK u : u = [t EXCEPT !.step = "remember", !.change = Nothing]
    OBVIOUS
  <2>2. u \in Task /\ u.kind = "state" /\ u.step = "remember" /\ u.event = t.event
    BY <1>1, <2>1 DEF Task
  <2>3. tasks' = (tasks \ {t}) \cup {u}
    BY <1>3, <2>1
  <2>4. stateChanges' \in Seq(StateChange)
    BY <1>1, <1>3 DEF ObserversInv, ObserversTypeOK
  <2>5. ObserversTypeOK'
    BY <1>1, <1>3, <2>2, <2>3, <2>4 DEF ObserversInv, ObserversTypeOK
  <2>6. /\ TasksInv' /\ KnownOriginIsStored' /\ Presence'
        /\ Orderly' => /\ Orderly /\ OneObserver'
                       /\ \A q \in tasks' : q.kind = "state" => q = u
                       /\ \A q \in tasks : q.kind = "state" => q = t
    BY <1>1, <1>3, <2>2, <2>3, ObservationGoesOn
  <2>7. ASSUME Orderly' PROVE StateInv' /\ StateChainInv'
    <3>1. StateInv /\ StateChainInv
      BY <2>6, <2>7 DEF ObserversInv
    <3>2. t.event.state = last /\ sessionDoc.live = t.event.state /\ u \in tasks' /\ HasSet(u)
      BY <1>1, <2>2, <2>3, <3>1 DEF StateInv, HasSet
    <3>3. StateInv'
      BY <1>1, <2>2, <2>6, <2>7, <3>2 DEF StateInv, HasSet
    <3>4. StateChainInv'
      <4>1. t.change.from = StateEnd /\ t.change.to = sessionDoc.live /\ StatesChained
        BY <1>1, <3>1 DEF StateChainInv, RecordingState
      <4>2. stateChanges \in Seq(StateChange)
        BY DEF ObserversInv, ObserversTypeOK
      <4>3. StatesChained' /\ StateEnd' = sessionDoc.live
        BY <1>1, <1>3, <4>1, <4>2, StateChainGrows
      <4>4. \A q \in tasks' : ~ RecordingState(q)
        BY <2>2, <2>6, <2>7 DEF RecordingState
      <4> QED
        BY <1>1, <4>3, <4>4 DEF StateChainInv, RecordingState
    <3> QED
      BY <3>3, <3>4
  <2> QED
    BY <2>5, <2>6, <2>7 DEF ObserversInv
<1> QED
    BY <1>2, <1>3 DEF RecordStateChange

(* observeState: what the service remembers is what the store holds.        *)
LEMMA RememberObservers ==
    ASSUME ObserversInv, NEW t \in tasks, Remember(t) PROVE ObserversInv'
<1>1. /\ t \in Task /\ t.kind = "state" /\ t.step = "remember" /\ t.event.state \in States
      /\ tasks' = tasks \ {t}
      /\ UNCHANGED <<events, sessionDoc, stateChanges, faults, overlap, last, unmet, dropped>>
    BY DEF Remember, ObserversInv, ObserversTypeOK, TasksInv
<1>2. /\ svc'.seen = svc.seen /\ svc'.gitLookup = svc.gitLookup /\ svc'.gitOriginFound = svc.gitOriginFound
      /\ svc'.liveState = IF svc.seen THEN t.event.state ELSE svc.liveState
      /\ svc' \in [seen : BOOLEAN, gitOriginFound : BOOLEAN, gitLookup : BOOLEAN, liveState : States \cup {Nothing}]
    BY <1>1 DEF Remember, ObserversInv, ObserversTypeOK
<1>3. ObserversTypeOK'
    BY <1>1, <1>2 DEF ObserversInv, ObserversTypeOK
<1>4. TasksInv'
    BY <1>1, <1>2 DEF ObserversInv, TasksInv, GitLookup
<1>5. KnownOriginIsStored'
    BY <1>1, <1>2 DEF ObserversInv, KnownOriginIsStored
<1>6. ASSUME Orderly' PROVE OneObserver' /\ StateInv' /\ StateChainInv'
  <2>1. Orderly
    BY <1>1, <1>6 DEF Orderly, ObservedInTurn
  <2>2. OneObserver /\ StateInv /\ StateChainInv
    BY <2>1 DEF ObserversInv
  <2>3. OneObserver'
    BY <1>1, <2>2 DEF OneObserver, Observes
  <2>4. \A q \in tasks : q.kind = "state" => q = t
    BY <1>1, <2>2 DEF OneObserver, Observes
  <2>5. \A q \in tasks' : q.kind # "state"
    BY <1>1, <2>4
  <2>6. StateInv'
    <3>1. sessionDoc.live = t.event.state /\ t.event.state = last
      BY <1>1, <2>2 DEF StateInv, HasSet
    <3>2. svc'.liveState # Nothing => svc'.liveState = sessionDoc'.live
      BY <1>1, <1>2, <3>1 DEF ObserversInv, TasksInv
    <3> QED
      BY <1>1, <2>5, <3>1, <3>2 DEF StateInv, HasSet
  <2>7. StateChainInv'
    <3>1. \A q \in tasks : ~ RecordingState(q)
      BY <1>1, <2>4 DEF RecordingState
    <3> QED
      BY <1>1, <2>2, <2>5, <3>1 DEF StateChainInv, StatesChained, StateEnd, RecordingState
  <2> QED
    BY <2>3, <2>6, <2>7
<1>7. Presence'
    BY <1>1, <1>2, PresenceKept DEF ObserversInv
<1> QED
    BY <1>3, <1>4, <1>5, <1>6, <1>7 DEF ObserversInv

(* A restart that cuts no goroutine off keeps the order.                    *)
LEMMA RestartObservers ==
    ASSUME ObserversInv, RestartService PROVE ObserversInv'
<1>1. /\ tasks' = {} /\ svc' = NewService
      /\ UNCHANGED <<events, sessionDoc, stateChanges, overlap, last, unmet>>
      /\ dropped' = {} => tasks = {} /\ dropped = {}
    BY DEF RestartService
<1>2. ObserversTypeOK'
  <2>1. svc' \in [seen : BOOLEAN, gitOriginFound : BOOLEAN, gitLookup : BOOLEAN, liveState : States \cup {Nothing}]
    BY <1>1 DEF NewService
  <2>2. faults' \in 0 .. MaxFaults /\ dropped' \subseteq {"error", "restart", "early"}
    BY ObserversAssumption DEF RestartService, ObserversInv, ObserversTypeOK
  <2> QED
    BY <1>1, <2>1, <2>2 DEF ObserversInv, ObserversTypeOK
<1>3. TasksInv' /\ KnownOriginIsStored'
    BY <1>1 DEF TasksInv, KnownOriginIsStored, NewService
<1>4. ASSUME Orderly' PROVE OneObserver' /\ StateInv' /\ StateChainInv'
  <2>1. Orderly /\ tasks = {}
    BY <1>1, <1>4 DEF Orderly, ObservedInTurn
  <2>2. StateInv /\ StateChainInv
    BY <2>1 DEF ObserversInv
  <2>3. OneObserver'
    BY <1>1 DEF OneObserver
  <2>4. StateInv'
    BY <1>1, <2>1, <2>2 DEF StateInv, NewService
  <2>5. StateChainInv'
    BY <1>1, <2>1, <2>2 DEF StateChainInv, StatesChained, StateEnd
  <2> QED
    BY <2>3, <2>4, <2>5
<1>5. Presence'
    BY <1>1 DEF ObserversInv, Presence, PresentInv, TimeInv, NewService
<1> QED
    BY <1>2, <1>3, <1>4, <1>5 DEF ObserversInv

LEMMA StutterObservers ==
    ASSUME ObserversInv, UNCHANGED observersVars PROVE ObserversInv'
<1>1. ObserversTypeOK' /\ TasksInv' /\ KnownOriginIsStored'
    BY DEF observersVars, ObserversInv, ObserversTypeOK, TasksInv, KnownOriginIsStored, GitLookup
<1>2. ASSUME Orderly' PROVE OneObserver' /\ StateInv' /\ StateChainInv'
  <2>1. OneObserver /\ StateInv /\ StateChainInv
    BY <1>2 DEF observersVars, Orderly, ObservedInTurn, ObserversInv
  <2>2. OneObserver' /\ StateInv'
    BY <2>1 DEF observersVars, OneObserver, StateInv, Observes, HasSet
  <2>3. StateChainInv'
    BY <2>1 DEF observersVars, StateChainInv, StatesChained, StateEnd, RecordingState
  <2> QED
    BY <2>2, <2>3
<1>3. Presence'
    BY DEF observersVars, ObserversInv, Presence, PresentInv, TimeInv
<1> QED
    BY <1>1, <1>2, <1>3 DEF ObserversInv

-----------------------------------------------------------------------------
(* In an orderly session one goroutine at most observes the state, and what *)
(* it has set, recorded and remembered fits together at each of its steps.  *)
THEOREM ObserversInvariance == ObserversSpec => []ObserversInv
<1>1. ObserversInit => ObserversInv
    BY InitObservers
<1>2. ObserversInv /\ [ObserversNext]_observersVars => ObserversInv'
  <2> SUFFICES ASSUME ObserversInv, [ObserversNext]_observersVars PROVE ObserversInv'
    OBVIOUS
  <2>1. CASE Arrive
    BY <2>1, ArriveObservers
  <2>2. CASE RestartService
    BY <2>2, RestartObservers
  <2>3. ASSUME NEW t \in tasks, Step(t) PROVE ObserversInv'
    BY <2>3, InsertObservers, UpsertLookupObservers, UpsertSessionObservers, FillLookupObservers,
       FillGitInfoObservers, TouchObservers, SetLiveStateObservers, RecordChangeObservers,
       RememberObservers DEF Step
  <2>4. CASE UNCHANGED observersVars
    BY <2>4, StutterObservers
  <2> QED
    BY <2>1, <2>2, <2>3, <2>4 DEF ObserversNext
<1> QED
    BY <1>1, <1>2, PTL DEF ObserversSpec

(* Type correctness of the observers.                                       *)
THEOREM ObserversTypes == ObserversSpec => []ObserversTypeOK
<1>1. ObserversInv => ObserversTypeOK
    BY DEF ObserversInv
<1> QED
    BY <1>1, ObserversInvariance, PTL

(* track: one late git lookup at a time, also across events that overlap.   *)
THEOREM OneLookupAtATime == ObserversSpec => [](\A s, t \in tasks : GitLookup(s) /\ GitLookup(t) => s = t)
<1>1. ObserversInv => \A s, t \in tasks : GitLookup(s) /\ GitLookup(t) => s = t
    BY DEF ObserversInv, TasksInv
<1> QED
    BY <1>1, ObserversInvariance, PTL

(* A quiet session shows the time of its last event, if no touch was        *)
(* overtaken, and the state, if no observation was: an observation that did *)
(* not find the session is made up for by the next one.                     *)
THEOREM QuietIsCurrent == ObserversSpec => []QuietSessionIsCurrent
<1>1. ObserversInv => QuietSessionIsCurrent
  <2> SUFFICES ASSUME ObserversInv, Quiet, dropped = {}, events > 0
               PROVE  /\ sessionDoc.exists
                      /\ "touch" \notin overlap => sessionDoc.lastSeen = events
                      /\ ObservedInTurn => /\ ~ unmet => sessionDoc.live = last
                                           /\ svc.liveState # Nothing => svc.liveState = sessionDoc.live
    BY DEF QuietSessionIsCurrent
  <2>1. tasks = {} /\ PresentInv /\ ("touch" \notin overlap => TimeInv)
    BY DEF ObserversInv, Presence, Quiet
  <2>2. ObservedInTurn => StateInv
    BY DEF ObserversInv, Orderly
  <2> QED
    BY <2>1, <2>2 DEF StateInv, PresentInv, TimeInv
<1> QED
    BY <1>1, ObserversInvariance, PTL

(* The recorded changes of the live state form a chain to the stored state. *)
THEOREM ChangesChain == ObserversSpec => []ChangesLeadToState
<1>1. ObserversInv => ChangesLeadToState
  <2> SUFFICES ASSUME ObserversInv, ObservedInTurn, dropped = {}
               PROVE  StatesChained /\ (Quiet => sessionDoc.live = StateEnd)
    BY DEF ChangesLeadToState, StatesChained, StateEnd
  <2> QED
    BY DEF ObserversInv, Orderly, StateChainInv, Quiet
<1> QED
    BY <1>1, ObserversInvariance, PTL

(* A git origin the service takes for known is stored or on its way.        *)
THEOREM OriginStored == ObserversSpec => []KnownOriginIsStored
<1>1. ObserversInv => KnownOriginIsStored
    BY DEF ObserversInv
<1> QED
    BY <1>1, ObserversInvariance, PTL

-----------------------------------------------------------------------------
(* The transcript.                                                          *)
(* The lines a writer is at, or has read, are lines of the file: the tailer *)
(* takes complete ones, a backfill also the one that is being written.      *)
Place(w, r) ==
    /\ r.upto <= MaxLines
    /\ r.step = "lines" => r.at = 1
    /\ r.step \in {"model", "event", "check"} => r.at \in 1 .. r.upto
    /\ r.step = "event" => r.event \in Change
    /\ w = "tail" => /\ r.upto <= written /\ ~ r.torn /\ r.step \notin {"lines", "check"}
                     /\ r.step = "title" => r.at \in 1 .. r.upto

PlaceInv ==
    /\ partial => written < MaxLines
    /\ \A w \in Writers : Place(w, writer[w])

(* Every text is kept under the number of its line.                         *)
NumberInv ==
    /\ \A i \in Lines : docs[i] # None =>
         /\ docs[i].line.n = i
         /\ docs[i].mark = "done" => docs[i].of \in Text /\ docs[i].of.n = i
    /\ \A p \in pass : docs[p.seq] # None /\ p.line.n = p.seq

(* Where the recorded changes lead.                                         *)
End == IF changes = <<>> THEN None ELSE changes[Len(changes)].to

Chained == \A k \in 1 .. Len(changes) - 1 : changes[k].to = changes[k + 1].from

Recording(w) == writer[w].step = "event"

(* One writer has a change to record, and it goes from the end of the chain *)
(* to the model of the session.                                             *)
ChainInv ==
    /\ Chained
    /\ \A v, w \in Writers : Recording(v) /\ Recording(w) => v = w
    /\ \A w \in Writers : Recording(w) => writer[w].event.from = End /\ writer[w].event.to = session.model
    /\ (\E w \in Writers : Recording(w)) \/ session.model = End

MirrorInv ==
    /\ TypeOK /\ PlaceInv /\ NumberInv /\ DeliveredIsStored
    /\ ~ unrecorded => ChainInv

-----------------------------------------------------------------------------
LEMMA FreshType == Fresh \in Writer
<1>1. None \in Models
    BY DEF Models
<1> QED
    BY <1>1 DEF Fresh, Writer

(* Nothing is stored of an empty file.                                      *)
LEMMA InitMirror == Init => MirrorInv
<1> SUFFICES ASSUME Init PROVE MirrorInv
    OBVIOUS
<1>1. TypeOK
  <2>1. session \in [exists : BOOLEAN, model : Models, title : {"ai", "custom", None}]
    BY DEF Init, Models
  <2>2. writer \in [Writers -> Writer]
    BY FreshType DEF Init
  <2>3. /\ written \in 0 .. MaxLines /\ runs \in 0 .. MaxRuns
        /\ restarts \in 0 .. MaxRestarts /\ errors \in 0 .. MaxErrors
    BY MirrorAssumption DEF Init
  <2>4. docs \in [Lines -> Doc \cup {None}] /\ changes \in Seq(Change)
    BY DEF Init
  <2> QED
    BY <2>1, <2>2, <2>3, <2>4 DEF Init, TypeOK
<1>2. PlaceInv
    BY MirrorAssumption DEF Init, PlaceInv, Place, Fresh
<1>3. NumberInv
    BY DEF Init, NumberInv
<1>4. DeliveredIsStored
    BY DEF Init, DeliveredIsStored, Fresh, Lines, Writers
<1>5. ChainInv
  <2>1. Chained /\ End = None
    BY DEF Init, Chained, End
  <2>2. \A w \in Writers : ~ Recording(w)
    BY DEF Init, Recording, Fresh
  <2> QED
    BY <2>1, <2>2 DEF Init, ChainInv
<1> QED
    BY <1>1, <1>2, <1>3, <1>4, <1>5 DEF MirrorInv

(* A writer moves on to r.                                                  *)
LEMMA WriterMoves ==
    ASSUME MirrorInv, NEW w \in Writers, NEW r \in Writer, writer' = [writer EXCEPT ![w] = r],
           UNCHANGED fileVars, Place(w, r)
    PROVE  /\ writer' \in [Writers -> Writer] /\ PlaceInv'
           /\ writer'[w] = r /\ \A v \in Writers : v # w => writer'[v] = writer[v]
<1>1. /\ writer' \in [Writers -> Writer]
      /\ writer'[w] = r /\ \A v \in Writers : v # w => writer'[v] = writer[v]
    BY DEF MirrorInv, TypeOK
<1>2. \A v \in Writers : Place(v, writer'[v])
    BY <1>1 DEF MirrorInv, PlaceInv
<1>3. PlaceInv'
    BY <1>2 DEF MirrorInv, PlaceInv, Place, fileVars
<1> QED
    BY <1>1, <1>3

(* What is delivered stays stored when no line is stored or delivered.      *)
LEMMA DeliveredKept ==
    ASSUME DeliveredIsStored, UNCHANGED <<docs, missed, torn>>,
           writer'["tail"].upto = writer["tail"].upto
    PROVE  DeliveredIsStored'
BY DEF DeliveredIsStored

(* The chain only depends on the model, the changes and who records one.    *)
LEMMA ChainKept ==
    ASSUME ChainInv, changes' = changes, session'.model = session.model,
           \A w \in Writers : writer[w].step = "event" <=> writer'[w].step = "event",
           \A w \in Writers : writer[w].step = "event" => writer'[w].event = writer[w].event
    PROVE  ChainInv'
<1>1. Chained' /\ End' = End /\ Chained
    BY DEF ChainInv, Chained, End
<1> QED
    BY <1>1 DEF ChainInv, Recording

(* The line after the one at hand, or the title.                            *)
LEMMA NextLineGood ==
    ASSUME NEW w \in Writers, NEW r \in Writer, Place(w, r), r.step \in {"model", "event"}
    PROVE  /\ NextLine(r) \in Writer /\ Place(w, NextLine(r))
           /\ NextLine(r).upto = r.upto /\ NextLine(r).step # "event"
<1>1. r.at \in Nat /\ r.upto \in Nat /\ 1 <= r.at /\ r.at <= r.upto
    BY DEF Writer, Place
<1>2. CASE r.at < r.upto
  <2>1. PICK at \in Nat : at = r.at + 1
    BY <1>1
  <2>2. NextLine(r) = [r EXCEPT !.step = "model", !.at = at]
    BY <1>2, <2>1 DEF NextLine
  <2>3. NextLine(r) \in Writer
    BY <2>1, <2>2 DEF Writer
  <2>4. /\ NextLine(r).upto = r.upto /\ NextLine(r).step = "model" /\ NextLine(r).at = at
        /\ NextLine(r).torn = r.torn
    BY <2>1, <2>2 DEF Writer
  <2>5. at \in 1 .. r.upto
    BY <1>1, <1>2, <2>1
  <2> QED
    BY <2>3, <2>4, <2>5 DEF Place
<1>3. CASE ~ r.at < r.upto
  <2>1. NextLine(r) = [r EXCEPT !.step = "title"]
    BY <1>3 DEF NextLine
  <2> QED
    BY <1>1, <2>1 DEF Writer, Place
<1> QED
    BY <1>2, <1>3

(* Claude Code writes, and the first-sight upsert of the session.           *)
LEMMA FileMirror ==
    ASSUME MirrorInv, BeginLine \/ EndLine \/ UpsertSession PROVE MirrorInv'
<1>1. /\ UNCHANGED <<docs, changes, writer, pass, faultVars, history>>
      /\ session'.model = session.model
      /\ session' \in [exists : BOOLEAN, model : Models, title : {"ai", "custom", None}]
      /\ written' \in 0 .. MaxLines /\ partial' \in BOOLEAN /\ written <= written'
      /\ partial' => written' < MaxLines
  <2> written \in 0 .. MaxLines /\ MaxLines \in Nat
    BY MirrorAssumption DEF MirrorInv, TypeOK
  <2>1. CASE BeginLine
    BY <2>1 DEF BeginLine, MirrorInv, TypeOK
  <2>2. CASE EndLine
    <3>1. written < MaxLines /\ written' = written + 1 /\ ~ partial'
      BY <2>2 DEF EndLine, MirrorInv, PlaceInv
    <3>2. written' \in 0 .. MaxLines /\ written <= written'
      BY <3>1
    <3>5. partial' \in BOOLEAN
      BY <2>2 DEF EndLine
    <3>3. UNCHANGED <<docs, session, changes, writer, pass, faultVars, history>>
      BY <2>2 DEF EndLine
    <3>4. session \in [exists : BOOLEAN, model : Models, title : {"ai", "custom", None}]
      BY DEF MirrorInv, TypeOK
    <3> QED
      BY <3>1, <3>2, <3>3, <3>4, <3>5
  <2>3. CASE UpsertSession
    <3>1. /\ session'.model = session.model
          /\ session' \in [exists : BOOLEAN, model : Models, title : {"ai", "custom", None}]
      BY <2>3 DEF UpsertSession, MirrorInv, TypeOK
    <3> QED
      BY <2>3, <3>1 DEF UpsertSession, MirrorInv, TypeOK, PlaceInv, fileVars
  <2> QED
    BY <2>1, <2>2, <2>3
<1>2. TypeOK'
    BY <1>1 DEF MirrorInv, TypeOK, faultVars, history
<1>3. PlaceInv'
  <2>1. writer \in [Writers -> Writer] /\ written \in Nat /\ written' \in Nat
    BY <1>1, MirrorAssumption DEF MirrorInv, TypeOK
  <2> QED
    BY <1>1, <2>1 DEF MirrorInv, PlaceInv, Place, Writer, Writers
<1>4. NumberInv' /\ DeliveredIsStored'
    BY <1>1 DEF MirrorInv, NumberInv, DeliveredIsStored, history
<1>5. ~ unrecorded' => ChainInv'
    BY <1>1, ChainKept DEF MirrorInv, history
<1> QED
    BY <1>2, <1>3, <1>4, <1>5 DEF MirrorInv

(* The document that UpsertTranscriptLines leaves under number i.           *)
LEMMA UpsertedDoc ==
    ASSUME MirrorInv, NEW i \in Lines, NEW whole \in BOOLEAN
    PROVE  LET d == Upserted(i, [n |-> i, whole |-> whole])
           IN  /\ d \in Doc /\ d # None /\ d.line.n = i /\ d.line.whole = whole
               /\ d.mark = "done" => d.of \in Text /\ d.of.n = i
<1>1. PICK text \in Text : text = [n |-> i, whole |-> whole]
    BY DEF Text
<1>2. text.n = i /\ text.whole = whole
    BY <1>1
<1>3. PICK d : d = Upserted(i, text)
    OBVIOUS
<1>4. CASE docs[i] = None
  <2>1. d = [line |-> text, mark |-> "none", of |-> None]
    BY <1>3, <1>4 DEF Upserted
  <2>2. d \in Doc /\ d.line = text /\ d.mark = "none"
    BY <2>1 DEF Doc
  <2> QED
    BY <1>1, <1>2, <1>3, <2>2, NoDocAssumption
<1>5. CASE docs[i] # None
  <2>1. docs[i] \in Doc
    BY <1>5 DEF MirrorInv, TypeOK
  <2>2. d = [docs[i] EXCEPT !.line = text]
    BY <1>3, <1>5 DEF Upserted
  <2>3. d \in Doc /\ d.line = text /\ d.mark = docs[i].mark /\ d.of = docs[i].of
    BY <2>1, <2>2 DEF Doc
  <2>4. docs[i].mark = "done" => docs[i].of \in Text /\ docs[i].of.n = i
    BY <1>5 DEF MirrorInv, NumberInv
  <2> QED
    BY <1>1, <1>2, <1>3, <2>3, <2>4, NoDocAssumption
<1> QED
    BY <1>4, <1>5

(* onLine: the next complete line, stored or missed.                        *)
LEMMA DeliverMirror ==
    ASSUME MirrorInv, Deliver PROVE MirrorInv'
<1>1. PICK i : i = writer["tail"].upto + 1
    OBVIOUS
<1>2. PICK r \in Writer : r = writer["tail"]
    BY DEF MirrorInv, TypeOK, Writers
<1>3. r.upto \in Nat /\ written \in Nat /\ MaxLines \in Nat /\ written <= MaxLines
    BY MirrorAssumption DEF Writer, MirrorInv, TypeOK
<1>4. i \in Lines /\ i <= written /\ i \in Nat /\ i = r.upto + 1
    BY <1>1, <1>2, <1>3 DEF Deliver, Deliverable, Lines
<1>5. /\ r.step = "idle" /\ ~ r.torn /\ r.upto <= written
      /\ UNCHANGED <<fileVars, session, changes, pass, runs, restarts, unrecorded>>
    BY <1>2 DEF Deliver, MirrorInv, PlaceInv, Place, Writers
<1>6. CASE /\ docs' = [docs EXCEPT ![i] = Upserted(i, [n |-> i, whole |-> i <= written])]
           /\ writer' = [writer EXCEPT !["tail"].step = "model", !["tail"].at = i, !["tail"].upto = i]
           /\ missed' = missed \ {i} /\ torn' = torn \ {i}
           /\ UNCHANGED <<errors, untitled>>
  <2>1. PICK x : x = [r EXCEPT !.step = "model", !.at = i, !.upto = i]
    OBVIOUS
  <2>2. x \in Writer /\ x.step = "model" /\ x.at = i /\ x.upto = i /\ x.torn = r.torn
    BY <1>4, <2>1 DEF Writer
  <2>3. writer' = [writer EXCEPT !["tail"] = x]
    BY <1>2, <1>6, <2>1 DEF MirrorInv, TypeOK
  <2>4. Place("tail", x)
    BY <1>3, <1>4, <1>5, <2>2 DEF Place
  <2>5. /\ writer' \in [Writers -> Writer] /\ PlaceInv'
        /\ writer'["tail"] = x /\ \A v \in Writers : v # "tail" => writer'[v] = writer[v]
    BY <1>5, <2>2, <2>3, <2>4, WriterMoves DEF Writers
  <2>6. PICK d : d = Upserted(i, [n |-> i, whole |-> TRUE])
    OBVIOUS
  <2>7. /\ d \in Doc /\ d # None /\ d.line.n = i /\ d.line.whole = TRUE
        /\ d.mark = "done" => d.of \in Text /\ d.of.n = i
    BY <1>4, <2>6, UpsertedDoc
  <2>8. docs' = [docs EXCEPT ![i] = d]
    <3>1. (i <= written) = TRUE
      BY <1>4
    <3> QED
      BY <1>6, <2>6, <3>1
  <2>9. /\ docs' \in [Lines -> Doc \cup {None}] /\ docs'[i] = d
        /\ \A j \in Lines : j # i => docs'[j] = docs[j]
    BY <1>4, <2>7, <2>8 DEF MirrorInv, TypeOK
  <2>10. TypeOK'
    BY <1>5, <1>6, <2>5, <2>9 DEF MirrorInv, TypeOK, fileVars
  <2>11. NumberInv'
    <3>1. \A p \in pass : p.seq \in Lines
      BY DEF MirrorInv, TypeOK
    <3> QED
      BY <1>5, <2>7, <2>9, <3>1 DEF MirrorInv, NumberInv
  <2>12. DeliveredIsStored'
    <3>1. ASSUME NEW j \in Lines PROVE docs'[j] # None => docs'[j].line.n = j
      BY <2>7, <2>9 DEF MirrorInv, DeliveredIsStored
    <3>2. ASSUME NEW j \in Lines, j <= i, j \notin missed' \cup torn'
          PROVE  docs'[j] # None /\ docs'[j].line.whole
      <4>1. CASE j = i
        BY <2>7, <2>9, <4>1
      <4>2. CASE j # i
        <5>1. j <= r.upto /\ j \notin missed \cup torn
          BY <1>3, <1>4, <1>6, <3>2, <4>2 DEF Lines
        <5> QED
          BY <1>2, <2>9, <4>2, <5>1 DEF MirrorInv, DeliveredIsStored
      <4> QED
        BY <4>1, <4>2
    <3> QED
      BY <2>2, <2>5, <3>1, <3>2 DEF DeliveredIsStored
  <2>13. ~ unrecorded' => ChainInv'
    <3>1. \A w \in Writers : /\ writer[w].step = "event" <=> writer'[w].step = "event"
                             /\ writer[w].step = "event" => writer'[w].event = writer[w].event
      BY <1>2, <1>5, <2>2, <2>5
    <3> QED
      BY <1>5, <3>1, ChainKept DEF MirrorInv
  <2> QED
    BY <2>5, <2>10, <2>11, <2>12, <2>13 DEF MirrorInv
<1>7. CASE /\ Fails
           /\ writer' = [writer EXCEPT !["tail"].upto = i]
           /\ missed' = missed \cup {i} /\ untitled' = untitled \cup {i}
           /\ UNCHANGED <<docs, torn>>
  <2>1. PICK x : x = [r EXCEPT !.upto = i]
    OBVIOUS
  <2>2. x \in Writer /\ x.step = "idle" /\ x.upto = i /\ x.torn = r.torn
    BY <1>4, <1>5, <2>1 DEF Writer
  <2>3. writer' = [writer EXCEPT !["tail"] = x]
    BY <1>2, <1>7, <2>1 DEF MirrorInv, TypeOK
  <2>4. Place("tail", x)
    BY <1>3, <1>4, <1>5, <2>2 DEF Place
  <2>5. /\ writer' \in [Writers -> Writer] /\ PlaceInv'
        /\ writer'["tail"] = x /\ \A v \in Writers : v # "tail" => writer'[v] = writer[v]
    BY <1>5, <2>2, <2>3, <2>4, WriterMoves DEF Writers
  <2>6. TypeOK'
    <3>1. errors' \in 0 .. MaxErrors
      BY <1>7, MirrorAssumption DEF Fails, MirrorInv, TypeOK
    <3> QED
      BY <1>4, <1>5, <1>7, <2>5, <3>1 DEF MirrorInv, TypeOK, fileVars
  <2>7. NumberInv'
    BY <1>5, <1>7 DEF MirrorInv, NumberInv
  <2>8. DeliveredIsStored'
    <3>1. ASSUME NEW j \in Lines, j <= i, j \notin missed' \cup torn'
          PROVE  docs'[j] # None /\ docs'[j].line.whole
      <4>1. j # i /\ j <= r.upto /\ j \notin missed \cup torn
        BY <1>3, <1>4, <1>7, <3>1 DEF Lines
      <4> QED
        BY <1>2, <1>7, <4>1 DEF MirrorInv, DeliveredIsStored
    <3> QED
      BY <1>7, <2>2, <2>5, <3>1 DEF MirrorInv, DeliveredIsStored
  <2>9. ~ unrecorded' => ChainInv'
    <3>1. \A w \in Writers : /\ writer[w].step = "event" <=> writer'[w].step = "event"
                             /\ writer[w].step = "event" => writer'[w].event = writer[w].event
      BY <1>2, <1>5, <2>2, <2>5
    <3> QED
      BY <1>5, <3>1, ChainKept DEF MirrorInv
  <2> QED
    BY <2>5, <2>6, <2>7, <2>8, <2>9 DEF MirrorInv
<1> QED
    BY <1>1, <1>6, <1>7 DEF Deliver

(* The tailer's place and what it delivered do not depend on a backfill.    *)
LEMMA FillMoves ==
    ASSUME MirrorInv, NEW x \in Writer, writer' = [writer EXCEPT !["fill"] = x], Place("fill", x),
           UNCHANGED fileVars
    PROVE  /\ writer' \in [Writers -> Writer] /\ PlaceInv' /\ writer'["fill"] = x
           /\ writer'["tail"] = writer["tail"]
           /\ \A v \in Writers : v # "fill" => writer'[v] = writer[v]
BY WriterMoves DEF Writers

(* processSession reads the file and looks at the session's model.          *)
LEMMA ReadFileMirror ==
    ASSUME MirrorInv, ReadFile \/ CheckModel PROVE MirrorInv'
<1>1. PICK r \in Writer : r = writer["fill"]
    BY DEF MirrorInv, TypeOK, Writers
<1>2. Place("fill", r)
    BY <1>1 DEF MirrorInv, PlaceInv, Writers
<1>3. /\ UNCHANGED <<fileVars, docs, session, changes, pass, restarts, errors, history>>
      /\ runs' \in 0 .. MaxRuns /\ r.step # "event"
    BY <1>1, MirrorAssumption DEF ReadFile, CheckModel, MirrorInv, TypeOK, faultVars
<1>4. PICK x \in Writer : writer' = [writer EXCEPT !["fill"] = x] /\ Place("fill", x) /\ x.step # "event"
  <2>1. CASE ReadFile
    <3>1. PICK u : u = IF partial THEN written + 1 ELSE written
      OBVIOUS
    <3>2. u \in Nat /\ u <= MaxLines
      BY <3>1, MirrorAssumption DEF MirrorInv, TypeOK, PlaceInv
    <3>3. PICK t \in BOOLEAN : t = partial
      BY DEF MirrorInv, TypeOK
    <3>4. PICK x : x = [Fresh EXCEPT !.step = "lines", !.upto = u, !.torn = t]
      OBVIOUS
    <3>5. x \in Writer /\ x.step = "lines" /\ x.upto = u /\ x.at = 1
      BY <3>2, <3>4, FreshType DEF Writer, Fresh
    <3>6. writer' = [writer EXCEPT !["fill"] = x]
      BY <2>1, <3>1, <3>3, <3>4 DEF ReadFile
    <3>7. Place("fill", x)
      BY <3>2, <3>5 DEF Place
    <3> QED
      BY <3>5, <3>6, <3>7
  <2>2. CASE CheckModel
    <3>1. PICK s \in {"model", "title"} : s = IF session.model = None THEN "model" ELSE "title"
      OBVIOUS
    <3>2. PICK x : x = [r EXCEPT !.step = s]
      OBVIOUS
    <3>3. x \in Writer /\ x.step = s /\ x.upto = r.upto /\ x.at = r.at
      BY <3>1, <3>2 DEF Writer
    <3>4. writer' = [writer EXCEPT !["fill"] = x]
      BY <1>1, <2>2, <3>1, <3>2 DEF CheckModel, MirrorInv, TypeOK
    <3>5. r.step = "check"
      BY <1>1, <2>2 DEF CheckModel
    <3>6. Place("fill", x)
      BY <1>2, <3>1, <3>3, <3>5 DEF Place
    <3> QED
      BY <3>1, <3>3, <3>4, <3>6
  <2> QED
    BY <2>1, <2>2
<1>5. /\ writer' \in [Writers -> Writer] /\ PlaceInv' /\ writer'["fill"] = x
      /\ writer'["tail"] = writer["tail"]
      /\ \A v \in Writers : v # "fill" => writer'[v] = writer[v]
    BY <1>3, <1>4, FillMoves
<1>6. TypeOK'
    BY <1>3, <1>5 DEF MirrorInv, TypeOK, fileVars, history
<1>7. NumberInv' /\ DeliveredIsStored'
    BY <1>3, <1>5, DeliveredKept DEF MirrorInv, NumberInv, history
<1>8. ~ unrecorded' => ChainInv'
  <2>1. \A w \in Writers : /\ writer[w].step = "event" <=> writer'[w].step = "event"
                           /\ writer[w].step = "event" => writer'[w].event = writer[w].event
    BY <1>1, <1>3, <1>4, <1>5
  <2> QED
    BY <1>3, <2>1, ChainKept DEF MirrorInv, history
<1> QED
    BY <1>5, <1>6, <1>7, <1>8 DEF MirrorInv

(* processSession stores the batch: half a line it had read replaces a      *)
(* whole one that was delivered meanwhile, and is remembered as torn.       *)
LEMMA StoreBatchMirror ==
    ASSUME MirrorInv, StoreBatch PROVE MirrorInv'
<1>1. PICK r \in Writer : r = writer["fill"]
    BY DEF MirrorInv, TypeOK, Writers
<1>2. /\ Place("fill", r) /\ r.step = "lines" /\ r.upto \in Nat /\ r.upto <= MaxLines /\ r.at = 1
      /\ r.torn \in BOOLEAN
    BY <1>1 DEF StoreBatch, MirrorInv, PlaceInv, Writers, Place, Writer
<1>3. /\ UNCHANGED <<fileVars, changes, pass, runs, restarts, unrecorded, untitled>>
      /\ session'.model = session.model
      /\ session' \in [exists : BOOLEAN, model : Models, title : {"ai", "custom", None}]
    BY DEF StoreBatch, MirrorInv, TypeOK
<1> DEFINE fill == writer["fill"]
           text(i) == [n |-> i, whole |-> i < fill.upto \/ ~ fill.torn]
           whole(i) == i < r.upto \/ ~ r.torn
<1>4. ASSUME NEW s \in {"idle", "check"}, writer' = [writer EXCEPT !["fill"].step = s],
             s = "check" => r.upto # 0
      PROVE  /\ writer' \in [Writers -> Writer] /\ PlaceInv'
             /\ writer'["tail"] = writer["tail"]
             /\ ~ unrecorded' => ChainInv'
  <2>1. PICK x : x = [r EXCEPT !.step = s]
    OBVIOUS
  <2>2. x \in Writer /\ x.step = s /\ x.upto = r.upto /\ x.at = 1
    BY <1>2, <2>1 DEF Writer
  <2>3. writer' = [writer EXCEPT !["fill"] = x]
    BY <1>1, <1>4, <2>1 DEF MirrorInv, TypeOK
  <2>4. Place("fill", x)
    BY <1>2, <1>4, <2>2 DEF Place
  <2>5. /\ writer' \in [Writers -> Writer] /\ PlaceInv' /\ writer'["fill"] = x
        /\ writer'["tail"] = writer["tail"]
        /\ \A v \in Writers : v # "fill" => writer'[v] = writer[v]
    BY <1>3, <2>2, <2>3, <2>4, FillMoves
  <2>6. \A w \in Writers : /\ writer[w].step = "event" <=> writer'[w].step = "event"
                           /\ writer[w].step = "event" => writer'[w].event = writer[w].event
    BY <1>1, <1>2, <1>4, <2>2, <2>5
  <2> QED
    BY <1>3, <2>5, <2>6, ChainKept DEF MirrorInv
<1>5. CASE /\ docs' = [j \in Lines |-> IF \E i \in 1 .. fill.upto : Number(i) = j
                                       THEN Upserted(j, text(CHOOSE i \in 1 .. fill.upto : Number(i) = j)) ELSE docs[j]]
           /\ writer' = [writer EXCEPT !["fill"].step = IF fill.upto = 0 THEN "idle" ELSE "check"]
           /\ missed' = {i \in missed : i > fill.upto}
           /\ torn' = {i \in torn : i > fill.upto} \cup {i \in 1 .. fill.upto : ~ text(i).whole /\ writer["tail"].upto >= i}
           /\ UNCHANGED errors
  <2>0. /\ missed' = {i \in missed : i > r.upto}
        /\ torn' = {i \in torn : i > r.upto} \cup {i \in 1 .. r.upto : ~ whole(i) /\ writer["tail"].upto >= i}
    BY <1>1, <1>5
  <2>1. /\ writer' \in [Writers -> Writer] /\ PlaceInv'
        /\ writer'["tail"] = writer["tail"]
        /\ ~ unrecorded' => ChainInv'
    <3>1. PICK s \in {"idle", "check"} : s = IF r.upto = 0 THEN "idle" ELSE "check"
      OBVIOUS
    <3> QED
      BY <1>1, <1>4, <1>5, <3>1
  <2>2. \A j \in Lines : j > r.upto => docs'[j] = docs[j]
    <3>1. ASSUME NEW j \in Lines, j > r.upto PROVE ~ \E i \in 1 .. fill.upto : Number(i) = j
      BY <1>1, <1>2, <3>1 DEF Number, Lines
    <3> QED
      BY <1>5, <3>1
  <2>3. \A j \in 1 .. r.upto : j \in Lines
    BY <1>2, MirrorAssumption DEF Lines
  <2>4. ASSUME NEW j \in 1 .. r.upto PROVE docs'[j] = Upserted(j, [n |-> j, whole |-> whole(j)])
    <3>1. j \in 1 .. fill.upto
      BY <1>1
    <3>2. (CHOOSE i \in 1 .. fill.upto : Number(i) = j) = j
      BY <3>1 DEF Number
    <3>3. \E i \in 1 .. fill.upto : Number(i) = j
      BY <3>1 DEF Number
    <3>4. docs'[j] = Upserted(j, text(j))
      BY <1>5, <2>3, <3>2, <3>3
    <3> QED
      BY <1>1, <3>4
  <2>5. \A j \in 1 .. r.upto : whole(j) \in BOOLEAN
    BY <1>2
  <2> HIDE DEF whole
  <2>6. ASSUME NEW j \in 1 .. r.upto
        PROVE  /\ docs'[j] \in Doc /\ docs'[j] # None /\ docs'[j].line.n = j /\ docs'[j].line.whole = whole(j)
               /\ docs'[j].mark = "done" => docs'[j].of \in Text /\ docs'[j].of.n = j
    <3>1. PICK b \in BOOLEAN : b = whole(j)
      BY <2>5
    <3>2. docs'[j] = Upserted(j, [n |-> j, whole |-> b])
      BY <2>4, <3>1
    <3> QED
      BY <2>3, <3>1, <3>2, UpsertedDoc
  <2>7. \A j \in Lines : j > r.upto \/ j \in 1 .. r.upto
    BY <1>2, MirrorAssumption DEF Lines
  <2>8. docs' \in [Lines -> Doc \cup {None}]
    <3>1. docs' = [j \in Lines |-> docs'[j]]
      BY <1>5
    <3>2. \A j \in Lines : docs'[j] \in Doc \cup {None}
      BY <2>2, <2>6, <2>7 DEF MirrorInv, TypeOK
    <3> QED
      BY <3>1, <3>2
  <2>9. TypeOK'
    <3>1. missed' \subseteq Lines /\ torn' \subseteq Lines
      BY <2>0, <2>3 DEF MirrorInv, TypeOK
    <3> QED
      BY <1>3, <1>5, <2>1, <2>8, <3>1 DEF MirrorInv, TypeOK, fileVars
  <2>10. NumberInv'
    <3>1. \A p \in pass : p.seq \in Lines
      BY DEF MirrorInv, TypeOK
    <3> QED
      BY <1>3, <2>2, <2>6, <2>7, <3>1 DEF MirrorInv, NumberInv
  <2>11. DeliveredIsStored'
    <3>1. ASSUME NEW j \in Lines PROVE docs'[j] # None => docs'[j].line.n = j
      BY <2>2, <2>6, <2>7 DEF MirrorInv, DeliveredIsStored
    <3>2. ASSUME NEW j \in Lines, j <= writer["tail"].upto, j \notin missed' \cup torn'
          PROVE  docs'[j] # None /\ docs'[j].line.whole
      <4>1. CASE j > r.upto
        <5>1. j \notin missed \cup torn
          BY <2>0, <3>2, <4>1
        <5> QED
          BY <2>2, <3>2, <4>1, <5>1 DEF MirrorInv, DeliveredIsStored
      <4>2. CASE j \in 1 .. r.upto
        <5>1. writer["tail"].upto \in Nat
          BY DEF MirrorInv, TypeOK, Writers, Writer
        <5>2. whole(j)
          BY <2>0, <3>2, <4>2, <5>1 DEF Lines
        <5> QED
          BY <2>5, <2>6, <4>2, <5>2
      <4> QED
        BY <2>7, <4>1, <4>2
    <3> QED
      BY <2>1, <3>1, <3>2 DEF DeliveredIsStored
  <2> QED
    BY <2>1, <2>9, <2>10, <2>11 DEF MirrorInv
<1>6. CASE /\ Fails /\ writer' = [writer EXCEPT !["fill"].step = "idle"]
           /\ UNCHANGED <<docs, missed, torn>>
  <2>1. /\ writer' \in [Writers -> Writer] /\ PlaceInv'
        /\ writer'["tail"] = writer["tail"]
        /\ ~ unrecorded' => ChainInv'
    BY <1>4, <1>6
  <2>2. TypeOK'
    <3>1. errors' \in 0 .. MaxErrors
      BY <1>6, MirrorAssumption DEF Fails, MirrorInv, TypeOK
    <3> QED
      BY <1>3, <1>6, <2>1, <3>1 DEF MirrorInv, TypeOK, fileVars
  <2>3. NumberInv' /\ DeliveredIsStored'
    BY <1>3, <1>6, <2>1, DeliveredKept DEF MirrorInv, NumberInv
  <2> QED
    BY <2>1, <2>2, <2>3 DEF MirrorInv
<1> QED
    BY <1>5, <1>6 DEF StoreBatch

(* What a writer does about the model or the title of a line leaves the     *)
(* stored lines alone.                                                      *)
LEMMA LinesKept ==
    ASSUME MirrorInv, NEW w \in Writers, NEW x \in Writer, writer' = [writer EXCEPT ![w] = x],
           Place(w, x), x.upto = writer[w].upto,
           UNCHANGED <<fileVars, docs, pass, runs, restarts, missed, torn>>,
           session' \in [exists : BOOLEAN, model : Models, title : {"ai", "custom", None}],
           changes' \in Seq(Change), errors' \in 0 .. MaxErrors, unrecorded' \in BOOLEAN,
           untitled' \subseteq Lines
    PROVE  /\ TypeOK' /\ PlaceInv' /\ NumberInv' /\ DeliveredIsStored'
           /\ writer'[w] = x /\ \A v \in Writers : v # w => writer'[v] = writer[v]
<1>1. /\ writer' \in [Writers -> Writer] /\ PlaceInv'
      /\ writer'[w] = x /\ \A v \in Writers : v # w => writer'[v] = writer[v]
    BY WriterMoves
<1>2. TypeOK'
    BY <1>1 DEF MirrorInv, TypeOK, fileVars
<1>3. NumberInv'
    BY DEF MirrorInv, NumberInv
<1>4. writer'["tail"].upto = writer["tail"].upto
    BY <1>1 DEF Writers
<1>5. DeliveredIsStored'
    BY <1>4, DeliveredKept DEF MirrorInv
<1> QED
    BY <1>1, <1>2, <1>3, <1>5

LEMMA ErrorsType ==
    ASSUME MirrorInv, Fails PROVE errors' \in 0 .. MaxErrors
BY MirrorAssumption DEF Fails, MirrorInv, TypeOK

(* modeltrack.Lines, up to SetModel: two writers that record a change at    *)
(* once are remembered as unrecorded.                                       *)
LEMMA SetModelMirror ==
    ASSUME MirrorInv, NEW w \in Writers, SetModel(w) PROVE MirrorInv'
<1>1. PICK r \in Writer : r = writer[w]
    BY DEF MirrorInv, TypeOK
<1>2. Place(w, r) /\ r.step = "model"
    BY <1>1 DEF SetModel, MirrorInv, PlaceInv
<1>3. PICK m : m = Model(w, r.at)
    OBVIOUS
<1>4. m \in Models
  <2>1. r.at \in Lines
    BY <1>2, MirrorAssumption DEF Place, Lines, Writer
  <2> QED
    BY <1>3, <2>1 DEF Model, Models
<1>5. UNCHANGED <<fileVars, docs, changes, pass, runs, restarts, missed, torn>> /\ untitled' \subseteq Lines
    BY DEF SetModel, MirrorInv, TypeOK
<1>6. /\ session \in [exists : BOOLEAN, model : Models, title : {"ai", "custom", None}]
      /\ changes \in Seq(Change) /\ errors \in 0 .. MaxErrors /\ unrecorded \in BOOLEAN
    BY DEF MirrorInv, TypeOK
<1>7. /\ NextLine(r) \in Writer /\ Place(w, NextLine(r))
      /\ NextLine(r).upto = r.upto /\ NextLine(r).step # "event"
    BY <1>2, NextLineGood
<1>8. ASSUME NEW x \in Writer, Place(w, x), x.upto = r.upto, x.step # "event",
             writer' = [writer EXCEPT ![w] = x], UNCHANGED <<session, unrecorded>>,
             errors' \in 0 .. MaxErrors
      PROVE  MirrorInv'
  <2>1. /\ TypeOK' /\ PlaceInv' /\ NumberInv' /\ DeliveredIsStored'
        /\ writer'[w] = x /\ \A v \in Writers : v # w => writer'[v] = writer[v]
    BY <1>1, <1>5, <1>6, <1>8, LinesKept
  <2>2. \A v \in Writers : /\ writer[v].step = "event" <=> writer'[v].step = "event"
                           /\ writer[v].step = "event" => writer'[v].event = writer[v].event
    BY <1>1, <1>2, <1>8, <2>1
  <2>3. ~ unrecorded' => ChainInv'
    BY <1>5, <1>8, <2>2, ChainKept DEF MirrorInv
  <2> QED
    BY <2>1, <2>3 DEF MirrorInv
<1>9. CASE /\ writer' = [writer EXCEPT ![w] = NextLine(r)]
           /\ UNCHANGED <<session, unrecorded, errors>>
    BY <1>6, <1>7, <1>8, <1>9
<1>10. CASE /\ m \notin {None, r.last, session.model} /\ session.exists
            /\ session' = [session EXCEPT !.model = m]
            /\ writer' = [writer EXCEPT ![w] = [r EXCEPT !.step = "event", !.event = [from |-> Previous(w), to |-> m]]]
            /\ unrecorded' = (unrecorded \/ \E v \in Writers : writer[v].step = "event")
            /\ UNCHANGED errors
  <2>1. PICK c : c = [from |-> session.model, to |-> m]
    OBVIOUS
  <2>2. c \in Change /\ c.from = session.model /\ c.to = m
    BY <1>4, <1>6, <2>1 DEF Change
  <2>3. PICK x : x = [r EXCEPT !.step = "event", !.event = c]
    OBVIOUS
  <2>4. /\ x \in Writer /\ x.step = "event" /\ x.event = c /\ x.upto = r.upto /\ x.at = r.at
        /\ x.torn = r.torn
    BY <2>2, <2>3 DEF Writer
  <2>5. writer' = [writer EXCEPT ![w] = x]
    BY <1>10, <2>1, <2>3 DEF Previous
  <2>6. Place(w, x)
    BY <1>2, <2>2, <2>4 DEF Place
  <2>7. /\ session'.model = m
        /\ session' \in [exists : BOOLEAN, model : Models, title : {"ai", "custom", None}]
    BY <1>4, <1>6, <1>10
  <2>8. unrecorded' \in BOOLEAN
    BY <1>6, <1>10
  <2>9. /\ TypeOK' /\ PlaceInv' /\ NumberInv' /\ DeliveredIsStored'
        /\ writer'[w] = x /\ \A v \in Writers : v # w => writer'[v] = writer[v]
    BY <1>1, <1>5, <1>6, <1>10, <2>4, <2>5, <2>6, <2>7, <2>8, LinesKept
  <2>10. ASSUME ~ unrecorded' PROVE ChainInv'
    <3>1. ChainInv /\ \A v \in Writers : ~ Recording(v)
      BY <1>10, <2>10 DEF MirrorInv, Recording
    <3>2. session.model = End /\ Chained
      BY <3>1 DEF ChainInv
    <3>3. Chained' /\ End' = session.model
      BY <1>5, <3>2 DEF Chained, End
    <3>4. \A v \in Writers : writer'[v].step = "event" => v = w
      BY <2>9, <3>1 DEF Recording
    <3> QED
      BY <2>2, <2>4, <2>7, <2>9, <3>3, <3>4 DEF ChainInv, Recording
  <2> QED
    BY <2>9, <2>10 DEF MirrorInv
<1>11. CASE /\ writer' = [writer EXCEPT ![w] = [NextLine(r) EXCEPT !.last = m]]
            /\ UNCHANGED <<session, unrecorded, errors>>
  <2>1. PICK y \in Writer : y = NextLine(r)
    BY <1>7
  <2>2. PICK x : x = [y EXCEPT !.last = m]
    OBVIOUS
  <2>3. x \in Writer /\ x.step = y.step /\ x.upto = y.upto /\ x.at = y.at /\ x.torn = y.torn /\ x.event = y.event
    BY <1>4, <2>1, <2>2 DEF Writer
  <2>4. Place(w, x)
    BY <1>7, <2>1, <2>3 DEF Place
  <2> QED
    BY <1>6, <1>7, <1>8, <1>11, <2>1, <2>2, <2>3, <2>4
<1>12. CASE /\ Fails
            /\ writer' = [writer EXCEPT ![w] = [r EXCEPT !.step = AfterError(w)]]
            /\ UNCHANGED <<session, unrecorded>>
  <2>1. PICK s \in {"title", "idle"} : s = AfterError(w)
    BY DEF AfterError
  <2>2. PICK x : x = [r EXCEPT !.step = s]
    OBVIOUS
  <2>3. x \in Writer /\ x.step = s /\ x.upto = r.upto /\ x.at = r.at /\ x.torn = r.torn
    BY <2>1, <2>2 DEF Writer
  <2>4. Place(w, x)
    BY <1>2, <2>1, <2>3 DEF Place
  <2> QED
    BY <1>8, <1>12, <2>1, <2>2, <2>3, <2>4, ErrorsType
<1> QED
    BY <1>1, <1>3, <1>9, <1>10, <1>11, <1>12 DEF SetModel

(* A change that starts where the chain ends is its new end.                *)
LEMMA ChainGrows ==
    ASSUME changes \in Seq(Change), NEW c \in Change, changes' = Append(changes, c),
           Chained, c.from = End
    PROVE  changes' \in Seq(Change) /\ Chained' /\ End' = c.to
<1>1. PICK n \in Nat : n = Len(changes)
    OBVIOUS
<1>2. /\ changes' \in Seq(Change) /\ Len(changes') = n + 1 /\ changes'[n + 1] = c
      /\ \A k \in 1 .. n : changes'[k] = changes[k]
    BY <1>1
<1>3. End' = c.to
    BY <1>2 DEF End
<1>4. ASSUME NEW k \in Nat, 1 <= k, k <= n PROVE changes'[k].to = changes'[k + 1].from
  <2>1. CASE k < n
    BY <1>1, <1>2, <1>4, <2>1 DEF Chained
  <2>2. CASE k = n
    <3>1. changes # <<>>
      BY <1>1, <1>4, <2>2
    <3>2. c.from = changes[n].to
      BY <1>1, <3>1 DEF End
    <3>3. n \in 1 .. n
      BY <1>4, <2>2
    <3>4. changes'[n] = changes[n] /\ changes'[n + 1] = c
      BY <1>2, <3>3
    <3> QED
      BY <2>2, <3>2, <3>4
  <2>3. k < n \/ k = n
    BY <1>4
  <2> QED
    BY <2>1, <2>2, <2>3, Zenon
<1>5. Chained'
    BY <1>1, <1>2, <1>4 DEF Chained
<1> QED
    BY <1>2, <1>3, <1>5

(* modeltrack.Observe, the event that records the change.                   *)
LEMMA RecordChangeMirror ==
    ASSUME MirrorInv, NEW w \in Writers, RecordChange(w) PROVE MirrorInv'
<1>1. PICK r \in Writer : r = writer[w]
    BY DEF MirrorInv, TypeOK
<1>2. Place(w, r) /\ r.step = "event" /\ r.event \in Change
    BY <1>1 DEF RecordChange, MirrorInv, PlaceInv, Place
<1>3. PICK c \in Change : c = r.event
    BY <1>2
<1>4. UNCHANGED <<fileVars, docs, session, pass, runs, restarts, missed, torn>> /\ untitled' \subseteq Lines
    BY DEF RecordChange, MirrorInv, TypeOK
<1>5. /\ session \in [exists : BOOLEAN, model : Models, title : {"ai", "custom", None}]
      /\ changes \in Seq(Change) /\ errors \in 0 .. MaxErrors /\ unrecorded \in BOOLEAN
    BY DEF MirrorInv, TypeOK
<1>6. /\ NextLine(r) \in Writer /\ Place(w, NextLine(r))
      /\ NextLine(r).upto = r.upto /\ NextLine(r).step # "event"
    BY <1>2, NextLineGood
<1>7. CASE /\ changes' = Append(changes, writer[w].event)
           /\ writer' = [writer EXCEPT ![w] = [NextLine(writer[w]) EXCEPT !.last = writer[w].event.to, !.event = None]]
           /\ UNCHANGED <<errors, unrecorded>>
  <2>1. PICK y \in Writer : y = NextLine(r)
    BY <1>6
  <2>2. PICK l \in Models : l = c.to
    BY DEF Change
  <2>3. PICK x : x = [y EXCEPT !.last = l, !.event = None]
    OBVIOUS
  <2>4. x \in Writer /\ x.step = y.step /\ x.upto = y.upto /\ x.at = y.at /\ x.torn = y.torn
    BY <2>1, <2>2, <2>3 DEF Writer
  <2>5. Place(w, x) /\ x.step # "event" /\ x.upto = r.upto
    BY <1>6, <2>1, <2>4 DEF Place
  <2>6. writer' = [writer EXCEPT ![w] = x]
    BY <1>1, <1>3, <1>7, <2>1, <2>2, <2>3
  <2>7. changes' = Append(changes, c)
    BY <1>1, <1>3, <1>7
  <2>8. changes' \in Seq(Change)
    BY <1>5, <2>7
  <2>9. /\ TypeOK' /\ PlaceInv' /\ NumberInv' /\ DeliveredIsStored'
        /\ writer'[w] = x /\ \A v \in Writers : v # w => writer'[v] = writer[v]
    BY <1>1, <1>4, <1>5, <1>7, <2>4, <2>5, <2>6, <2>8, LinesKept
  <2>10. ASSUME ~ unrecorded' PROVE ChainInv'
    <3>1. ChainInv
      BY <1>7, <2>10 DEF MirrorInv
    <3>2. c.from = End /\ c.to = session.model /\ Chained
      BY <1>1, <1>2, <1>3, <3>1 DEF ChainInv, Recording
    <3>3. Chained' /\ End' = session.model
      BY <1>5, <2>7, <3>2, ChainGrows
    <3>4. \A v \in Writers : writer'[v].step # "event"
      BY <1>1, <1>2, <2>5, <2>9, <3>1 DEF ChainInv, Recording
    <3> QED
      BY <1>4, <3>3, <3>4 DEF ChainInv, Recording
  <2> QED
    BY <2>9, <2>10 DEF MirrorInv
<1>8. CASE /\ Fails
           /\ writer' = [writer EXCEPT ![w].step = AfterError(w), ![w].event = None]
           /\ unrecorded' = TRUE
           /\ UNCHANGED changes
  <2>1. PICK s \in {"title", "idle"} : s = AfterError(w)
    BY DEF AfterError
  <2>2. PICK x : x = [r EXCEPT !.step = s, !.event = None]
    OBVIOUS
  <2>3. x \in Writer /\ x.step = s /\ x.upto = r.upto /\ x.at = r.at /\ x.torn = r.torn
    BY <2>1, <2>2 DEF Writer
  <2>4. Place(w, x)
    BY <1>2, <2>1, <2>3 DEF Place
  <2>5. writer' = [writer EXCEPT ![w] = x]
    BY <1>1, <1>8, <2>1, <2>2 DEF MirrorInv, TypeOK
  <2>6. TypeOK' /\ PlaceInv' /\ NumberInv' /\ DeliveredIsStored'
    BY <1>1, <1>4, <1>5, <1>8, <2>3, <2>4, <2>5, LinesKept, ErrorsType
  <2> QED
    BY <1>8, <2>6 DEF MirrorInv
<1> QED
    BY <1>7, <1>8 DEF RecordChange

(* Tracker.Lines.                                                           *)
LEMMA SetMetaMirror ==
    ASSUME MirrorInv, NEW w \in Writers, SetMeta(w) PROVE MirrorInv'
<1>1. PICK r \in Writer : r = writer[w]
    BY DEF MirrorInv, TypeOK
<1>2. Place(w, r) /\ r.step = "title"
    BY <1>1 DEF SetMeta, MirrorInv, PlaceInv
<1>3. UNCHANGED <<fileVars, docs, changes, pass, runs, restarts, missed, torn, unrecorded>> /\ untitled' \subseteq Lines
  <2>1. untitled \subseteq Lines /\ w = "tail" => r.at \in Lines
    BY <1>1, <1>2, MirrorAssumption DEF MirrorInv, TypeOK, PlaceInv, Place, Writers, Writer, Lines
  <2>2. Untitled(w) \subseteq Lines /\ Covered(w) \subseteq Lines
    BY <1>1, <2>1 DEF Untitled, Covered, MirrorInv, TypeOK
  <2> QED
    BY <2>2 DEF SetMeta
<1>4. /\ session \in [exists : BOOLEAN, model : Models, title : {"ai", "custom", None}]
      /\ changes \in Seq(Change) /\ errors \in 0 .. MaxErrors /\ unrecorded \in BOOLEAN
    BY DEF MirrorInv, TypeOK
<1>5. PICK kind \in {"ai", "custom", None} : kind = Allowed(r.title, TitlesOfCall(w))
    BY DEF Allowed
<1>6. ASSUME NEW t \in {"ai", "custom", None},
             writer' = [writer EXCEPT ![w] = [r EXCEPT !.step = "idle", !.title = t]],
             session'.model = session.model, errors' \in 0 .. MaxErrors,
             session' \in [exists : BOOLEAN, model : Models, title : {"ai", "custom", None}]
      PROVE  MirrorInv'
  <2>1. PICK x : x = [r EXCEPT !.step = "idle", !.title = t]
    OBVIOUS
  <2>2. x \in Writer /\ x.step = "idle" /\ x.upto = r.upto /\ x.at = r.at /\ x.torn = r.torn
    BY <1>6, <2>1 DEF Writer
  <2>3. Place(w, x)
    BY <1>2, <2>2 DEF Place
  <2>4. /\ TypeOK' /\ PlaceInv' /\ NumberInv' /\ DeliveredIsStored'
        /\ writer'[w] = x /\ \A v \in Writers : v # w => writer'[v] = writer[v]
    BY <1>1, <1>3, <1>4, <1>6, <2>1, <2>2, <2>3, LinesKept
  <2>5. \A v \in Writers : /\ writer[v].step = "event" <=> writer'[v].step = "event"
                           /\ writer[v].step = "event" => writer'[v].event = writer[v].event
    BY <1>1, <1>2, <2>2, <2>4
  <2>6. ~ unrecorded' => ChainInv'
    BY <1>3, <1>6, <2>5, ChainKept DEF MirrorInv
  <2> QED
    BY <2>4, <2>6 DEF MirrorInv
<1>7. r.title \in {"ai", "custom", None}
    BY DEF Writer
<1>8. CASE /\ writer' = [writer EXCEPT ![w] = [r EXCEPT !.step = "idle", !.title = r.title]]
           /\ UNCHANGED session
           /\ Fails \/ UNCHANGED errors
    BY <1>4, <1>6, <1>7, <1>8, ErrorsType
<1>9. CASE /\ session' = [session EXCEPT !.title = kind]
           /\ writer' = [writer EXCEPT ![w] = [r EXCEPT !.step = "idle", !.title = kind]]
           /\ UNCHANGED errors
  <2>1. /\ session'.model = session.model
        /\ session' \in [exists : BOOLEAN, model : Models, title : {"ai", "custom", None}]
    BY <1>4, <1>9
  <2> QED
    BY <1>4, <1>6, <1>9, <2>1
<1> QED
    BY <1>1, <1>5, <1>8, <1>9 DEF SetMeta

(* The loop reads and settles documents, and skipped ones are queued again. *)
LEMMA QueryMirror ==
    ASSUME MirrorInv, Query PROVE MirrorInv'
<1>1. PICK lines \in SUBSET Unenriched : pass' = {[seq |-> i, line |-> docs[i].line] : i \in lines}
    BY DEF Query
<1>2. UNCHANGED <<fileVars, docs, session, changes, writer, faultVars, history>>
    BY DEF Query
<1>3. ASSUME NEW p \in pass'
      PROVE  p \in [seq : Lines, line : Text] /\ docs[p.seq] # None /\ p.line.n = p.seq
  <2>1. PICK i \in lines : p = [seq |-> i, line |-> docs[i].line]
    BY <1>1
  <2>2. i \in Lines /\ docs[i] # None
    BY <1>1 DEF Unenriched
  <2>3. docs[i] \in Doc /\ docs[i].line.n = i
    BY <2>2 DEF MirrorInv, TypeOK, NumberInv
  <2> QED
    BY <2>1, <2>2, <2>3 DEF Doc
<1>4. TypeOK'
    BY <1>2, <1>3 DEF MirrorInv, TypeOK, fileVars, faultVars, history
<1>5. NumberInv'
    BY <1>2, <1>3 DEF MirrorInv, NumberInv
<1>6. PlaceInv' /\ DeliveredIsStored'
    BY <1>2, DeliveredKept DEF MirrorInv, PlaceInv, Place, fileVars, history
<1>7. ~ unrecorded' => ChainInv'
    BY <1>2, ChainKept DEF MirrorInv, history
<1> QED
    BY <1>4, <1>5, <1>6, <1>7 DEF MirrorInv

(* The same document with other marks.                                      *)
LEMMA MarksMirror ==
    ASSUME MirrorInv, UNCHANGED <<fileVars, session, changes, writer, restarts, history>>,
           runs' \in 0 .. MaxRuns, errors' \in 0 .. MaxErrors, pass' \subseteq pass,
           docs' \in [Lines -> Doc \cup {None}],
           \A i \in Lines : /\ docs'[i] = None <=> docs[i] = None
                            /\ docs[i] # None => docs'[i].line = docs[i].line
                            /\ docs[i] # None /\ docs'[i].mark = "done" =>
                                  docs'[i].of \in Text /\ docs'[i].of.n = i
    PROVE  MirrorInv'
<1>1. TypeOK'
    BY DEF MirrorInv, TypeOK, fileVars, history
<1>2. NumberInv'
  <2>1. \A p \in pass : p.seq \in Lines
    BY DEF MirrorInv, TypeOK
  <2> QED
    BY <2>1 DEF MirrorInv, NumberInv
<1>3. PlaceInv'
    BY DEF MirrorInv, PlaceInv, Place, fileVars
<1>4. DeliveredIsStored'
    BY DEF MirrorInv, DeliveredIsStored, history
<1>5. ~ unrecorded' => ChainInv'
    BY ChainKept DEF MirrorInv, history
<1> QED
    BY <1>1, <1>2, <1>3, <1>4, <1>5 DEF MirrorInv

LEMMA SettleMirror ==
    ASSUME MirrorInv, Settle PROVE MirrorInv'
<1>1. PICK p \in pass : /\ pass' = pass \ {p}
                        /\ \/ \E mark \in {"done", "skipped"} :
                                /\ docs' = [docs EXCEPT ![p.seq] = Marked(docs[p.seq], mark, p.line)]
                                /\ UNCHANGED errors
                           \/ Fails /\ UNCHANGED docs
    BY DEF Settle
<1>2. /\ UNCHANGED <<fileVars, session, changes, writer, runs, restarts, history>>
      /\ pass' \subseteq pass /\ runs' \in 0 .. MaxRuns
    BY <1>1 DEF Settle, MirrorInv, TypeOK
<1>3. CASE Fails /\ UNCHANGED docs
  <2>1. docs' \in [Lines -> Doc \cup {None}]
    BY <1>3 DEF MirrorInv, TypeOK
  <2>2. \A i \in Lines : docs[i] # None /\ docs'[i].mark = "done" => docs'[i].of \in Text /\ docs'[i].of.n = i
    BY <1>3 DEF MirrorInv, NumberInv
  <2> QED
    BY <1>2, <1>3, <2>1, <2>2, ErrorsType, MarksMirror
<1>4. ASSUME NEW mark \in {"done", "skipped"},
             docs' = [docs EXCEPT ![p.seq] = Marked(docs[p.seq], mark, p.line)], UNCHANGED errors
      PROVE  MirrorInv'
  <2>1. PICK i \in Lines : i = p.seq
    BY DEF MirrorInv, TypeOK
  <2>2. PICK text \in Text : text = p.line
    BY DEF MirrorInv, TypeOK
  <2>3. docs[i] # None /\ text.n = i /\ docs[i] \in Doc
    BY <2>1, <2>2 DEF MirrorInv, NumberInv, TypeOK
  <2>4. PICK d : d = [docs[i] EXCEPT !.mark = mark, !.of = text]
    OBVIOUS
  <2>5. d \in Doc /\ d.line = docs[i].line /\ d.of = text
    BY <2>3, <2>4 DEF Doc
  <2>6. docs' = [docs EXCEPT ![i] = d]
    BY <1>4, <2>1, <2>2, <2>4 DEF Marked
  <2>7. /\ docs' \in [Lines -> Doc \cup {None}] /\ docs'[i] = d
        /\ \A j \in Lines : j # i => docs'[j] = docs[j]
    BY <2>5, <2>6 DEF MirrorInv, TypeOK
  <2>8. d # None
    BY <2>5, NoDocAssumption
  <2>9. \A j \in Lines : /\ docs'[j] = None <=> docs[j] = None
                         /\ docs[j] # None => docs'[j].line = docs[j].line
    BY <2>3, <2>5, <2>7, <2>8
  <2>10. \A j \in Lines : docs[j] # None /\ docs'[j].mark = "done" => docs'[j].of \in Text /\ docs'[j].of.n = j
    BY <2>3, <2>5, <2>7 DEF MirrorInv, NumberInv
  <2>11. errors' \in 0 .. MaxErrors
    BY <1>4 DEF MirrorInv, TypeOK
  <2> QED
    BY <1>2, <2>7, <2>9, <2>10, <2>11, MarksMirror
<1> QED
    BY <1>1, <1>3, <1>4

LEMMA RequeueMirror ==
    ASSUME MirrorInv, Requeue PROVE MirrorInv'
<1>1. /\ UNCHANGED <<fileVars, session, changes, writer, pass, restarts, errors, history>>
      /\ runs' \in 0 .. MaxRuns /\ errors' \in 0 .. MaxErrors
  <2>1. runs \in 0 .. MaxRuns /\ runs < MaxRuns /\ runs' = runs + 1 /\ MaxRuns \in Nat
    BY MirrorAssumption DEF Requeue, MirrorInv, TypeOK
  <2>2. runs' \in 0 .. MaxRuns
    BY <2>1
  <2>3. UNCHANGED <<fileVars, session, changes, writer, pass, restarts, errors, history>>
    BY DEF Requeue
  <2> QED
    BY <2>2, <2>3 DEF MirrorInv, TypeOK
<1>2. docs' = [i \in Lines |-> IF docs[i] # None /\ docs[i].mark = "skipped"
                               THEN [docs[i] EXCEPT !.mark = "none", !.of = None] ELSE docs[i]]
    BY DEF Requeue
<1>3. ASSUME NEW i \in Lines
      PROVE  /\ docs'[i] \in Doc \cup {None}
             /\ docs'[i] = None <=> docs[i] = None
             /\ docs[i] # None => docs'[i].line = docs[i].line
             /\ docs[i] # None /\ docs'[i].mark = "done" => docs'[i].of \in Text /\ docs'[i].of.n = i
  <2>1. CASE docs[i] # None /\ docs[i].mark = "skipped"
    <3>1. docs[i] \in Doc
      BY <2>1 DEF MirrorInv, TypeOK
    <3>2. PICK d : d = [docs[i] EXCEPT !.mark = "none", !.of = None]
      OBVIOUS
    <3>3. d \in Doc /\ d.line = docs[i].line /\ d.mark = "none"
      BY <3>1, <3>2 DEF Doc
    <3>4. docs'[i] = d
      BY <1>2, <2>1, <3>2
    <3> QED
      BY <2>1, <3>3, <3>4, NoDocAssumption
  <2>2. CASE ~ (docs[i] # None /\ docs[i].mark = "skipped")
    <3>1. docs'[i] = docs[i]
      BY <1>2, <2>2
    <3> QED
      BY <3>1 DEF MirrorInv, TypeOK, NumberInv
  <2> QED
    BY <2>1, <2>2
<1>4. docs' \in [Lines -> Doc \cup {None}]
  <2>1. docs' = [i \in Lines |-> docs'[i]]
    BY <1>2
  <2> QED
    BY <1>3, <2>1
<1>5. pass' \subseteq pass
    BY <1>1
<1> QED
    BY <1>1, <1>3, <1>4, <1>5, MarksMirror

(* A restarted tailer has delivered nothing.                                *)
LEMMA RestartMirror ==
    ASSUME MirrorInv, Restart PROVE MirrorInv'
<1>1. /\ UNCHANGED <<fileVars, docs, session, changes, runs, errors>>
      /\ writer' = [writer EXCEPT !["tail"] = Fresh] /\ pass' = {}
      /\ missed' = {} /\ torn' = {} /\ untitled' = {}
      /\ unrecorded' = (unrecorded \/ writer["tail"].step = "event")
    BY DEF Restart
<1>2. /\ Fresh.upto = 0 /\ Fresh.step = "idle" /\ ~ Fresh.torn
    BY DEF Fresh
<1>3. Place("tail", Fresh)
    BY <1>2, MirrorAssumption DEF Place, MirrorInv, TypeOK
<1>4. /\ writer' \in [Writers -> Writer] /\ PlaceInv'
      /\ writer'["tail"] = Fresh /\ \A v \in Writers : v # "tail" => writer'[v] = writer[v]
    BY <1>1, <1>3, FreshType, WriterMoves DEF Writers
<1>5. TypeOK'
  <2>1. restarts' \in 0 .. MaxRestarts /\ unrecorded' \in BOOLEAN
    BY <1>1, MirrorAssumption DEF Restart, MirrorInv, TypeOK
  <2> QED
    BY <1>1, <1>4, <2>1 DEF MirrorInv, TypeOK, fileVars
<1>6. NumberInv'
    BY <1>1 DEF MirrorInv, NumberInv
<1>7. DeliveredIsStored'
    BY <1>1, <1>2, <1>4 DEF MirrorInv, DeliveredIsStored, Lines
<1>8. ASSUME ~ unrecorded' PROVE ChainInv'
  <2>1. ~ unrecorded /\ writer["tail"].step # "event"
    BY <1>1, <1>8
  <2>2. \A w \in Writers : /\ writer[w].step = "event" <=> writer'[w].step = "event"
                           /\ writer[w].step = "event" => writer'[w].event = writer[w].event
    BY <1>2, <1>4, <2>1
  <2> QED
    BY <1>1, <2>1, <2>2, ChainKept DEF MirrorInv
<1> QED
    BY <1>4, <1>5, <1>6, <1>7, <1>8 DEF MirrorInv

LEMMA StutterMirror ==
    ASSUME MirrorInv, UNCHANGED vars PROVE MirrorInv'
<1>1. TypeOK' /\ NumberInv'
    BY DEF vars, fileVars, faultVars, history, MirrorInv, TypeOK, NumberInv
<1>2. PlaceInv' /\ DeliveredIsStored'
    BY DeliveredKept DEF vars, fileVars, faultVars, history, MirrorInv, PlaceInv, Place
<1>3. ~ unrecorded' => ChainInv'
    BY ChainKept DEF vars, history, MirrorInv
<1> QED
    BY <1>1, <1>2, <1>3 DEF MirrorInv

-----------------------------------------------------------------------------
(* Every text is kept under the number of its line, and one writer at most  *)
(* has a change to record that leads to the model of the session.           *)
THEOREM MirrorInvariance == Spec => []MirrorInv
<1>1. Init => MirrorInv
    BY InitMirror
<1>2. MirrorInv /\ [Next]_vars => MirrorInv'
  <2> SUFFICES ASSUME MirrorInv, [Next]_vars PROVE MirrorInv'
    OBVIOUS
  <2>1. CASE BeginLine \/ EndLine \/ UpsertSession
    BY <2>1, FileMirror
  <2>2. CASE Deliver
    BY <2>2, DeliverMirror
  <2>3. CASE ReadFile \/ CheckModel
    BY <2>3, ReadFileMirror
  <2>4. CASE StoreBatch
    BY <2>4, StoreBatchMirror
  <2>5. ASSUME NEW w \in Writers, SetModel(w) \/ RecordChange(w) \/ SetMeta(w) PROVE MirrorInv'
    BY <2>5, SetModelMirror, RecordChangeMirror, SetMetaMirror
  <2>6. CASE Query \/ Settle \/ Requeue
    BY <2>6, QueryMirror, SettleMirror, RequeueMirror
  <2>7. CASE Restart
    BY <2>7, RestartMirror
  <2>8. CASE UNCHANGED vars
    BY <2>8, StutterMirror
  <2> QED
    BY <2>1, <2>2, <2>3, <2>4, <2>5, <2>6, <2>7, <2>8 DEF Next
<1> QED
    BY <1>1, <1>2, PTL DEF Spec

(* Type correctness of the mirror.                                          *)
THEOREM MirrorTypes == Spec => []TypeOK
<1>1. MirrorInv => TypeOK
    BY DEF MirrorInv
<1> QED
    BY <1>1, MirrorInvariance, PTL

(* A delivered line is stored, whole and under its own number.              *)
THEOREM DeliveredStored == Spec => []DeliveredIsStored
<1>1. MirrorInv => DeliveredIsStored
    BY DEF MirrorInv
<1> QED
    BY <1>1, MirrorInvariance, PTL

(* The enrichment of a line was made of that line.                          *)
THEOREM EnrichmentOfTheLine == Spec => []EnrichedFromTheLine
<1>1. MirrorInv => EnrichedFromTheLine
  <2> SUFFICES ASSUME MirrorInv, NEW i \in Lines, docs[i] # None, docs[i].mark = "done",
                      docs[i].of.whole, docs[i].line.whole
               PROVE  docs[i].of = docs[i].line
    BY DEF EnrichedFromTheLine
  <2>1. docs[i] \in Doc
    BY DEF MirrorInv, TypeOK
  <2>2. docs[i].line \in Text /\ docs[i].of \in Text
    BY <2>1 DEF Doc, MirrorInv, NumberInv
  <2>3. docs[i].line.n = i /\ docs[i].of.n = i
    BY DEF MirrorInv, NumberInv
  <2> QED
    BY <2>2, <2>3 DEF Text
<1> QED
    BY <1>1, MirrorInvariance, PTL

(* The recorded changes lead to the model of the session.                   *)
THEOREM ModelChain == Spec => []ChangesLeadToModel
<1>1. MirrorInv => ChangesLeadToModel
  <2> SUFFICES ASSUME MirrorInv, ~ unrecorded
               PROVE  Chained /\ ((\A w \in Writers : writer[w].step # "event") => session.model = End)
    BY DEF ChangesLeadToModel, Chained, End
  <2> QED
    BY DEF MirrorInv, ChainInv, Recording
<1> QED
    BY <1>1, MirrorInvariance, PTL

-----------------------------------------------------------------------------
(* The titles.  What the tailer takes for stored is, unless a backfill has  *)
(* covered it; and it knows of the custom titles it has passed, but for     *)
(* those it could not write and the line it is at.                          *)
TitleInv ==
    /\ writer["tail"].title = "custom" => session.title = "custom" \/ untitled = Lines
    /\ \A i \in 1 .. writer["tail"].upto :
         LineTitle[i] = "custom" /\ i \notin untitled =>
            \/ writer["tail"].title = "custom"
            \/ i = writer["tail"].at /\ writer["tail"].step # "idle"
    /\ writer["tail"].step # "idle" => writer["tail"].at = writer["tail"].upto

LEMMA InitTitles == Init => TitleInv
BY DEF Init, TitleInv, Fresh, Writers

(* The tailer at work on a line keeps its title, its line and its number.   *)
LEMMA TailGoesOn ==
    ASSUME MirrorInv, TitleInv, writer["tail"].step # "idle", writer'["tail"].step # "idle",
           writer'["tail"].title = writer["tail"].title, writer'["tail"].at = writer["tail"].at,
           writer'["tail"].upto = writer["tail"].upto, session'.title = session.title, untitled' = untitled
    PROVE  TitleInv'
BY DEF TitleInv

(* The tailer moves on to another line, or the title, of the same text.     *)
LEMMA TailStep ==
    ASSUME MirrorInv, TitleInv, SetModel("tail") \/ RecordChange("tail") PROVE TitleInv'
<1>1. PICK r \in Writer : r = writer["tail"]
    BY DEF MirrorInv, TypeOK, Writers
<1>2. r.step \in {"model", "event"} /\ r.at = r.upto
    BY <1>1 DEF SetModel, RecordChange, TitleInv
<1>3. NextLine(r) = [r EXCEPT !.step = "title"]
    BY <1>2 DEF NextLine, Writer
<1>4. untitled' = untitled /\ session'.title = session.title
    BY DEF SetModel, RecordChange, MirrorInv, TypeOK
<1> DEFINE Near(x) == x.step \in {"event", "title"} /\ x.at = r.at /\ x.upto = r.upto /\ x.title = r.title
           From(x) == [writer EXCEPT !["tail"] = x]
<1>5. PICK x : writer' = From(x) /\ Near(x)
  <2>1. CASE SetModel("tail")
    <3>1. Near([r EXCEPT !.step = "title"]) /\ \A c : Near([r EXCEPT !.step = "event", !.event = c])
      BY DEF Writer
    <3>2. \A l : Near([[r EXCEPT !.step = "title"] EXCEPT !.last = l])
      BY DEF Writer
    <3>3. \/ writer' = From([r EXCEPT !.step = "title"])
          \/ \E c : writer' = From([r EXCEPT !.step = "event", !.event = c])
          \/ \E l : writer' = From([[r EXCEPT !.step = "title"] EXCEPT !.last = l])
      BY <1>1, <1>3, <2>1 DEF SetModel, AfterError
    <3> HIDE DEF Near, From
    <3> QED
      BY <3>1, <3>2, <3>3
  <2>2. CASE RecordChange("tail")
    <3>1. \A l : Near([[r EXCEPT !.step = "title"] EXCEPT !.last = l, !.event = None])
      BY DEF Writer
    <3>2. Near([r EXCEPT !.step = "title", !.event = None])
      BY DEF Writer
    <3>3. \/ \E l : writer' = From([[r EXCEPT !.step = "title"] EXCEPT !.last = l, !.event = None])
          \/ writer' = [writer EXCEPT !["tail"].step = "title", !["tail"].event = None]
      BY <1>1, <1>3, <2>2 DEF RecordChange, AfterError
    <3>4. [writer EXCEPT !["tail"].step = "title", !["tail"].event = None]
            = From([r EXCEPT !.step = "title", !.event = None])
      BY <1>1 DEF MirrorInv, TypeOK, Writers
    <3> HIDE DEF Near, From
    <3> QED
      BY <3>1, <3>2, <3>3, <3>4
  <2> QED
    BY <2>1, <2>2
<1>6. /\ writer'["tail"].step \in {"event", "title"} /\ writer'["tail"].at = r.at
      /\ writer'["tail"].upto = r.upto /\ writer'["tail"].title = r.title
    BY <1>5 DEF MirrorInv, TypeOK, Writers
<1> QED
    BY <1>1, <1>2, <1>4, <1>6, TailGoesOn

(* A line is delivered, or passed without having been stored.               *)
LEMMA DeliverTitles ==
    ASSUME MirrorInv, TitleInv, Deliver PROVE TitleInv'
<1>1. PICK r \in Writer : r = writer["tail"]
    BY DEF MirrorInv, TypeOK, Writers
<1>2. PICK i \in Nat : i = r.upto + 1
    BY DEF Writer
<1>3. r.step = "idle" /\ UNCHANGED session
    BY <1>1 DEF Deliver
<1>4. \/ /\ writer'["tail"].step = "model" /\ writer'["tail"].at = i /\ writer'["tail"].upto = i
         /\ writer'["tail"].title = r.title /\ untitled' = untitled
      \/ /\ writer'["tail"].step = "idle" /\ writer'["tail"].upto = i
         /\ writer'["tail"].title = r.title /\ untitled' = untitled \cup {i}
    BY <1>1, <1>2, <1>3 DEF Deliver, MirrorInv, TypeOK, Writers, Writer
<1>5. i \in Lines
    BY <1>1, <1>2, MirrorAssumption DEF Deliver, Deliverable, MirrorInv, TypeOK, Lines, Writer
<1>6. untitled = Lines => untitled' = Lines
    BY <1>4, <1>5
<1>7. \A j \in 1 .. i : j # i => j \in 1 .. r.upto
    BY <1>2 DEF Writer
<1> QED
    BY <1>1, <1>3, <1>4, <1>6, <1>7 DEF TitleInv

(* Tracker.Lines under the tailer: what it cannot write is untitled.        *)
LEMMA TailTitles ==
    ASSUME MirrorInv, TitleInv, SetMeta("tail") PROVE TitleInv'
<1>1. PICK r \in Writer : r = writer["tail"]
    BY DEF MirrorInv, TypeOK, Writers
<1>2. r.step = "title" /\ r.at = r.upto /\ ~ r.torn /\ r.at \in Lines
    BY <1>1, MirrorAssumption DEF SetMeta, TitleInv, MirrorInv, PlaceInv, Place, Writers, Lines, Writer
<1>3. TitlesOfCall("tail") = {LineTitle[r.at]} \ {None}
    BY <1>1, <1>2 DEF TitlesOfCall, Title
<1>4. PICK kind : kind = Allowed(r.title, TitlesOfCall("tail"))
    OBVIOUS
<1>5. kind = "custom" <=> r.title = "custom" \/ LineTitle[r.at] = "custom"
  <2>1. "custom" \in TitlesOfCall("tail") \cup {r.title} <=> r.title = "custom" \/ LineTitle[r.at] = "custom"
    BY <1>3, NoDocAssumption
  <2> QED
    BY <1>4, <2>1 DEF Allowed
<1>6. Titles("tail") <=> TitlesOfCall("tail") # {} /\ kind # r.title
    BY <1>1, <1>4 DEF Titles
<1>7. /\ writer'["tail"].step = "idle" /\ writer'["tail"].at = r.at /\ writer'["tail"].upto = r.upto
      /\ \/ /\ writer'["tail"].title = r.title /\ session' = session
            /\ untitled' = IF Titles("tail") THEN untitled \cup {r.at} ELSE untitled
         \/ Titles("tail") /\ writer'["tail"].title = kind /\ session'.title = kind /\ untitled' = untitled
  <2>1. \A t : writer' = [writer EXCEPT !["tail"] = [r EXCEPT !.step = "idle", !.title = t]]
                 => /\ writer'["tail"].step = "idle" /\ writer'["tail"].at = r.at
                    /\ writer'["tail"].upto = r.upto /\ writer'["tail"].title = t
    BY DEF MirrorInv, TypeOK, Writers, Writer
  <2>2. Untitled("tail") = (IF Titles("tail") THEN untitled \cup {r.at} ELSE untitled) /\ Covered("tail") = untitled
    BY <1>1 DEF Untitled, Covered
  <2>3. \A t : session' = [session EXCEPT !.title = t] => session'.title = t
    BY DEF MirrorInv, TypeOK
  <2> QED
    BY <1>1, <1>4, <2>1, <2>2, <2>3 DEF SetMeta
<1>8. ASSUME Titles("tail"), writer'["tail"].title = kind, session'.title = kind, untitled' = untitled
      PROVE  TitleInv'
  <2>1. \A i \in 1 .. r.upto : LineTitle[i] = "custom" /\ i \notin untitled => kind = "custom"
    BY <1>1, <1>5 DEF TitleInv
  <2> QED
    BY <1>7, <1>8, <2>1 DEF TitleInv
<1>9. ASSUME writer'["tail"].title = r.title, session' = session,
             untitled' = IF Titles("tail") THEN untitled \cup {r.at} ELSE untitled
      PROVE  TitleInv'
  <2>1. untitled = Lines => untitled' = Lines
    BY <1>2, <1>9
  <2>2. LineTitle[r.at] = "custom" /\ r.at \notin untitled' => r.title = "custom"
    BY <1>3, <1>5, <1>6, <1>9, NoDocAssumption
  <2>3. \A i \in 1 .. r.upto : LineTitle[i] = "custom" /\ i \notin untitled' => r.title = "custom"
    BY <1>1, <1>9, <2>2 DEF TitleInv
  <2> QED
    BY <1>1, <1>7, <1>9, <2>1, <2>3 DEF TitleInv
<1> QED
    BY <1>7, <1>8, <1>9

(* Tracker.Lines under a backfill: another title than a custom one is       *)
(* written only when it has read no custom one.                             *)
LEMMA FillTitles ==
    ASSUME MirrorInv, TitleInv, SetMeta("fill") PROVE TitleInv'
<1>1. writer'["tail"] = writer["tail"]
    BY DEF SetMeta, MirrorInv, TypeOK, Writers
<1>2. Untitled("fill") = untitled
    BY DEF Untitled
<1>3. CASE session' = session /\ untitled' = untitled
    BY <1>1, <1>3 DEF TitleInv
<1>4. CASE /\ session' = [session EXCEPT !.title = Allowed(writer["fill"].title, TitlesOfCall("fill"))]
           /\ untitled' = Covered("fill")
  <2>1. session'.title = "custom" \/ "custom" \notin TitlesOfCall("fill")
    BY <1>4 DEF Allowed, MirrorInv, TypeOK
  <2>2. writer["tail"].title = "custom" => session'.title = "custom" \/ untitled' = Lines
    BY <1>4, <2>1 DEF Covered
  <2>3. 1 .. writer["tail"].upto \subseteq Lines /\ (untitled' = untitled \/ untitled' = Lines)
    BY <1>4, MirrorAssumption DEF Covered, MirrorInv, TypeOK, PlaceInv, Place, Writers, Writer, Lines
  <2> QED
    BY <1>1, <2>2, <2>3 DEF TitleInv
<1> QED
    BY <1>2, <1>3, <1>4 DEF SetMeta

(* The other steps leave the tailer, the title and the history alone.       *)
LEMMA TitlesKept ==
    ASSUME TitleInv, writer'["tail"] = writer["tail"], session'.title = session.title, untitled' = untitled
    PROVE  TitleInv'
BY DEF TitleInv

(* A custom title the tailer has passed is shown.                           *)
THEOREM CustomTitleSeen == Spec => []CustomTitleShown
<1>1. Init => TitleInv
    BY InitTitles
<1>2. MirrorInv /\ TitleInv /\ [Next]_vars => TitleInv'
  <2> SUFFICES ASSUME MirrorInv, TitleInv, [Next]_vars PROVE TitleInv'
    OBVIOUS
  <2>1. CASE BeginLine \/ EndLine \/ UpsertSession
    BY <2>1, TitlesKept DEF BeginLine, EndLine, UpsertSession, history, MirrorInv, TypeOK
  <2>2. CASE ReadFile \/ CheckModel \/ StoreBatch
    BY <2>2, TitlesKept DEF ReadFile, CheckModel, StoreBatch, history, MirrorInv, TypeOK, Writers
  <2>3. CASE Query \/ Settle \/ Requeue \/ UNCHANGED vars
    BY <2>3, TitlesKept DEF Query, Settle, Requeue, vars, history
  <2>4. CASE Restart
    <3>1. writer'["tail"] = Fresh
      BY <2>4 DEF Restart, MirrorInv, TypeOK, Writers
    <3>2. Fresh.title = None /\ Fresh.upto = 0 /\ Fresh.step = "idle"
      BY DEF Fresh
    <3> QED
      BY <3>1, <3>2, NoDocAssumption DEF TitleInv
  <2>5. CASE SetModel("fill") \/ RecordChange("fill")
    BY <2>5, TitlesKept DEF SetModel, RecordChange, MirrorInv, TypeOK, Writers
  <2>6. CASE SetMeta("tail") \/ SetModel("tail") \/ RecordChange("tail") \/ SetMeta("fill") \/ Deliver
    BY <2>6, TailTitles, TailStep, FillTitles, DeliverTitles
  <2> QED
    BY <2>1, <2>2, <2>3, <2>4, <2>5, <2>6 DEF Next, Writers
<1>3. MirrorInv /\ TitleInv => CustomTitleShown
  <2> SUFFICES ASSUME MirrorInv, TitleInv, writer["tail"].step = "idle",
                      NEW i \in 1 .. writer["tail"].upto, LineTitle[i] = "custom", i \notin untitled
               PROVE  session.title = "custom"
    BY DEF CustomTitleShown
  <2>1. i \in Lines
    BY MirrorAssumption DEF MirrorInv, TypeOK, PlaceInv, Place, Writers, Writer, Lines
  <2> QED
    BY <2>1 DEF TitleInv
<1> QED
    BY <1>1, <1>2, <1>3, MirrorInvariance, PTL DEF Spec
=============================================================================
