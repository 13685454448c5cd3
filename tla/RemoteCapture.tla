---------------------------- MODULE RemoteCapture ----------------------------
(***************************************************************************)
(* Capture with a clued server: every hook starts a relay of its own        *)
(* (cli/hook_relay.go), which stores its event on the server or buffers it, *)
(* and then replays the whole write-ahead log, within one budget of five    *)
(* seconds.  The relays of hooks that fire together share the log and no    *)
(* lock: each has an ingest.Service, and so a walMu, of its own.            *)
(*                                                                         *)
(* A relay is named by its event.                                           *)
(***************************************************************************)
EXTENDS EventWal

CONSTANT MaxKills  \* bound: how many relays die before they are done

ASSUME RemoteAssumption == MaxKills \in Nat

(* Every hook starts a process of its own.                                  *)
OneRelayPerEvent == Procs = Events

VARIABLES
    relay,   \* where each event's relay is
    kills    \* relays dead so far

relayOwn == <<relay, kills>>

relayVars == <<walVars, relayOwn>>

(* caughtUp: Handle has returned (the catch-up is module Catchup's).        *)
RelayPhases == {"todo", "inserting", "buffering", "caughtUp", "flushing", "done", "dead"}

RelayTypeOK ==
    /\ WalTypeOK
    /\ relay \in [Events -> RelayPhases]
    /\ kills \in Nat

RelayInit ==
    /\ WalInit
    /\ relay = [e \in Events |-> "todo"]
    /\ kills = 0

RelayGoes(e, ph) == relay' = [relay EXCEPT ![e] = ph] /\ UNCHANGED kills

-----------------------------------------------------------------------------

RelayStarts(e) ==
    /\ relay[e] = "todo"
    /\ RelayGoes(e, "inserting")
    /\ UNCHANGED walVars

(* The server's store cannot be opened: the event is dropped, not buffered.  *)
RelayCannotOpen(e) ==
    /\ relay[e] = "todo"
    /\ Fault
    /\ spilled' = spilled \cup {e}
    /\ RelayGoes(e, "done")
    /\ UNCHANGED <<up, copies, file, cut, flush, overrun, torn, doubtful>>

RelayInserts(e) ==
    /\ relay[e] = "inserting"
    /\ InsertOK(Stamped(e))
    /\ RelayGoes(e, "caughtUp")
    /\ UNCHANGED <<up, file, cut, flush, overrun, torn, spilled>>

RelayInsertFails(e) ==
    /\ relay[e] = "inserting"
    /\ InsertFails(Stamped(e)) \/ InsertUncertain(Stamped(e))
    /\ RelayGoes(e, "buffering")
    /\ UNCHANGED <<up, file, cut, flush, overrun, torn, spilled>>

(* walMu is the relay's own and is free here.                               *)
RelayBuffers(e) ==
    /\ relay[e] = "buffering"
    /\ WalAppend(Stamped(e)) \/ WalAppendFails(Stamped(e))
    /\ RelayGoes(e, "caughtUp")

(* FlushWAL after the catch-up: an empty log ends it at once.               *)
RelayFlushes(e) ==
    /\ relay[e] = "caughtUp"
    /\ IF LogIsEmpty
         THEN UNCHANGED walVars /\ RelayGoes(e, "done")
         ELSE FlushRead(e) /\ RelayGoes(e, "flushing")

(* The budget may be spent at any line, and before the first.               *)
RelayFlushStep(e) ==
    /\ relay[e] = "flushing"
    /\ \/ FlushInserts(e)
       \/ FlushKeeps(e)
       \/ FlushTimesOut(e, TRUE)
       \/ FlushTruncates(e)
    /\ UNCHANGED relayOwn

(* Written back or not, the relay is through.                               *)
RelayFlushEnds(e) ==
    /\ relay[e] = "flushing"
    /\ FlushWrites(e) \/ FlushWriteFails(e) \/ FlushOpenFails(e)
    /\ RelayGoes(e, "done")

(* The relay's process is killed.  Nothing retries for it.                  *)
Kill(e) ==
    /\ relay[e] \notin {"todo", "done", "dead"}
    /\ kills < MaxKills
    /\ kills' = kills + 1
    /\ relay' = [relay EXCEPT ![e] = "dead"]
    /\ WalCrash(e, {})

RelayStoreStep == (StoreGoesDown \/ StoreComesBack) /\ UNCHANGED relayOwn

RelayStep(e) ==
    \/ RelayStarts(e) \/ RelayCannotOpen(e)
    \/ RelayInserts(e) \/ RelayInsertFails(e) \/ RelayBuffers(e)
    \/ RelayFlushes(e) \/ RelayFlushStep(e) \/ RelayFlushEnds(e)

RelayNext ==
    \/ RelayStoreStep
    \/ \E e \in Events : RelayStep(e) \/ Kill(e)

RelaySpec == RelayInit /\ [][RelayNext]_relayVars

-----------------------------------------------------------------------------

(* An event whose relay got past storing or buffering it is in the store,   *)
(* in the log, or with a flush that will write it back, unless another      *)
(* relay's flush wiped its line, a relay died or failed to write between    *)
(* truncating and rewriting the log, its line was not appended whole, or    *)
(* its relay could not open the store and dropped it.                       *)
RelayLosesOnlyInKnownWindows ==
    \A e \in Events : relay[e] \in {"caughtUp", "flushing", "done"} => Safe(e) \/ e \in Excused
=============================================================================
