------------------------------- MODULE Catchup -------------------------------
(***************************************************************************)
(* The transcript half of session/catchup: short-lived runs, one per hook,  *)
(* push the lines a session's transcript has gained since the saved offset  *)
(* and save how far they got.  A lock file is meant to keep the runs of one *)
(* session apart; a run may die at any point.                               *)
(*                                                                         *)
(* Offsets count complete lines instead of bytes: a line's position is the  *)
(* offset just past it.  A line is blank, or is told apart by where it was  *)
(* written: its position and the generation of the file (a transcript that  *)
(* is replaced starts a new generation).                                    *)
(***************************************************************************)
EXTENDS Integers, FiniteSetsExt

CONSTANTS
    Runs,        \* the relay processes that may run at one time
    LineModel,   \* the model that the line at each position names, or None
    None,        \* no line, no model
    BatchSize,   \* lines per upsert (500)
    LocksAge,    \* whether a lock file may get older than staleAfter
    MaxLines,    \* bound: lines of the transcript
    MaxTruncs,   \* bound: how often the transcript is replaced
    MaxFails,    \* bound: how many store calls fail
    MaxCrashes   \* bound: how many runs die

ASSUME CatchupAssumption ==
    /\ DOMAIN LineModel = 1 .. MaxLines
    /\ BatchSize \in Nat \ {0}
    /\ LocksAge \in BOOLEAN
    /\ {MaxLines, MaxTruncs, MaxFails, MaxCrashes} \subseteq Nat

VARIABLES
    size,        \* the complete lines of the transcript
    written,     \* the positions of those that are not blank
    gen,         \* its generation
    stored,      \* transcript_lines: the line under each sequence number
    model,       \* the session's model in the store
    saved,       \* <session>.json
    lock,        \* <session>.lock: absent, younger than staleAfter, or older
    pc,          \* where each run is
    attempt,     \* acquireLock's attempt, for each run
    st,          \* the state each run works on
    lines,       \* what each run has read: of which generation, the positions
                 \* of the lines it has not pushed, and where the read ended
    overlap,     \* history: two runs have pushed at one time
    untracked,   \* history: the models of a batch could not be recorded
    fails, crashes

vars == <<size, written, gen, stored, model, saved, lock, pc, attempt, st, lines, overlap, untracked, fails, crashes>>

Models == {LineModel[p] : p \in 1 .. MaxLines} \cup {None}

Line == [gen : 0 .. MaxTruncs, pos : 1 .. MaxLines]

(* The state's gen is no field of the code's: it tells which generation of  *)
(* the file the offset and the sequence number count.                       *)
State == [offset : Nat, seq : Nat, model : Models, gen : 0 .. MaxTruncs]

NewState == [offset |-> 0, seq |-> 0, model |-> None, gen |-> 0]

ReadLines == [gen : 0 .. MaxTruncs, pos : SUBSET (1 .. MaxLines), end : Nat]

NoLines == [gen |-> 0, pos |-> {}, end |-> 0]

PCs == {"idle", "open", "stat", "remove", "load", "size", "read", "upsert", "track", "save", "release"}

TypeOK ==
    /\ size \in 0 .. MaxLines /\ written \subseteq 1 .. size /\ gen \in 0 .. MaxTruncs
    /\ stored \in [1 .. MaxLines -> Line \cup {None}]
    /\ model \in Models
    /\ saved \in State
    /\ lock \in {"absent", "fresh", "stale"}
    /\ pc \in [Runs -> PCs]
    /\ attempt \in [Runs -> {0, 1}]
    /\ st \in [Runs -> State]
    /\ lines \in [Runs -> ReadLines]
    /\ overlap \in BOOLEAN /\ untracked \in BOOLEAN
    /\ fails \in Nat /\ crashes \in Nat

Init ==
    /\ size = 0 /\ written = {} /\ gen = 0
    /\ stored = [k \in 1 .. MaxLines |-> None]
    /\ model = None
    /\ saved = NewState
    /\ lock = "absent"
    /\ pc = [r \in Runs |-> "idle"]
    /\ attempt = [r \in Runs |-> 0]
    /\ st = [r \in Runs |-> NewState]
    /\ lines = [r \in Runs |-> NoLines]
    /\ overlap = FALSE /\ untracked = FALSE
    /\ fails = 0 /\ crashes = 0

(* Run is past acquireLock.                                                 *)
Pushing(r) == pc[r] \in {"load", "size", "read", "upsert", "track", "save", "release"}

Goto(r, label) == pc' = [pc EXCEPT ![r] = label]

(* The place of position p among the lines at the positions ps, from 1, and *)
(* the first n of them.                                                     *)
Rank(ps, p) == Cardinality({q \in ps : q <= p})

First(ps, n) == {p \in ps : Rank(ps, p) <= n}

-----------------------------------------------------------------------------
(* The session writes its transcript.                                       *)

Write ==
    /\ size < MaxLines
    /\ size' = size + 1
    /\ written' \in {written, written \cup {size + 1}}
    /\ UNCHANGED <<overlap, untracked, gen, stored, model, saved, lock, pc, attempt, st, lines, fails, crashes>>

Replace ==
    /\ gen < MaxTruncs
    /\ gen' = gen + 1
    /\ size' = 0 /\ written' = {}
    /\ UNCHANGED <<overlap, untracked, stored, model, saved, lock, pc, attempt, st, lines, fails, crashes>>

-----------------------------------------------------------------------------
(* acquireLock.                                                             *)

Hook(r) ==
    /\ pc[r] = "idle"
    /\ Goto(r, "open")
    /\ attempt' = [attempt EXCEPT ![r] = 0]
    /\ UNCHANGED <<overlap, untracked, size, written, gen, stored, model, saved, lock, st, lines, fails, crashes>>

(* O_CREATE|O_EXCL.                                                         *)
OpenLock(r) ==
    /\ pc[r] = "open"
    /\ IF lock = "absent"
         THEN /\ lock' = "fresh" /\ Goto(r, "load")
              /\ attempt' = [attempt EXCEPT ![r] = 0]
              /\ overlap' = (overlap \/ \E q \in Runs : Pushing(q))
         ELSE UNCHANGED <<lock, overlap, attempt>> /\ Goto(r, "stat")
    /\ UNCHANGED <<untracked, size, written, gen, stored, model, saved, st, lines, fails, crashes>>

(* Mutant: a lock is never reclaimed.                                       *)
StatLock_NeverStale(r) ==
    /\ pc[r] = "stat"
    /\ Goto(r, "idle")
    /\ attempt' = [attempt EXCEPT ![r] = 0]
    /\ UNCHANGED <<overlap, untracked, size, written, gen, stored, model, saved, lock, st, lines, fails, crashes>>

(* Held by another run, or stale, or gone since.                            *)
StatLock(r) ==
    /\ pc[r] = "stat"
    /\ Goto(r, IF attempt[r] > 0 \/ lock = "fresh" THEN "idle" ELSE "remove")
    /\ attempt' = [attempt EXCEPT ![r] = 0]
    /\ UNCHANGED <<overlap, untracked, size, written, gen, stored, model, saved, lock, st, lines, fails, crashes>>

(* The file that is removed need not be the one that Stat saw.              *)
RemoveLock(r) ==
    /\ pc[r] = "remove"
    /\ lock' = "absent"
    /\ attempt' = [attempt EXCEPT ![r] = 1]
    /\ Goto(r, "open")
    /\ UNCHANGED <<overlap, untracked, size, written, gen, stored, model, saved, st, lines, fails, crashes>>

LockAges ==
    /\ LocksAge
    /\ lock = "fresh"
    /\ lock' = "stale"
    /\ UNCHANGED <<overlap, untracked, size, written, gen, stored, model, saved, pc, attempt, st, lines, fails, crashes>>

-----------------------------------------------------------------------------
(* pushTranscript.                                                          *)

LoadState(r) ==
    /\ pc[r] = "load"
    /\ st' = [st EXCEPT ![r] = saved]
    /\ Goto(r, "size")
    /\ UNCHANGED <<overlap, untracked, size, written, gen, stored, model, saved, lock, attempt, lines, fails, crashes>>

(* Mutant: only the offset goes back.                                       *)
Restart_KeepSeq(s) == [s EXCEPT !.offset = 0, !.gen = gen]

(* A transcript shorter than the offset is read from the start again.       *)
Restart(s) == [s EXCEPT !.offset = 0, !.seq = 0, !.gen = gen]

CheckSize(r) ==
    /\ pc[r] = "size"
    /\ st' = [st EXCEPT ![r] = IF size < @.offset THEN Restart(@) ELSE @]
    /\ Goto(r, "read")
    /\ UNCHANGED <<overlap, untracked, size, written, gen, stored, model, saved, lock, attempt, lines, fails, crashes>>

(* ReadLines: the lines past the offset that are not blank, and the end.    *)
LinesFrom(offset) ==
    [gen |-> gen, pos |-> {p \in written : p > offset}, end |-> IF size > offset THEN size ELSE offset]

Read(r) ==
    /\ pc[r] = "read"
    /\ lines' = [lines EXCEPT ![r] = LinesFrom(st[r].offset)]
    /\ Goto(r, "upsert")
    /\ UNCHANGED <<overlap, untracked, size, written, gen, stored, model, saved, lock, attempt, st, fails, crashes>>

Batch(r) == First(lines[r].pos, BatchSize)

(* UpsertTranscriptLines: the lines of a batch under the numbers that       *)
(* follow seq.                                                              *)
Numbered(b, g, seq) ==
    [k \in 1 .. MaxLines |->
        IF \E p \in b : k = seq + Rank(b, p)
          THEN [gen |-> g, pos |-> CHOOSE p \in b : k = seq + Rank(b, p)]
          ELSE stored[k]]

(* Mutant: the number moves on and the offset does not.                     *)
Upsert_OldOffset(r) ==
    LET b == Batch(r)
    IN  /\ pc[r] = "upsert" /\ lines[r].pos # {}
        /\ stored' = Numbered(b, lines[r].gen, st[r].seq)
        /\ st' = [st EXCEPT ![r].seq = @ + Cardinality(b)]
        /\ Goto(r, "track")
        /\ UNCHANGED <<overlap, untracked, size, written, gen, model, saved, lock, attempt, lines, fails, crashes>>

(* The state moves on before the batch's models are recorded.               *)
Upsert(r) ==
    LET b == Batch(r)
    IN  /\ pc[r] = "upsert" /\ lines[r].pos # {}
        /\ stored' = Numbered(b, lines[r].gen, st[r].seq)
        /\ st' = [st EXCEPT ![r].seq = @ + Cardinality(b), ![r].offset = Max(b)]
        /\ Goto(r, "track")
        /\ UNCHANGED <<overlap, untracked, size, written, gen, model, saved, lock, attempt, lines, fails, crashes>>

(* modeltrack.Lines over the lines ps of a session the store has: the model *)
(* last seen, and the session's, which is only set when a line names        *)
(* another than the one last seen.                                          *)
Named(ps) == {p \in ps : LineModel[p] # None}

Seen(ps, last) == IF Named(ps) = {} THEN last ELSE LineModel[Max(Named(ps))]

(* Mutant: a model that is known is never replaced.                         *)
SetModel_Once(ps, last, m) == IF m = None THEN Seen(ps, last) ELSE m

SetModel(ps, last, m) ==
    IF \A p \in Named(ps) : LineModel[p] = last THEN m ELSE Seen(ps, last)

(* modeltrack and sidecar follow the batch.                                 *)
Track(r) ==
    LET b == Batch(r)
    IN  /\ pc[r] = "track"
        /\ model' = SetModel(b, st[r].model, model)
        /\ st' = [st EXCEPT ![r].model = Seen(b, @)]
        /\ lines' = [lines EXCEPT ![r].pos = @ \ b]
        /\ Goto(r, "upsert")
        /\ UNCHANGED <<overlap, untracked, size, written, gen, stored, saved, lock, attempt, fails, crashes>>

(* pushTranscript returns.                                                  *)
Return(r) == lines' = [lines EXCEPT ![r] = NoLines]

(* A store call fails: what succeeded is saved, the rest waits for the next *)
(* hook.                                                                    *)
UpsertFails(r) ==
    /\ pc[r] = "upsert" /\ lines[r].pos # {}
    /\ fails < MaxFails
    /\ fails' = fails + 1
    /\ Goto(r, "save")
    /\ Return(r)
    /\ UNCHANGED <<overlap, untracked, size, written, gen, stored, model, saved, lock, attempt, st, crashes>>

(* The first k lines are observed.  The next one may have set the model and *)
(* failed to add its ModelChanged event; or all are, and the sidecar fails. *)
TrackFails(r) ==
    LET b == Batch(r)
    IN  /\ pc[r] = "track"
        /\ fails < MaxFails
        /\ fails' = fails + 1
        /\ untracked' = TRUE
        /\ \E n \in 0 .. Cardinality(b) : \E k \in {n, n - 1} \cap Nat :
             /\ st' = [st EXCEPT ![r].model = Seen(First(b, k), @)]
             /\ model' = SetModel(First(b, n), st[r].model, model)
        /\ Goto(r, "save")
        /\ Return(r)
        /\ UNCHANGED <<overlap, size, written, gen, stored, saved, lock, attempt, crashes>>

(* All lines are pushed: trailing blank lines are consumed as well.         *)
Pushed(r) ==
    /\ pc[r] = "upsert" /\ lines[r].pos = {}
    /\ st' = [st EXCEPT ![r].offset = IF lines[r].end > @ THEN lines[r].end ELSE @]
    /\ Goto(r, "save")
    /\ Return(r)
    /\ UNCHANGED <<overlap, untracked, size, written, gen, stored, model, saved, lock, attempt, fails, crashes>>

(* saveState renames a complete file over the old one.                      *)
Save(r) ==
    /\ pc[r] = "save"
    /\ saved' = st[r]
    /\ Goto(r, "release")
    /\ UNCHANGED <<overlap, untracked, size, written, gen, stored, model, lock, attempt, st, lines, fails, crashes>>

SaveFails(r) ==
    /\ pc[r] = "save"
    /\ fails < MaxFails
    /\ fails' = fails + 1
    /\ Goto(r, "release")
    /\ UNCHANGED <<overlap, untracked, size, written, gen, stored, model, saved, lock, attempt, st, lines, crashes>>

(* release removes the lock file, whoever made it.                          *)
Release(r) ==
    /\ pc[r] = "release"
    /\ lock' = "absent"
    /\ Goto(r, "idle")
    /\ st' = [st EXCEPT ![r] = NewState]
    /\ Return(r)
    /\ UNCHANGED <<overlap, untracked, size, written, gen, stored, model, saved, attempt, fails, crashes>>

(* The process dies (its hook is killed, or the machine).                   *)
Crash(r) ==
    /\ pc[r] # "idle"
    /\ crashes < MaxCrashes
    /\ crashes' = crashes + 1
    /\ Goto(r, "idle")
    /\ st' = [st EXCEPT ![r] = NewState]
    /\ Return(r)
    /\ attempt' = [attempt EXCEPT ![r] = 0]
    /\ UNCHANGED <<overlap, untracked, size, written, gen, stored, model, saved, lock, fails>>

(* What a run does by itself once its hook has started it.                  *)
RunStep(r) ==
    \/ OpenLock(r) \/ StatLock(r) \/ RemoveLock(r)
    \/ LoadState(r) \/ CheckSize(r) \/ Read(r)
    \/ Upsert(r) \/ Track(r) \/ Pushed(r) \/ Save(r) \/ Release(r)

Next ==
    \/ Write \/ Replace \/ LockAges
    \/ \E r \in Runs : Hook(r) \/ RunStep(r) \/ UpsertFails(r) \/ TrackFails(r) \/ SaveFails(r) \/ Crash(r)

Spec == Init /\ [][Next]_vars

(* A run that is alive goes on to its end (the relay's budget bounds it)    *)
(* and a lock nobody removes gets old.  Nothing is assumed about hooks.     *)
Fairness ==
    /\ \A r \in Runs : WF_vars(RunStep(r))
    /\ WF_vars(LockAges)

LiveSpec == Spec /\ Fairness

-----------------------------------------------------------------------------

(* The lines before an offset, and how many they are: the number that the   *)
(* last of them has.                                                        *)
Texts(n) == {p \in written : p <= n}

Number(n) == Rank(written, n)

(* A state agrees with the file: its number is that of its offset, and      *)
(* every line before the offset is stored under its own number.             *)
StateTrue(s) ==
    /\ s.offset <= size /\ s.seq = Number(s.offset)
    /\ \A p \in Texts(s.offset) : stored[Number(p)] = [gen |-> gen, pos |-> p]

(* The saved offset and sequence number agree with the file they count, and *)
(* every line before the offset is stored under its own number: through     *)
(* failed calls, crashes and replaced transcripts as long as the lock kept  *)
(* the runs apart, and with a transcript that only grows even when not.     *)
SavedStateTrue == saved.gen = gen /\ (gen = 0 \/ ~overlap) => StateTrue(saved)

(* With a transcript that only grows, no line is ever stored under another  *)
(* line's number, even while several runs push at once because the lock     *)
(* failed to keep them apart.                                               *)
LinesUnderOwnNumber ==
    gen = 0 =>
      \A k \in 1 .. MaxLines :
         stored[k] # None => \E p \in written : k = Number(p) /\ stored[k] = [gen |-> 0, pos |-> p]

(* As long as hooks keep firing, every line of a transcript that only grows *)
(* is stored in the end: neither a lock left by a dead run, nor a run that  *)
(* saves an older state over a newer one, stops the catch-up for good.      *)
CatchesUp ==
    ([]<>(\E r \in Runs : pc[r] = "open")) =>
       \A k \in 1 .. MaxLines :
          (gen = 0 /\ Number(size) >= k) ~> (stored[k] # None)

(* Between runs the session's model is the one last named by the lines      *)
(* before the offset, or by those a run that died had pushed: through       *)
(* failed upserts and saves and crashes.  Only a failure to record the      *)
(* models of a batch is not made up for (the offset has moved past it), and *)
(* a transcript replaced after a crash.                                     *)
LastNamed(n) == Seen(Texts(n), None)

ModelAt(offset) == \E n \in offset .. size : model = LastNamed(n)

ModelOfPushedLines ==
    (\A r \in Runs : pc[r] = "idle") /\ gen = 0 /\ ~overlap /\ ~untracked => ModelAt(saved.offset)
=============================================================================
