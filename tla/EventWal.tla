------------------------------ MODULE EventWal ------------------------------
(***************************************************************************)
(* The session store as hook events reach it, and the write-ahead log they  *)
(* wait in while it does not answer: session/wal/wal.go and the part of     *)
(* session/ingest/ingest.go that uses it.                                   *)
(*                                                                         *)
(* The log is a file shared by processes.  Append is one O_APPEND write.    *)
(* Flush is not atomic: it reads the file, inserts line after line, then    *)
(* truncates the file and writes back what it keeps.  Each of its writes     *)
(* may fail and leave a part of what it wrote.  The mutex around both *)
(* (ingest.Service.walMu) belongs to one process and excludes nobody else.  *)
(***************************************************************************)
EXTENDS Integers, Sequences, SequencesExt

CONSTANTS
    Events,        \* hook events
    Procs,         \* the processes that flush the log
    MaxFaults      \* bound: how often the store goes down, an insert commits and
                   \* yet times out, or the disk refuses to open or to write

ASSUME WalAssumption == MaxFaults \in Nat

VARIABLES
    up,         \* the store answers
    copies,     \* the hook_events collection: how often each line is in it
    file,       \* events.wal, its whole lines
    cut,        \* events.wal ends in half a line, left by a write that failed
    flush,      \* the Flush each process is in
    overrun,    \* history: lines a flush wiped without having read them
    torn,       \* history: events a crash or a failed write caught after the truncate
    spilled,    \* history: events that did not become a line of their own
    doubtful,   \* history: events inserted by someone who does not know it, or
                \* who could not take their line out of the file
    faults      \* faults so far

walVars == <<up, copies, file, cut, flush, overrun, torn, spilled, doubtful, faults>>

(* A line of the log, or a document of the store.  stamped: it carries the  *)
(* account and host that ingest.Handle adds (Flush adds only a time).       *)
Line == [ev : Events, stamped : BOOLEAN]

(* What Handle stores and buffers.                                          *)
Stamped(e) == [ev |-> e, stamped |-> TRUE]

EventsOf(ls) == {l.ev : l \in ToSet(ls)}

(* pc none: not flushing.  insert: inserting the lines in rest, those in    *)
(* sent are done and those in kept failed.  write: the file is truncated    *)
(* and kept not yet written back.  read: what the file held when it was     *)
(* read, for the history variables.                                         *)
NoFlush == [pc |-> "none", rest |-> << >>, kept |-> << >>, sent |-> {}, read |-> {}]

FlushState == [pc : {"none", "insert", "write"}, rest : Seq(Line), kept : Seq(Line),
               sent : SUBSET Events, read : SUBSET Line]

WalTypeOK ==
    /\ up \in BOOLEAN
    /\ copies \in [Line -> Nat]
    /\ file \in Seq(Line)
    /\ cut \in BOOLEAN
    /\ flush \in [Procs -> FlushState]
    /\ overrun \subseteq Line
    /\ torn \cup spilled \cup doubtful \subseteq Events
    /\ faults \in Nat

WalInit ==
    /\ up = TRUE
    /\ copies = [l \in Line |-> 0]
    /\ file = << >> /\ cut = FALSE
    /\ flush = [p \in Procs |-> NoFlush]
    /\ overrun = {} /\ torn = {} /\ spilled = {} /\ doubtful = {}
    /\ faults = 0

Fault == faults < MaxFaults /\ faults' = faults + 1

-----------------------------------------------------------------------------

StoreGoesDown ==
    /\ up
    /\ Fault
    /\ up' = FALSE
    /\ UNCHANGED <<copies, file, cut, flush, overrun, torn, spilled, doubtful>>

StoreComesBack ==
    /\ ~up
    /\ up' = TRUE
    /\ UNCHANGED <<copies, file, cut, flush, overrun, torn, spilled, doubtful, faults>>

(* InsertHookEvent of line l: stored, not stored, or stored by an insert    *)
(* that timed out all the same.                                             *)
InsertOK(l) ==
    /\ up
    /\ copies' = [copies EXCEPT ![l] = @ + 1]
    /\ UNCHANGED <<doubtful, faults>>

InsertFails(l) == ~up /\ UNCHANGED <<copies, doubtful, faults>>

InsertUncertain(l) ==
    /\ up
    /\ Fault
    /\ copies' = [copies EXCEPT ![l] = @ + 1]
    /\ doubtful' = doubtful \cup {l.ev}

(* wal.Append, by whoever does not hold a mutex that forbids it.  After half *)
(* a line the new one continues it, and is malformed like it.               *)
WalAppend(l) ==
    /\ IF cut
         THEN spilled' = spilled \cup {l.ev} /\ UNCHANGED file
         ELSE file' = Append(file, l) /\ UNCHANGED spilled
    /\ cut' = FALSE
    /\ UNCHANGED <<up, copies, flush, overrun, torn, doubtful, faults>>

(* The file cannot be opened, or the write ends before the line does.       *)
WalAppendFails(l) ==
    /\ Fault
    /\ spilled' = spilled \cup {l.ev}
    /\ cut' \in {cut, TRUE}
    /\ UNCHANGED <<up, copies, file, flush, overrun, torn, doubtful>>

(* The events a flush has read.                                             *)
InHand(p) == {l.ev : l \in flush[p].read}

(* Flush reads the whole file; an empty one ends it there, and half a line   *)
(* is skipped.                                                              *)
LogIsEmpty == file = << >> /\ ~cut

FlushRead(p) ==
    /\ flush[p].pc = "none"
    /\ ~LogIsEmpty
    /\ flush' = [flush EXCEPT ![p] = [pc |-> "insert", rest |-> file, kept |-> << >>, sent |-> {}, read |-> ToSet(file)]]
    /\ doubtful' = doubtful \cup
         {e \in EventsOf(file) : \E q \in Procs \ {p} : e \in InHand(q)}
    /\ UNCHANGED <<up, copies, file, cut, overrun, torn, spilled, faults>>

(* Mutant: a line that was stored is kept as well.                          *)
FlushInserts_KeepsToo(p) ==
    LET l == Head(flush[p].rest)
    IN  /\ flush[p].pc = "insert" /\ flush[p].rest # << >>
        /\ InsertOK(l)
        /\ flush' = [flush EXCEPT ![p].rest = Tail(@), ![p].kept = Append(@, l)]
        /\ UNCHANGED <<up, file, cut, overrun, torn, spilled>>

(* The next line is inserted, ...                                           *)
FlushInserts(p) ==
    LET l == Head(flush[p].rest)
    IN  /\ flush[p].pc = "insert" /\ flush[p].rest # << >>
        /\ InsertOK(l)
        /\ flush' = [flush EXCEPT ![p].rest = Tail(@), ![p].sent = @ \cup {l.ev}]
        /\ UNCHANGED <<up, file, cut, overrun, torn, spilled>>

(* ... or refused, and kept while the rest is tried, ...                    *)
FlushKeeps(p) ==
    LET l == Head(flush[p].rest)
    IN  /\ flush[p].pc = "insert" /\ flush[p].rest # << >>
        /\ InsertFails(l)
        /\ flush' = [flush EXCEPT ![p].rest = Tail(@), ![p].kept = Append(@, l)]
        /\ UNCHANGED <<up, file, cut, overrun, torn, spilled>>

(* Mutant: a timeout keeps the failed line and forgets those not yet tried. *)
KeepAfterTimeout_Failed(f) == Append(f.kept, Head(f.rest))

(* ... or it times out (or its context ends), which keeps it and all that   *)
(* follow and ends the inserts.                                             *)
KeepAfterTimeout(f) == f.kept \o f.rest

FlushTimesOut(p, cancelled) ==
    LET l == Head(flush[p].rest)
    IN  /\ flush[p].pc = "insert" /\ flush[p].rest # << >>
        /\ \/ InsertFails(l)
           \/ InsertUncertain(l)
           \/ cancelled /\ UNCHANGED <<copies, doubtful, faults>>
        /\ flush' = [flush EXCEPT ![p].rest = << >>, ![p].kept = KeepAfterTimeout(flush[p])]
        /\ UNCHANGED <<up, file, cut, overrun, torn, spilled>>

(* Of the lines ls, those that p has not read.                              *)
Unread(p, ls) == ToSet(ls) \ flush[p].read

(* The file is opened with O_TRUNC: a line that was appended since it was   *)
(* read is gone.                                                            *)
FlushTruncates(p) ==
    /\ flush[p].pc = "insert" /\ flush[p].rest = << >>
    /\ flush' = [flush EXCEPT ![p].pc = "write"]
    /\ file' = << >> /\ cut' = FALSE
    /\ overrun' = overrun \cup Unread(p, file)
    /\ UNCHANGED <<up, copies, torn, spilled, doubtful, faults>>

(* It cannot be opened: the lines just inserted stay in it, for the next     *)
(* flush to insert again.                                                   *)
FlushOpenFails(p) ==
    /\ flush[p].pc = "insert" /\ flush[p].rest = << >>
    /\ Fault
    /\ flush' = [flush EXCEPT ![p] = NoFlush]
    /\ doubtful' = doubtful \cup flush[p].sent
    /\ UNCHANGED <<up, copies, file, cut, overrun, torn, spilled>>

(* The lines ls are written at the start of the file, over its first n       *)
(* lines: what was appended after the truncate.                             *)
WriteOver(p, ls, n) ==
    /\ file' = ls \o SubSeq(file, n + 1, Len(file))
    /\ overrun' = overrun \cup Unread(p, SubSeq(file, 1, n))
    /\ n < Len(file) => cut' = cut

(* The kept lines are written back.                                         *)
FlushWrites(p) ==
    /\ flush[p].pc = "write"
    /\ flush' = [flush EXCEPT ![p] = NoFlush]
    /\ IF flush[p].kept = << >>
         THEN UNCHANGED <<file, cut, overrun>>
         ELSE \E n \in 0 .. Len(file) :
                /\ file # << >> => n >= 1
                /\ WriteOver(p, flush[p].kept, n)
                /\ cut' \in {FALSE, cut}
    /\ UNCHANGED <<up, copies, torn, spilled, doubtful, faults>>

(* The write fails after the first m kept lines and perhaps half of the      *)
(* next; the others are gone.                                               *)
FlushWriteFails(p) ==
    LET kept == flush[p].kept
    IN  /\ flush[p].pc = "write"
        /\ Fault
        /\ flush' = [flush EXCEPT ![p] = NoFlush]
        /\ \E m \in 0 .. Len(kept) - 1, n \in 0 .. Len(file) :
             /\ m > 0 /\ file # << >> => n >= 1
             /\ WriteOver(p, SubSeq(kept, 1, m), n)
             /\ cut' \in (IF m = 0 THEN {cut, TRUE} ELSE BOOLEAN)
             /\ torn' = torn \cup EventsOf(SubSeq(kept, m + 1, Len(kept)))
        /\ UNCHANGED <<up, copies, spilled, doubtful>>

(* Process p dies, with the events in es inserted but not yet acknowledged. *)
WalCrash(p, es) ==
    /\ flush' = [flush EXCEPT ![p] = NoFlush]
    /\ torn' = IF flush[p].pc = "write" THEN torn \cup EventsOf(flush[p].kept) ELSE torn
    /\ doubtful' = doubtful \cup es \cup (IF flush[p].pc = "insert" THEN flush[p].sent ELSE {})
    /\ UNCHANGED <<up, copies, file, cut, overrun, spilled, faults>>

-----------------------------------------------------------------------------

Stored(e) == \E l \in Line : l.ev = e /\ copies[l] > 0

(* In the store, in the log, or in the hands of a flush that will write it  *)
(* back.                                                                    *)
Safe(e) ==
    \/ Stored(e)
    \/ e \in EventsOf(file)
    \/ \E p \in Procs : flush[p].pc = "write" /\ e \in EventsOf(flush[p].kept)

CopiesOf(e) == copies[[ev |-> e, stamped |-> TRUE]] + copies[[ev |-> e, stamped |-> FALSE]]

(* Lost in one of the windows that are known.                               *)
Excused == {l.ev : l \in overrun} \cup torn \cup spilled

(* An event is stored twice only when an insert committed without the       *)
(* inserting process learning of it (a timeout, a crash before the file was *)
(* truncated or the hook answered), when the file could not be opened to    *)
(* take its line out, or when two processes replayed the log at once: a     *)
(* replay that reaches its truncate never duplicates.                       *)
OnceUnlessDoubtful ==
    \A e \in Events : CopiesOf(e) > 1 => e \in doubtful
=============================================================================
