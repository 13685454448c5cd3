--------------------------- MODULE TranscriptMirror ---------------------------
(***************************************************************************)
(* One session's transcript as the store has it: the daemon's tailer, which *)
(* starts again from the first line when the daemon is restarted, a         *)
(* backfill in another process that replays the whole file, the model and   *)
(* the title that both read off the lines (modeltrack, sidecar), and the    *)
(* daemon's enrichment loop over the stored lines.                          *)
(***************************************************************************)
EXTENDS Naturals, Sequences, FiniteSets

CONSTANTS
    MaxLines,    \* bound: lines of the transcript
    LineModel,   \* the model each line names, or None
    LineTitle,   \* the kind of title each line sets ("ai", "custom"), or None
    BatchLimit,  \* documents per enrichment pass
    MaxRuns,     \* bound: backfills
    MaxRestarts, \* bound: restarts of the daemon
    MaxErrors,   \* bound: store calls that fail
    None

Lines == 1 .. MaxLines

Writers == {"tail", "fill"}

ASSUME MirrorAssumption ==
    /\ {MaxLines, MaxRuns, MaxRestarts, MaxErrors} \subseteq Nat /\ BatchLimit \in Nat \ {0}
    /\ LineTitle \in [Lines -> {"ai", "custom", None}]
    /\ DOMAIN LineModel = Lines

Models == {LineModel[i] : i \in Lines} \cup {None}

VARIABLES
    written,   \* complete lines of the file
    partial,   \* whether the next line has been begun
    docs,      \* transcript_lines, by sequence number
    session,   \* the session record: whether it is there, its model and title
    changes,   \* the ModelChanged events, in the order they were stored
    writer,    \* the tailer and the backfill
    pass,      \* the enrichment pass: the documents it read and has not settled yet
    runs, restarts, errors,
    missed,    \* history: lines whose upsert failed under the tailer
    torn,      \* history: delivered lines a backfill replaced by an earlier part of them
    unrecorded, \* history: a model was set and its change never recorded, or two writers overlapped
    untitled   \* history: lines the running tailer has passed whose title need not be shown

fileVars == <<written, partial>>
faultVars == <<runs, restarts, errors>>
history == <<missed, torn, unrecorded, untitled>>
vars == <<fileVars, docs, session, changes, writer, pass, faultVars, history>>

Text == [n : Lines, whole : BOOLEAN]

Doc == [line : Text, mark : {"none", "done", "skipped"}, of : Text \cup {None}]

(* A number without a document is told from one with a document, and a line *)
(* without a title from one with a title.                                   *)
ASSUME NoDocAssumption == None \notin Doc \cup {"ai", "custom"}

Change == [from : Models, to : Models]

(* A writer observes the lines at .. upto: last is the model it last saw,   *)
(* event the change it has still to record, title what its Tracker knows.   *)
Writer == [step : {"idle", "lines", "model", "event", "check", "title"}, at : Nat, upto : Nat, torn : BOOLEAN,
           last : Models, event : Change \cup {None}, title : {"ai", "custom", None}]

Fresh == [step |-> "idle", at |-> 1, upto |-> 0, torn |-> FALSE, last |-> None, event |-> None, title |-> None]

TypeOK ==
    /\ written \in 0 .. MaxLines /\ partial \in BOOLEAN
    /\ docs \in [Lines -> Doc \cup {None}]
    /\ session \in [exists : BOOLEAN, model : Models, title : {"ai", "custom", None}]
    /\ changes \in Seq(Change)
    /\ writer \in [Writers -> Writer]
    /\ pass \subseteq [seq : Lines, line : Text]
    /\ runs \in 0 .. MaxRuns /\ restarts \in 0 .. MaxRestarts /\ errors \in 0 .. MaxErrors
    /\ missed \subseteq Lines /\ torn \subseteq Lines /\ unrecorded \in BOOLEAN /\ untitled \subseteq Lines

Init ==
    /\ written = 0 /\ partial = FALSE
    /\ docs = [i \in Lines |-> None]
    /\ session = [exists |-> FALSE, model |-> None, title |-> None]
    /\ changes = <<>>
    /\ writer = [w \in Writers |-> Fresh]
    /\ pass = {}
    /\ runs = 0 /\ restarts = 0 /\ errors = 0
    /\ missed = {} /\ torn = {} /\ unrecorded = FALSE /\ untitled = {}

-----------------------------------------------------------------------------
(* Claude Code appends to the transcript; a reader may see half a line.     *)
BeginLine ==
    /\ ~ partial /\ written < MaxLines
    /\ partial' = TRUE
    /\ UNCHANGED <<written, docs, session, changes, writer, pass, faultVars, history>>

EndLine ==
    /\ partial
    /\ partial' = FALSE /\ written' = written + 1
    /\ UNCHANGED <<docs, session, changes, writer, pass, faultVars, history>>

(* The first-sight upsert of the session, which runs detached.              *)
UpsertSession ==
    /\ ~ session.exists
    /\ session' = [session EXCEPT !.exists = TRUE]
    /\ UNCHANGED <<fileVars, docs, changes, writer, pass, faultVars, history>>

Fails == errors < MaxErrors /\ errors' = errors + 1

-----------------------------------------------------------------------------
(* UpsertTranscriptLines of one line: what enrichments the document has     *)
(* stay on it.                                                              *)
Upserted(i, text) ==
    IF docs[i] = None THEN [line |-> text, mark |-> "none", of |-> None] ELSE [docs[i] EXCEPT !.line = text]

(* Mutant: the tailer stores the line that is still being written.          *)
Deliverable_Partial == writer["tail"].upto < written \/ (writer["tail"].upto = written /\ partial)

(* Mutant: the last line waits for one after it.                            *)
Deliverable_NotLast == writer["tail"].upto + 1 < written

(* TailFile: the next complete line.                                        *)
Deliverable == writer["tail"].upto < written

(* onLine: the number is spent whether or not the line was stored, and a    *)
(* line that was not stored says nothing about the model or the title.      *)
Deliver ==
    LET i == writer["tail"].upto + 1
    IN  /\ writer["tail"].step = "idle" /\ Deliverable
        /\ \/ /\ docs' = [docs EXCEPT ![i] = Upserted(i, [n |-> i, whole |-> i <= written])]
              /\ writer' = [writer EXCEPT !["tail"].step = "model", !["tail"].at = i, !["tail"].upto = i]
              /\ missed' = missed \ {i} /\ torn' = torn \ {i}
              /\ UNCHANGED <<errors, untitled>>
           \/ /\ Fails
              /\ writer' = [writer EXCEPT !["tail"].upto = i]
              /\ missed' = missed \cup {i} /\ untitled' = untitled \cup {i}
              /\ UNCHANGED <<docs, torn>>
        /\ UNCHANGED <<fileVars, session, changes, pass, runs, restarts, unrecorded>>

(* processSession: the file as it is now, a last line without a newline     *)
(* included.                                                                *)
ReadFile ==
    /\ writer["fill"].step = "idle" /\ runs < MaxRuns
    /\ runs' = runs + 1
    /\ writer' = [writer EXCEPT !["fill"] = [Fresh EXCEPT !.step = "lines", !.upto = IF partial THEN written + 1 ELSE written, !.torn = partial]]
    /\ UNCHANGED <<fileVars, docs, session, changes, pass, restarts, errors, history>>

(* Mutant: numbers count from the lines the store has.                      *)
Number_Stored(i) == i + Cardinality({j \in Lines : docs[j] # None})

(* The batch is numbered from the first line of the file.                   *)
Number(i) == i

(* processSession: the session, then the batch in one call.                 *)
StoreBatch ==
    LET text(i) == [n |-> i, whole |-> i < writer["fill"].upto \/ ~ writer["fill"].torn]
    IN  /\ writer["fill"].step = "lines"
        /\ session' = [session EXCEPT !.exists = TRUE]
        /\ \/ /\ docs' = [j \in Lines |-> IF \E i \in 1 .. writer["fill"].upto : Number(i) = j
                                          THEN Upserted(j, text(CHOOSE i \in 1 .. writer["fill"].upto : Number(i) = j)) ELSE docs[j]]
              /\ writer' = [writer EXCEPT !["fill"].step = IF writer["fill"].upto = 0 THEN "idle" ELSE "check"]
              /\ missed' = {i \in missed : i > writer["fill"].upto}
              /\ torn' = {i \in torn : i > writer["fill"].upto} \cup {i \in 1 .. writer["fill"].upto : ~ text(i).whole /\ writer["tail"].upto >= i}
              /\ UNCHANGED errors
           \/ /\ Fails /\ writer' = [writer EXCEPT !["fill"].step = "idle"]
              /\ UNCHANGED <<docs, missed, torn>>
        /\ UNCHANGED <<fileVars, changes, pass, runs, restarts, unrecorded, untitled>>

(* The model is tracked only when the session has none yet.                 *)
CheckModel ==
    /\ writer["fill"].step = "check"
    /\ writer' = [writer EXCEPT !["fill"].step = IF session.model = None THEN "model" ELSE "title"]
    /\ UNCHANGED <<fileVars, docs, session, changes, pass, faultVars, history>>

-----------------------------------------------------------------------------
(* What a writer reads off line i: nothing from half a line, which is kept  *)
(* as raw text.                                                             *)
Model(w, i) == IF writer[w].torn /\ i = writer[w].upto THEN None ELSE LineModel[i]
Title(w, i) == IF writer[w].torn /\ i = writer[w].upto THEN None ELSE LineTitle[i]

NextLine(r) == IF r.at < r.upto THEN [r EXCEPT !.step = "model", !.at = r.at + 1] ELSE [r EXCEPT !.step = "title"]

(* An error of modeltrack.Lines ends a backfill; the tailer goes on to the  *)
(* title.                                                                   *)
AfterError(w) == IF w = "tail" THEN "title" ELSE "idle"

(* Mutant: a change starts at the model this writer saw last.               *)
Previous_Own(w) == writer[w].last

(* SetModel returns the model that was stored.                              *)
Previous(w) == session.model

(* modeltrack.Lines for the line at hand, up to SetModel.                   *)
SetModel(w) ==
    /\ writer[w].step = "model"
    /\ LET r == writer[w]
           m == Model(w, r.at)
           new(x) == writer' = [writer EXCEPT ![w] = x]
       IN  \/ /\ m = None \/ m = r.last \/ ~ session.exists
              /\ new(NextLine(r))
              /\ UNCHANGED <<session, unrecorded, errors>>
           \/ /\ m \notin {None, r.last, session.model} /\ session.exists
              /\ session' = [session EXCEPT !.model = m]
              /\ new([r EXCEPT !.step = "event", !.event = [from |-> Previous(w), to |-> m]])
              /\ unrecorded' = (unrecorded \/ \E v \in Writers : writer[v].step = "event")
              /\ UNCHANGED errors
           \/ /\ m \notin {None, r.last} /\ session.exists /\ m = session.model
              /\ new([NextLine(r) EXCEPT !.last = m])
              /\ UNCHANGED <<session, unrecorded, errors>>
           \/ /\ m \notin {None, r.last} /\ Fails
              /\ new([r EXCEPT !.step = AfterError(w)])
              /\ UNCHANGED <<session, unrecorded>>
    /\ UNCHANGED <<fileVars, docs, changes, pass, runs, restarts, missed, torn, untitled>>

(* modeltrack.Observe: the event that records the change.                   *)
RecordChange(w) ==
    /\ writer[w].step = "event"
    /\ \/ /\ changes' = Append(changes, writer[w].event)
          /\ writer' = [writer EXCEPT ![w] = [NextLine(writer[w]) EXCEPT !.last = writer[w].event.to, !.event = None]]
          /\ UNCHANGED <<errors, unrecorded>>
       \/ /\ Fails
          /\ writer' = [writer EXCEPT ![w].step = AfterError(w), ![w].event = None]
          /\ unrecorded' = TRUE
          /\ UNCHANGED changes
    /\ UNCHANGED <<fileVars, docs, session, pass, runs, restarts, missed, torn, untitled>>

(* Mutant: a generated title replaces any title.                            *)
Allowed_Latest(known, kinds) == IF "ai" \in kinds THEN "ai" ELSE "custom"

(* Tracker.Lines: a generated title never replaces a custom one.            *)
Allowed(known, kinds) == IF "custom" \in kinds \cup {known} THEN "custom" ELSE "ai"

TitlesOfCall(w) ==
    {Title(w, i) : i \in (IF w = "tail" THEN {writer[w].at} ELSE 1 .. writer[w].upto)} \ {None}

(* What one call has to write: a title of another kind than the tracker     *)
(* knows.                                                                   *)
Titles(w) == TitlesOfCall(w) # {} /\ Allowed(writer[w].title, TitlesOfCall(w)) # writer[w].title

(* History: the tailer could not write the title of its line, and will not  *)
(* try again.                                                               *)
Untitled(w) == IF w = "tail" /\ Titles(w) THEN untitled \cup {writer[w].at} ELSE untitled

(* History: a backfill that had not read the custom title, which the tailer *)
(* has written, writes another one; the tailer takes its own for stored.    *)
Covered(w) ==
    IF w = "fill" /\ writer["tail"].title = "custom" /\ "custom" \notin TitlesOfCall(w) THEN Lines ELSE untitled

(* Tracker.Lines, over the lines of one call.                               *)
SetMeta(w) ==
    /\ writer[w].step = "title"
    /\ LET r == writer[w]
           kind == Allowed(r.title, TitlesOfCall(w))
           idle(t) == writer' = [writer EXCEPT ![w] = [r EXCEPT !.step = "idle", !.title = t]]
       IN  \/ /\ ~ Titles(w) \/ ~ session.exists
              /\ idle(r.title)
              /\ untitled' = Untitled(w)
              /\ UNCHANGED <<session, errors>>
           \/ /\ Titles(w) /\ session.exists
              /\ session' = [session EXCEPT !.title = kind]
              /\ idle(kind)
              /\ untitled' = Covered(w)
              /\ UNCHANGED errors
           \/ /\ Titles(w) /\ Fails
              /\ idle(r.title)
              /\ untitled' = Untitled(w)
              /\ UNCHANGED session
    /\ UNCHANGED <<fileVars, docs, changes, pass, runs, restarts, missed, torn, unrecorded>>

-----------------------------------------------------------------------------
(* Unenriched: documents with no mark.                                      *)
Unenriched == {i \in Lines : docs[i] # None /\ docs[i].mark = "none"}

(* The oldest of them, as many as a pass takes.                             *)
IsBatch(lines) ==
    /\ Cardinality(lines) = IF Cardinality(Unenriched) < BatchLimit THEN Cardinality(Unenriched) ELSE BatchLimit
    /\ \A i \in lines, j \in Unenriched \ lines : i < j

(* runEnricher reads its batch.                                             *)
Query ==
    /\ pass = {} /\ Unenriched # {}
    /\ \E lines \in SUBSET Unenriched :
         /\ IsBatch(lines)
         /\ pass' = {[seq |-> i, line |-> docs[i].line] : i \in lines}
    /\ UNCHANGED <<fileVars, docs, session, changes, writer, faultVars, history>>

(* SetEnrichment, SetEnrichmentFailure and SetEnrichmentSkipped write to    *)
(* the document by its id, whatever line it holds by then.                  *)
Marked(d, mark, text) == [d EXCEPT !.mark = mark, !.of = text]

(* enrichDoc for the next document of the batch: done (enriched, or its     *)
(* failure recorded), skipped, or left for the next pass because the mark   *)
(* could not be written.                                                    *)
Settle ==
    /\ \E p \in pass :
         /\ \A q \in pass : p.seq <= q.seq
         /\ pass' = pass \ {p}
         /\ \/ \E mark \in {"done", "skipped"} :
                 /\ docs' = [docs EXCEPT ![p.seq] = Marked(docs[p.seq], mark, p.line)]
                 /\ UNCHANGED errors
            \/ Fails /\ UNCHANGED docs
    /\ UNCHANGED <<fileVars, session, changes, writer, runs, restarts, history>>

(* RequeueSkipped, when an enricher is switched on for the account.         *)
Requeue ==
    /\ \E i \in Lines : docs[i] # None /\ docs[i].mark = "skipped"
    /\ runs < MaxRuns /\ runs' = runs + 1
    /\ docs' = [i \in Lines |-> IF docs[i] # None /\ docs[i].mark = "skipped"
                                THEN [docs[i] EXCEPT !.mark = "none", !.of = None] ELSE docs[i]]
    /\ UNCHANGED <<fileVars, session, changes, writer, pass, restarts, errors, history>>

(* The daemon is restarted: the next event of the session starts a tailer   *)
(* at the first line.                                                       *)
Restart ==
    /\ restarts < MaxRestarts
    /\ restarts' = restarts + 1
    /\ writer' = [writer EXCEPT !["tail"] = Fresh]
    /\ pass' = {}
    /\ missed' = {} /\ torn' = {} /\ untitled' = {}
    /\ unrecorded' = (unrecorded \/ writer["tail"].step = "event")
    /\ UNCHANGED <<fileVars, docs, session, changes, runs, errors>>

Next ==
    \/ BeginLine \/ EndLine \/ UpsertSession
    \/ Deliver \/ ReadFile \/ StoreBatch \/ CheckModel
    \/ \E w \in Writers : SetModel(w) \/ RecordChange(w) \/ SetMeta(w)
    \/ Query \/ Settle \/ Requeue \/ Restart

(* The tailer polls and the enrichment loop runs for as long as the daemon  *)
(* does; nobody has to start a backfill, write a line or restart.           *)
Fairness ==
    /\ WF_vars(Deliver) /\ WF_vars(UpsertSession)
    /\ WF_vars(SetModel("tail") \/ RecordChange("tail") \/ SetMeta("tail"))
    /\ WF_vars(Query) /\ WF_vars(Settle)

Spec == Init /\ [][Next]_vars /\ Fairness

-----------------------------------------------------------------------------
(* Every line the tailer has delivered is in the store, whole and under its *)
(* own number, unless its upsert failed or a backfill that had read half of *)
(* it stored that half afterwards.                                          *)
DeliveredIsStored ==
    \A i \in Lines :
        /\ docs[i] # None => docs[i].line.n = i
        /\ i <= writer["tail"].upto /\ i \notin missed \cup torn =>
              docs[i] # None /\ docs[i].line.whole

(* An enrichment is of the line that is stored, unless that line or the one *)
(* it was made of is half a line that a backfill took: then the result stays*)
(* on the whole line.                                                       *)
EnrichedFromTheLine ==
    \A i \in Lines :
        docs[i] # None /\ docs[i].mark = "done" =>
            docs[i].of = docs[i].line \/ ~ docs[i].of.whole \/ ~ docs[i].line.whole

(* The recorded changes of the model end with the model the session has,    *)
(* and each starts where the one before ended, as long as no change was     *)
(* left unrecorded and no two writers were recording at once.               *)
ChangesLeadToModel ==
    ~ unrecorded =>
        /\ \A k \in 1 .. Len(changes) - 1 : changes[k].to = changes[k + 1].from
        /\ (\A w \in Writers : writer[w].step # "event") =>
              session.model = IF changes = <<>> THEN None ELSE changes[Len(changes)].to

(* A custom title the tailer has passed is shown: although a restarted      *)
(* tailer and a backfill write the titles of earlier lines over it, what    *)
(* they find later in the file puts it back, and what comes after it leaves *)
(* it.  Not when the tailer could not write it (the call, or the line's     *)
(* upsert, failed, or the session was not there yet), and not when a        *)
(* backfill that had read the file before that line writes after the        *)
(* tailer, which takes its own title for stored until it is restarted.      *)
CustomTitleShown ==
    writer["tail"].step = "idle" =>
        \A i \in 1 .. writer["tail"].upto : LineTitle[i] = "custom" /\ i \notin untitled => session.title = "custom"

(* Every complete line ends up in the store and out of the enrichment       *)
(* queue, unless its upsert failed under the tailer.                        *)
EveryLineSettles ==
    \A i \in Lines : written >= i ~> (i \in missed \/ (docs[i] # None /\ docs[i].mark # "none"))
=============================================================================
