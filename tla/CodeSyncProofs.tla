---------------------------- MODULE CodeSyncProofs ----------------------------
(***************************************************************************)
(* Proofs about CodeSync: its types, that the state file is true of the     *)
(* store, that no difference escapes the next run, and that a completed     *)
(* full change leaves the worktree's files. SyncInv serves the first two,   *)
(* GitInv, which relates what a run has read to the user's steps, the rest. *)
(***************************************************************************)
EXTENDS CodeSync, TLAPS

Active(r) == run[r].pc \notin {"idle", "resolved"}

Clean == known \subseteq {"raced", "switched", "toggled"}

OneRun == \A r \in Runs : Active(r) <=> lock = r

SavedHolds == Quiet /\ saved.lastFull => saved.ref \in Refs /\ TrueOf(saved, server.tree[saved.ref])

(* A run that has loaded the state: a fresh one is true of the branch's     *)
(* tree; without one the run is full, and a full run looks at every path    *)
(* that the state lists or has queued.                                      *)
ScannedHolds(w, tree) ==
    /\ w.st.lastFull => w.st.ref = w.t.ref /\ TrueOf(w.st, tree)
    /\ w.full => \A p \in Paths : w.st.files[p] # None \/ p \in w.st.pending => p \in w.cand

(* A full change is about every path that the state lists or has queued.    *)
Complete(w) ==
    \A p \in Paths : p \in DOMAIN w.file \/ p \in w.dels \/ (w.st.files[p] = None /\ p \notin w.st.pending)

(* p is in the state as the run found it.                                   *)
Agrees(w, p) == w.st.files[p] # None /\ EntryOf(w.st.files[p]) = EntryOf(w.file[p])

Apart(w) == w.dels \cap DOMAIN w.file = {}

QueuedHolds(w, tree) ==
    /\ w.st.lastFull => TrueOf(w.st, tree)
    /\ Apart(w)
    /\ w.full /\ ~ w.left => Complete(w)
    /\ \A p \in DOMAIN w.file \ w.ups : Agrees(w, p)

(* A full change under way: the tree is what was sent, and the state has    *)
(* what was sent.                                                           *)
Sent(w, tree) ==
    /\ \A p \in Paths : tree[p] = IF p \in DOMAIN w.file \ w.todo THEN EntryOf(w.file[p]) ELSE None
    /\ \A p \in w.ups \ w.todo : Agrees(w, p)

ChangeHolds(w, tree) ==
    /\ w.first \/ ~ w.full => (w.st.lastFull => TrueOf(w.st, tree))
    /\ Apart(w)
    /\ IF w.full
       THEN /\ w.todo \subseteq DOMAIN w.file
            /\ Complete(w)
            /\ \A p \in DOMAIN w.file \ w.ups : Agrees(w, p)
            /\ ~ w.first => Sent(w, tree)
            /\ w.first => w.todo = DOMAIN w.file
       ELSE w.todo \subseteq w.ups \cup w.dels

ResultHolds(w, tree) == w.st.lastFull => TrueOf(w.st, tree) /\ (~ w.queued => w.st.ref = w.t.ref)

Holds(w, tree) ==
    /\ w.pc \in {"listed", "scanned"} => ScannedHolds(w, tree)
    /\ w.pc = "queued" => QueuedHolds(w, tree)
    /\ w.pc = "commit" => ChangeHolds(w, tree)
    /\ w.pc = "save" => ResultHolds(w, tree)

(* The inductive invariant: as long as nothing came in between, the run     *)
(* that holds the lock is the only one under way, and what its state and    *)
(* its work say of the branch's tree is so.                                 *)
SyncInv ==
    /\ TypeOK
    /\ Clean => /\ OneRun
                /\ SavedHolds
                /\ \A r \in Runs : Active(r) => Holds(run[r], server.tree[run[r].t.ref])

-----------------------------------------------------------------------------
(* A run is of the kind that its pc names.                                  *)
LEMMA KindOf ==
    ASSUME NEW w \in RunState
    PROVE  /\ w.pc = "resolved" => w \in Resolved
           /\ w.pc = "listed" => w \in Listed
           /\ w.pc = "scanned" => w \in Scanned
           /\ w.pc = "queued" => w \in Hashes
           /\ w.pc = "commit" => w \in Change
           /\ w.pc = "save" => w \in Result
           /\ w.pc \notin {"resolved", "listed", "scanned", "queued", "commit", "save"} => w = Idle
<1>1. CASE w = Idle
  BY <1>1 DEF Idle
<1>2. CASE w \in Resolved
  BY <1>2 DEF Resolved
<1>3. CASE w \in Scanned
  BY <1>3 DEF Scanned
<1>4. CASE w \in Hashes
  BY <1>4 DEF Hashes
<1>5. CASE w \in Change
  BY <1>5 DEF Change
<1>6. CASE w \in Result
  BY <1>6 DEF Result
<1>7. CASE w \in Listed
  BY <1>7 DEF Listed
<1>8. QED  BY <1>7, <1>1, <1>2, <1>3, <1>4, <1>5, <1>6 DEF RunState

(* Disturb leaves a run's kind and all of it but calm.                      *)
LEMMA CalmOnly ==
    ASSUME NEW w \in RunState, w.pc # "idle"
    PROVE  /\ [w EXCEPT !.calm = FALSE] \in RunState
           /\ [w EXCEPT !.calm = FALSE].pc = w.pc
           /\ [w EXCEPT !.calm = FALSE].t = w.t
<1>1. w \notin {Idle}
  BY DEF Idle
<1>2. CASE w \in Resolved
  BY <1>2 DEF Resolved, RunState
<1>3. CASE w \in Scanned
  BY <1>3 DEF Scanned, RunState
<1>4. CASE w \in Hashes
  BY <1>4 DEF Hashes, RunState
<1>5. CASE w \in Change
  BY <1>5 DEF Change, RunState
<1>6. CASE w \in Result
  BY <1>6 DEF Result, RunState
<1>7. CASE w \in Listed
  BY <1>7 DEF Listed, RunState
<1>8. QED  BY <1>7, <1>1, <1>2, <1>3, <1>4, <1>5, <1>6 DEF RunState

LEMMA TypeInit == Init => TypeOK
<1> SUFFICES ASSUME Init PROVE TypeOK
  OBVIOUS
<1> USE CodeSyncAssumption
<1>1. PICK first : /\ first = [p \in Paths |-> IF p = CHOOSE q \in Paths : \A o \in Paths : q <= o THEN 1 ELSE 0]
                   /\ disk = [p \in Paths |-> [c |-> first[p], s |-> first[p]]]
                   /\ LET rev == [at |-> 0, tree |-> first]
                      IN  git = [ref |-> Main, head |-> [r \in Refs |-> rev], up |-> [r \in Refs |-> IF r = Main THEN rev ELSE None]]
  BY DEF Init
<1>2. first \in Tree
  BY <1>1 DEF Tree, Stamps
<1>3. disk \in Disk
  BY <1>1, <1>2 DEF Disk, Tree
<1>4. git \in [ref : Refs, head : [Refs -> Revision], up : [Refs -> Revision \cup {None}]]
  <2>1. [at |-> 0, tree |-> first] \in Revision
    BY <1>2 DEF Revision
  <2>2. QED  BY <1>1, <2>1
<1>5. server \in Store
  BY DEF Init, EmptyStore, Store, NoTree
<1>6. saved \in State
  BY DEF Init, State, ZeroState, NoTree, Stamps
<1>7. run \in [Runs -> RunState]
  BY DEF Init, RunState
<1>8. lock = None /\ known = {} /\ user \in 0 .. MaxUser /\ faults \in 0 .. MaxFaults
  BY DEF Init
<1>9. github \in BOOLEAN
  BY DEF Init
<1>10. QED  BY <1>3, <1>4, <1>5, <1>6, <1>7, <1>8, <1>9 DEF TypeOK

-----------------------------------------------------------------------------
(* The types of what a step makes of a run.                                 *)
LEMMA HeadType ==
    ASSUME TypeOK
    PROVE  Head \in Revision /\ HeadTree \in Tree /\ \A p \in Paths : HeadTree[p] \in Stamps
<1>1. Head \in Revision
  BY DEF TypeOK, Head
<1>2. HeadTree \in Tree
  BY <1>1 DEF Revision, HeadTree
<1>3. QED  BY <1>1, <1>2 DEF Tree

LEMMA FileOfType ==
    ASSUME TypeOK, NEW w \in Scanned, NEW p \in Paths, NEW sha \in Stamps
    PROVE  FileOf(w, p, sha) \in FileState
<1>1. w.stat[p].s \in Stamps
  BY DEF Scanned, Disk
<1>2. w.st.files[p] # None => w.st.files[p].oid \in Stamps /\ w.st.files[p].unpushed \in BOOLEAN
  BY DEF Scanned, State, FileState
<1>3. GitFacts(w, p).oid \in Stamps
  BY <1>2, HeadType DEF GitFacts
<1>4. GitFacts(w, p).dirty \in BOOLEAN
  BY DEF GitFacts
<1>5. GitFacts(w, p).unpushed \in BOOLEAN
  BY DEF GitFacts
<1>6. QED  BY <1>1, <1>3, <1>4, <1>5 DEF FileOf, FileState

LEMMA HashedType ==
    ASSUME TypeOK, NEW w \in Scanned, NEW p \in Paths
    PROVE  Hashed(w, p) \in FileState
<1>1. 0 \in Stamps /\ disk[p].c \in Stamps
  BY CodeSyncAssumption DEF TypeOK, Disk, Stamps
<1>2. Reused(w, p) => w.st.files[p].sha \in Stamps
  BY DEF Reused, Scanned, State, FileState
<1>3. PICK sha \in Stamps : Hashed(w, p) = FileOf(w, p, sha)
  BY <1>1, <1>2 DEF Hashed
<1>4. QED  BY <1>3, FileOfType

(* A mark changes nothing that is sent.                                     *)
LEMMA Marked ==
    ASSUME NEW f \in FileState
    PROVE  /\ [f EXCEPT !.synced = TRUE] \in FileState /\ [f EXCEPT !.synced = FALSE] \in FileState
           /\ [f EXCEPT !.synced = TRUE] # None /\ [f EXCEPT !.synced = FALSE] # None /\ f # None
           /\ ~ [f EXCEPT !.synced = FALSE].synced
           /\ EntryOf([f EXCEPT !.synced = TRUE]) = EntryOf(f)
           /\ EntryOf(f) \in Entry
<1>1. [f EXCEPT !.synced = TRUE] \in FileState /\ [f EXCEPT !.synced = FALSE] \in FileState
  BY DEF FileState
<1>2. ~ [f EXCEPT !.synced = FALSE].synced
  BY DEF FileState
<1>3. EntryOf([f EXCEPT !.synced = TRUE]) = EntryOf(f)
  BY DEF FileState, EntryOf
<1>4. EntryOf(f) \in Entry
  BY CodeSyncAssumption DEF FileState, EntryOf, Entry, Stamps
<1>5. QED  BY <1>1, <1>2, <1>3, <1>4, NoneIsNothingElse

LEMMA FilesOver ==
    ASSUME NEW ps, ps \subseteq Paths, NEW f \in [ps -> FileState]
    PROVE  f \in Files
<1>1. ps \in SUBSET Paths
  OBVIOUS
<1>2. QED  BY <1>1 DEF Files

LEMMA RefreshedType ==
    ASSUME NEW w \in Listed \cup Scanned, NEW file \in Files, NEW seen
    PROVE  /\ Refreshed(w, file, seen) \in State
           /\ Refreshed(w, file, seen).pending = w.st.pending
<1> DEFINE same == Same(w, file)
           files == [p \in Paths |-> IF p \in same THEN [file[p] EXCEPT !.synced = TRUE] ELSE w.st.files[p]]
           refused == [p \in Paths |-> IF p \in seen /\ ~ LeftToGitHub(w, p) /\ ~ Refused(w, p) THEN 0
                                       ELSE w.st.refused[p]]
<1>1. DOMAIN file \subseteq Paths /\ \A p \in DOMAIN file : file[p] \in FileState
  BY DEF Files
<1>2. same \subseteq DOMAIN file
  BY DEF Same
<1>3. w.st \in State
  BY DEF Scanned, Listed
<1>4. files \in [Paths -> FileState \cup {None}]
  <2>1. ASSUME NEW p \in Paths PROVE files[p] \in FileState \cup {None}
    BY <1>1, <1>2, <1>3, Marked DEF State
  <2>2. QED  BY <2>1
<1>5. refused \in [Paths -> Stamps]
  BY <1>3, CodeSyncAssumption DEF State, Stamps
<1>6. Refreshed(w, file, seen) = [w.st EXCEPT !.files = files, !.refused = refused]
  BY <1>3 DEF Refreshed, State
<1> HIDE DEF files, refused
<1>7. QED  BY <1>3, <1>4, <1>5, <1>6 DEF State

LEMMA QueuedType ==
    ASSUME NEW w \in Scanned, NEW later, later \subseteq Paths, NEW file \in Files
    PROVE  Queued(w, later, file) \in Hashes
<1> DEFINE same == Same(w, file)
           ups == DOMAIN file \ same
           pending == (w.st.pending \ w.cand) \cup Owed(later, ups, Gone(w))
           done == Refreshed(w, file, Present(w))
           st == [done EXCEPT !.pending = pending]
<1>1. DOMAIN file \subseteq Paths /\ \A p \in DOMAIN file : file[p] \in FileState
  BY DEF Files
<1>2. same \subseteq DOMAIN file /\ Gone(w) \subseteq Paths /\ Read(w) \subseteq Paths
  BY DEF Same, Gone, Read, Present, Scanned
<1>3. done \in State /\ done.pending = w.st.pending
  BY RefreshedType
<1>4. pending \subseteq Paths
  BY <1>1, <1>2 DEF Owed, Scanned, State
<1>5. (later # {}) \in BOOLEAN
  OBVIOUS
<1>6. Queued(w, later, file) = [pc |-> "queued", calm |-> w.calm, t |-> w.t, full |-> w.full, left |-> later # {},
                                file |-> file, ups |-> ups, dels |-> Gone(w), read |-> Read(w) \cap ups, st |-> st]
  BY <1>3 DEF Queued
<1> HIDE DEF pending, done
<1>7. st \in State
  BY <1>3, <1>4 DEF State
<1> HIDE DEF st, same
<1>8. QED  BY <1>1, <1>2, <1>5, <1>6, <1>7 DEF Hashes, Scanned

LEMMA UploadedType ==
    ASSUME NEW w \in Hashes, NEW unsent, NEW refused
    PROVE  Uploaded(w, unsent, refused) \in Change
<1> DEFINE kept == {p \in w.ups : w.file[p].sha \notin unsent}
           large == {p \in kept : w.file[p].sha \in refused}
           full == w.full /\ ~ w.left /\ kept = w.ups
           file == [p \in DOMAIN w.file |-> IF p \in large THEN [w.file[p] EXCEPT !.sha = 0] ELSE w.file[p]]
           refusals == [p \in Paths |-> IF p \in large THEN w.file[p].stamp ELSE w.st.refused[p]]
           st == [w.st EXCEPT !.refused = refusals]
           todo == IF full THEN DOMAIN w.file ELSE kept \cup w.dels
<1>1. DOMAIN w.file \subseteq Paths /\ \A p \in DOMAIN w.file : w.file[p] \in FileState
  BY DEF Hashes, Files
<1>2. file \in Files
  <2>1. ASSUME NEW p \in DOMAIN w.file PROVE file[p] \in FileState
    <3>1. [w.file[p] EXCEPT !.sha = 0] \in FileState
      BY <1>1, CodeSyncAssumption DEF FileState, Stamps
    <3>2. file[p] = w.file[p] \/ file[p] = [w.file[p] EXCEPT !.sha = 0]
      OBVIOUS
    <3>3. w.file[p] \in FileState
      BY <1>1
    <3> HIDE DEF file
    <3>4. QED  BY <3>1, <3>2, <3>3
  <2>2. file \in [DOMAIN w.file -> FileState]
    BY <2>1
  <2>3. QED  BY <2>2, <1>1, FilesOver
<1>3. kept \subseteq Paths /\ w.dels \subseteq Paths
  BY DEF Hashes
<1>4. w.st \in State
  BY DEF Hashes
<1>5. refusals \in [Paths -> Stamps]
  <2>1. ASSUME NEW p \in Paths PROVE refusals[p] \in Stamps
    <3>1. CASE p \in large /\ p \in DOMAIN w.file
      BY <3>1, <1>1 DEF FileState
    <3>2. CASE p \notin large
      BY <3>2, <1>4 DEF State
    <3>3. CASE p \in large /\ p \notin DOMAIN w.file
      BY <3>3 DEF Hashes
    <3>4. QED  BY <3>1, <3>2, <3>3
  <2>2. QED  BY <2>1
<1>6. full \in BOOLEAN /\ kept \subseteq DOMAIN file
  BY DEF Hashes
<1>7. todo \subseteq Paths
  BY <1>1, <1>3
<1>8. Uploaded(w, unsent, refused) = [pc |-> "commit", calm |-> w.calm, t |-> w.t, full |-> full, first |-> TRUE,
                                      file |-> file, ups |-> kept, dels |-> w.dels, todo |-> todo, st |-> st]
  BY DEF Uploaded
<1> HIDE DEF file, full, kept, todo, refusals
<1>9. st \in State
  BY <1>4, <1>5 DEF State
<1> HIDE DEF st
<1>10. QED  BY <1>2, <1>3, <1>6, <1>7, <1>8, <1>9 DEF Change, Hashes

LEMMA SetGitHubType ==
    ASSUME NEW st \in State, NEW on \in BOOLEAN
    PROVE  SetGitHub(st, on) \in State
<1> DEFINE without == [p \in Paths |-> IF st.files[p] # None /\ Omitted(st.files[p])
                                        THEN [st.files[p] EXCEPT !.stamp = 0, !.synced = FALSE] ELSE st.files[p]]
           files == IF st.github /\ ~ on THEN without ELSE st.files
<1>1. ASSUME NEW f \in FileState PROVE [f EXCEPT !.stamp = 0, !.synced = FALSE] \in FileState
  <2>1. 0 \in Stamps
    BY CodeSyncAssumption DEF Stamps
  <2>2. QED  BY <2>1 DEF FileState
<1>2. without \in [Paths -> FileState \cup {None}]
  <2>1. ASSUME NEW p \in Paths PROVE without[p] \in FileState \cup {None}
    BY <1>1 DEF State
  <2>2. QED  BY <2>1
<1>3. SetGitHub(st, on) = [st EXCEPT !.github = on, !.files = files]
  BY DEF SetGitHub
<1> HIDE DEF without
<1>4. files \in [Paths -> FileState \cup {None}]
  BY <1>2 DEF State
<1> HIDE DEF files
<1>5. QED  BY <1>3, <1>4 DEF State

LEMMA RecordedType ==
    ASSUME NEW w \in Change
    PROVE  Recorded(w) \in State /\ Finished(w, Recorded(w)) \in State
<1> DEFINE files == [p \in Paths |-> IF p \in Chunk(w) \cap w.ups THEN [w.file[p] EXCEPT !.synced = TRUE]
                                     ELSE IF p \in Deletes(w) THEN None ELSE w.st.files[p]]
           pending == w.st.pending \ ((Chunk(w) \cap w.ups) \cup Deletes(w))
<1>1. w.st \in State /\ w.ups \subseteq DOMAIN w.file /\ \A p \in DOMAIN w.file : w.file[p] \in FileState
  BY DEF Change, Files
<1>2. files \in [Paths -> FileState \cup {None}]
  <2>1. ASSUME NEW p \in Paths PROVE files[p] \in FileState \cup {None}
    BY <1>1, Marked DEF State
  <2>2. QED  BY <2>1
<1>3. pending \subseteq Paths
  BY <1>1 DEF State
<1>4. Recorded(w) = [w.st EXCEPT !.files = files, !.pending = pending]
  BY <1>1 DEF Recorded, State
<1> HIDE DEF files, pending
<1>5. Recorded(w) \in State
  BY <1>1, <1>2, <1>3, <1>4 DEF State
<1>6. ASSUME NEW st \in State PROVE Finished(w, st) \in State
  <2> DEFINE left == [p \in Paths |-> IF p \in w.dels THEN None ELSE st.files[p]]
             owed == st.pending \ w.dels
  <2>1. left \in [Paths -> FileState \cup {None}] /\ owed \subseteq Paths
    BY DEF State
  <2>2. Finished(w, st) = st \/ Finished(w, st) = [st EXCEPT !.files = left, !.pending = owed, !.lastFull = TRUE]
    BY DEF Finished, State
  <2> HIDE DEF left, owed
  <2>3. QED  BY <2>1, <2>2 DEF State
<1>7. QED  BY <1>5, <1>6

LEMMA ConflictedType ==
    ASSUME NEW w \in Change, NEW lacking, lacking \subseteq Paths
    PROVE  Conflicted(w, lacking) \in State
<1> DEFINE files == [p \in Paths |-> IF p \in lacking /\ w.st.files[p] # None
                                     THEN [w.st.files[p] EXCEPT !.synced = FALSE] ELSE w.st.files[p]]
           pending == w.st.pending \cup lacking
<1>1. w.st \in State
  BY DEF Change
<1>2. files \in [Paths -> FileState \cup {None}]
  <2>1. ASSUME NEW p \in Paths PROVE files[p] \in FileState \cup {None}
    BY <1>1, Marked DEF State
  <2>2. QED  BY <2>1
<1>3. pending \subseteq Paths
  BY <1>1 DEF State
<1>4. Conflicted(w, lacking) = [w.st EXCEPT !.files = files, !.pending = pending]
  BY <1>1 DEF Conflicted, State
<1> HIDE DEF files, pending
<1>5. QED  BY <1>1, <1>2, <1>3, <1>4 DEF State

LEMMA EndedType ==
    ASSUME NEW w \in Hashes \cup Change, NEW st \in State
    PROVE  Ended(w, st) \in Result
BY DEF Ended, Hashes, Change, Result

-----------------------------------------------------------------------------
(* The store after a batch: the branch's tree, path by path.                *)
LEMMA CommittedTree ==
    ASSUME TypeOK, NEW w \in Change
    PROVE  /\ Committed(w) \in Store
           /\ \A p \in Paths : Committed(w).tree[w.t.ref][p] =
                IF p \in Chunk(w) \cap DOMAIN w.file THEN EntryOf(w.file[p])
                ELSE IF (w.full /\ w.first) \/ p \in Deletes(w) THEN None ELSE server.tree[w.t.ref][p]
<1> DEFINE full == w.full /\ w.first
           old == server.tree[w.t.ref]
           tree == [p \in Paths |-> IF p \in DOMAIN Upserts(w) THEN Upserts(w)[p]
                                    ELSE IF full \/ p \in Deletes(w) THEN None ELSE old[p]]
<1>1. server \in Store /\ w.t.ref \in Refs /\ PutWorktree(server) \in Store /\ PutWorktree(server).tree = server.tree
  BY DEF TypeOK, Store, PutWorktree, Change, Target
<1>2. DOMAIN Upserts(w) = Chunk(w) \cap DOMAIN w.file /\ \A p \in DOMAIN Upserts(w) : Upserts(w)[p] = EntryOf(w.file[p])
  BY DEF Upserts
<1>3. \A p \in DOMAIN w.file : EntryOf(w.file[p]) \in Entry
  <2>1. \A p \in DOMAIN w.file : w.file[p] \in FileState
    BY DEF Change, Files
  <2>2. QED  BY <2>1, Marked
<1>4. old \in [Paths -> Entry \cup {None}]
  BY <1>1 DEF Store
<1>5. tree \in [Paths -> Entry \cup {None}]
  <2>1. ASSUME NEW p \in Paths PROVE tree[p] \in Entry \cup {None}
    BY <1>2, <1>3, <1>4
  <2>2. QED  BY <2>1
<1>6. Committed(w) = [PutWorktree(server) EXCEPT !.tree = [server.tree EXCEPT ![w.t.ref] = tree]]
  BY <1>1 DEF Committed, Commit, Store
<1>7. \A p \in Paths : tree[p] =
        IF p \in Chunk(w) \cap DOMAIN w.file THEN EntryOf(w.file[p])
        ELSE IF full \/ p \in Deletes(w) THEN None ELSE old[p]
  BY <1>2
<1> HIDE DEF tree, old, full
<1>8. Committed(w) \in Store /\ Committed(w).tree[w.t.ref] = tree
  BY <1>1, <1>5, <1>6 DEF Store
<1>9. QED  BY <1>7, <1>8 DEF old, full

LEMMA FaultCounts == TypeOK /\ Fault => faults' \in 0 .. MaxFaults
BY CodeSyncAssumption DEF TypeOK, Fault

LEMMA FailedType ==
    ASSUME NEW w, w.calm \in BOOLEAN, w.t \in Target, NEW st \in State
    PROVE  Failed(w, st) \in Result
BY DEF Failed, Result

LEMMA ScanType ==
    ASSUME TypeOK, NEW r \in Runs, Scan(r)
    PROVE  TypeOK'
<1> DEFINE w == run[r]
           full == Full(saved, w.t, w.req)
           base == IF saved.ref # w.t.ref THEN [saved EXCEPT !.lastFull = FALSE] ELSE saved
           st == IF full THEN SetGitHub(base, github) ELSE base
           turned == st.github # base.github
           headMoved == saved.ref # w.t.ref \/ saved.head # w.t.head
           upMoved == saved.ref # w.t.ref \/ saved.head # w.t.head \/ saved.up # w.t.up
           cand == Candidates(saved, w.t, w.req, full)
           next == [pc |-> "listed", calm |-> w.calm, t |-> w.t, st |-> st, full |-> full, cand |-> cand,
                    dirty |-> Changed, listed |-> FileList, turned |-> turned, headMoved |-> headMoved, upMoved |-> upMoved]
<1>1. w \in Resolved
  BY KindOf DEF TypeOK, Scan
<1>2. base \in State
  BY DEF TypeOK, State
<1>3. st \in State
  BY <1>2, SetGitHubType DEF TypeOK
<1>4. full \in BOOLEAN /\ turned \in BOOLEAN /\ headMoved \in BOOLEAN /\ upMoved \in BOOLEAN
  BY DEF Full
<1>5. Changed \subseteq Paths /\ StatusPaths \subseteq Paths /\ FileList \subseteq Paths
  BY DEF Changed, StatusPaths, FileList
<1>6. cand \subseteq Paths
  BY <1>1, <1>5 DEF Candidates, Resolved, TypeOK, State
<1>7. \A b \in BOOLEAN : [base EXCEPT !.backedOff = b] \in State
  BY <1>2 DEF State
<1>8. \/ run' = [run EXCEPT ![r] = Idle] \/ run' = [run EXCEPT ![r] = next]
      \/ run' = [run EXCEPT ![r] = Failed(w, st)]
      \/ \E b \in BOOLEAN : run' = [run EXCEPT ![r] = Failed(w, [base EXCEPT !.backedOff = b])]
  BY DEF Scan
<1> HIDE DEF full, base, st, turned, headMoved, upMoved, cand
<1>9. next \in Listed
  BY <1>1, <1>3, <1>4, <1>5, <1>6 DEF Listed, Resolved
<1>10. w.calm \in BOOLEAN /\ w.t \in Target
  BY <1>1 DEF Resolved
<1>11. Failed(w, st) \in Result /\ \A b \in BOOLEAN : Failed(w, [base EXCEPT !.backedOff = b]) \in Result
  BY <1>3, <1>7, <1>10, FailedType
<1> HIDE DEF next, w
<1>12. run' \in [Runs -> RunState]
  BY <1>8, <1>9, <1>11 DEF TypeOK, RunState
<1>13. lock' \in Runs \cup {None, "dead"} /\ faults' \in 0 .. MaxFaults
  <2>1. (lock' = None \/ lock' = r) /\ (faults' = faults \/ Fault)
    BY DEF Scan
  <2>2. QED  BY <2>1, FaultCounts DEF TypeOK
<1>14. known' \subseteq Reasons
  BY DEF Scan, Overtaken, Toggled, TypeOK, Reasons
<1>15. QED  BY <1>12, <1>13, <1>14 DEF Scan, TypeOK

LEMMA LookType ==
    ASSUME TypeOK, NEW r \in Runs, Look(r)
    PROVE  TypeOK'
<1>1. run[r] \in Listed /\ disk \in Disk
  BY KindOf DEF TypeOK, Look
<1>2. WithStat(run[r]) \in Scanned
  BY <1>1 DEF WithStat, Listed, Scanned
<1>3. run' \in [Runs -> RunState]
  BY <1>2 DEF Look, TypeOK, RunState
<1>4. QED  BY <1>3 DEF Look, TypeOK

LEMMA DisturbType ==
    ASSUME TypeOK, Disturb
    PROVE  run' \in [Runs -> RunState]
<1>1. ASSUME NEW r \in Runs PROVE run'[r] \in RunState
  BY CalmOnly DEF TypeOK, Disturb
<1>2. QED  BY <1>1 DEF Disturb

LEMMA UserType ==
    ASSUME TypeOK, UserStep
    PROVE  TypeOK'
<1> USE CodeSyncAssumption
<1>1. user + 2 \in Stamps /\ 0 \in Stamps /\ user' \in 0 .. MaxUser
  BY DEF UserStep, TypeOK, Stamps
<1>2. Head \in Revision /\ HeadTree \in Tree /\ Contents \in Tree /\ \A p \in Paths : HeadTree[p] \in Stamps /\ disk[p] \in [c : Stamps, s : Stamps]
  BY HeadType DEF TypeOK, Disk, Contents, Tree
<1>3. \A p \in Paths : \A c \in Stamps : Written(p, c) => disk' \in Disk
  BY <1>1, <1>2 DEF Written, TypeOK, Disk
<1>4. disk' \in Disk
  <2>1. CASE UNCHANGED disk
    BY <2>1 DEF TypeOK
  <2>2. CASE \E p \in Paths : Written(p, user + 2)
    BY <2>2, <1>1, <1>3
  <2>3. CASE \E p \in Paths : Written(p, 0)
    BY <2>3, <1>1, <1>3
  <2>4. CASE \E p \in Paths : Written(p, HeadTree[p])
    BY <2>4, <1>2, <1>3
  <2>5. ASSUME NEW r \in Refs,
               disk' = [p \in Paths |-> IF git.head[r].tree[p] = disk[p].c THEN disk[p]
                                        ELSE [c |-> git.head[r].tree[p], s |-> IF git.head[r].tree[p] = 0 THEN 0 ELSE user + 2]]
        PROVE  disk' \in Disk
    <3>1. git.head[r] \in Revision
      BY DEF TypeOK
    <3>2. \A p \in Paths : git.head[r].tree[p] \in Stamps
      BY <3>1 DEF Revision, Tree
    <3>3. ASSUME NEW p \in Paths PROVE disk'[p] \in [c : Stamps, s : Stamps]
      BY <2>5, <3>2, <1>1, <1>2
    <3>4. QED  BY <2>5, <3>3 DEF Disk
  <2>6. QED  BY <2>1, <2>2, <2>3, <2>4, <2>5 DEF UserStep
<1>5. git' \in [ref : Refs, head : [Refs -> Revision], up : [Refs -> Revision \cup {None}]]
  <2>1. \/ git' = git
        \/ git' = [git EXCEPT !.head[git.ref] = [at |-> user + 1, tree |-> Contents]]
        \/ git' = [git EXCEPT !.up[git.ref] = Head]
        \/ \E r \in Refs : git' = [git EXCEPT !.ref = r]
    BY DEF UserStep
  <2>2. [at |-> user + 1, tree |-> Contents] \in Revision
    BY <1>1, <1>2 DEF UserStep, Revision
  <2>3. QED  BY <2>1, <2>2, <1>2 DEF TypeOK
<1>6. known' \subseteq Reasons
  BY DEF UserStep, TypeOK, Reasons
<1>7. run' \in [Runs -> RunState]
  BY DisturbType DEF UserStep
<1>8. UNCHANGED <<server, github, saved, lock, faults>>
  BY DEF UserStep
<1>9. QED  BY <1>1, <1>4, <1>5, <1>6, <1>7, <1>8 DEF TypeOK

LEMMA RemoveWorktreeType == TypeOK => RemoveWorktree(server) \in Store
BY DEF TypeOK, RemoveWorktree, Store, NoTree

LEMMA WorldType ==
    ASSUME TypeOK, Later \/ Purge \/ ToggleGitHub \/ RemoveRun
    PROVE  TypeOK'
<1> USE CodeSyncAssumption
<1>1. CASE Later
  <2>1. \A b, c \in BOOLEAN : [saved EXCEPT !.lastFull = FALSE, !.backedOff = @ /\ ~ c] \in State
    BY DEF TypeOK, State
  <2>2. saved' \in State
    BY <1>1, <2>1 DEF Later
  <2>3. QED  BY <1>1, <2>2 DEF Later, TypeOK
<1>2. CASE Purge
  <2>1. EmptyStore \in Store
    BY DEF EmptyStore, Store, NoTree
  <2>2. run' \in [Runs -> RunState] /\ faults' \in 0 .. MaxFaults
    BY <1>2, DisturbType, FaultCounts DEF Purge
  <2>3. QED  BY <1>2, <2>1, <2>2 DEF Purge, TypeOK, Reasons
<1>3. CASE ToggleGitHub
  <2>1. run' \in [Runs -> RunState]
    BY <1>3, DisturbType DEF ToggleGitHub
  <2>2. user' \in 0 .. MaxUser
    BY <1>3 DEF ToggleGitHub, TypeOK
  <2>3. github' \in BOOLEAN
    BY <1>3 DEF ToggleGitHub
  <2>4. QED  BY <1>3, <2>1, <2>2, <2>3 DEF ToggleGitHub, TypeOK
<1>4. CASE RemoveRun
  <2>1. run' \in [Runs -> RunState]
    BY <1>4, DisturbType DEF RemoveRun
  <2>2. user' \in 0 .. MaxUser
    BY <1>4 DEF RemoveRun, TypeOK
  <2>3. faults' \in 0 .. MaxFaults
    <3>1. faults' = faults \/ Fault
      BY <1>4 DEF RemoveRun
    <3>2. QED  BY <3>1, FaultCounts DEF TypeOK
  <2>4. ZeroState \in State
    BY DEF ZeroState, State, NoTree, Stamps
  <2>5. saved' \in State
    BY <1>4, <2>4 DEF RemoveRun, TypeOK
  <2>6. server' \in Store
    BY <1>4, RemoveWorktreeType DEF RemoveRun, TypeOK
  <2>7. known' \subseteq Reasons
    BY <1>4 DEF RemoveRun, TypeOK, Overtaken, Reasons
  <2>8. QED  BY <1>4, <2>1, <2>2, <2>3, <2>5, <2>6, <2>7 DEF RemoveRun, TypeOK
<1>5. QED  BY <1>1, <1>2, <1>3, <1>4

(* What a step makes of the run that takes it, as far as types go.          *)
LEMMA RunType ==
    ASSUME TypeOK, NEW r \in Runs, NEW next \in RunState, run' = [run EXCEPT ![r] = next]
    PROVE  run' \in [Runs -> RunState]
BY DEF TypeOK

LEMMA HashType ==
    ASSUME TypeOK, NEW r \in Runs, NEW later \in SUBSET Paths, Hash(r, later)
    PROVE  TypeOK'
<1> DEFINE w == run[r]
           file == [p \in Present(w) \ later |-> Hashed(w, p)]
<1>1. w \in Scanned
  BY KindOf DEF TypeOK, Hash
<1>2. file \in Files
  <2>1. Present(w) \ later \subseteq Paths
    BY <1>1 DEF Present, Scanned
  <2>2. \A p \in Present(w) \ later : Hashed(w, p) \in FileState
    BY <1>1, <2>1, HashedType
  <2>3. file \in [Present(w) \ later -> FileState]
    BY <2>2
  <2>4. QED  BY <2>1, <2>3, FilesOver
<1>3. run' = [run EXCEPT ![r] = Queued(w, later, file)]
  BY DEF Hash
<1> HIDE DEF w, file
<1>4. Queued(w, later, file) \in RunState
  BY <1>1, <1>2, QueuedType DEF RunState
<1>5. run' \in [Runs -> RunState]
  BY <1>3, <1>4, RunType
<1>6. QED  BY <1>5 DEF Hash, TypeOK

LEMMA HashFailsType ==
    ASSUME TypeOK, NEW r \in Runs, NEW p \in Paths, NEW later \in SUBSET Paths, HashFails(r, p, later)
    PROVE  TypeOK'
<1> DEFINE w == run[r]
           done == {q \in Present(w) : q < p}
           file == [q \in done \ later |-> Hashed(w, q)]
<1>1. w \in Scanned
  BY KindOf DEF TypeOK, HashFails
<1>2. file \in Files
  <2>1. done \ later \subseteq Paths
    BY <1>1 DEF Present, Scanned
  <2>2. \A q \in done \ later : Hashed(w, q) \in FileState
    BY <1>1, <2>1, HashedType
  <2>3. file \in [done \ later -> FileState]
    BY <2>2
  <2>4. QED  BY <2>1, <2>3, FilesOver
<1>3. run' = [run EXCEPT ![r] = Failed(w, Refreshed(w, file, done))]
  BY DEF HashFails
<1>4. w.calm \in BOOLEAN /\ w.t \in Target
  BY <1>1 DEF Scanned
<1> HIDE DEF w, file, done
<1>5. Failed(w, Refreshed(w, file, done)) \in RunState
  BY <1>1, <1>2, <1>4, RefreshedType, FailedType DEF RunState
<1>6. run' \in [Runs -> RunState]
  BY <1>3, <1>5, RunType
<1>7. faults' \in 0 .. MaxFaults
  BY FaultCounts DEF HashFails
<1>8. known' \subseteq Reasons
  BY DEF HashFails, Toggled, TypeOK, Reasons
<1>9. QED  BY <1>6, <1>7, <1>8 DEF HashFails, TypeOK

LEMMA UploadType ==
    ASSUME TypeOK, NEW r \in Runs, NEW unsent \in SUBSET Stamps, Upload(r, unsent)
    PROVE  TypeOK'
<1> DEFINE w == run[r]
           sv == IF w.full THEN PutWorktree(server) ELSE server
           missing == MissingBlobs(sv, {w.file[p].sha : p \in w.read} \ {0})
           refused == (missing \ unsent) \cap TooLarge
<1>1. w \in Hashes
  BY KindOf DEF TypeOK, Upload
<1>2. sv \in Store
  BY DEF TypeOK, PutWorktree, Store
<1>3. missing \subseteq Nat
  <2>1. \A p \in w.read : w.file[p] \in FileState
    BY <1>1 DEF Hashes, Files
  <2>2. \A p \in w.read : w.file[p].sha \in Nat
    BY <2>1, CodeSyncAssumption DEF FileState, Stamps
  <2>3. QED  BY <2>2 DEF MissingBlobs
<1>4. \A sent \in SUBSET missing : PutBlobs(sv, sent) \in Store
  BY <1>2, <1>3 DEF PutBlobs, Store
<1>5. server' \in Store
  <2>1. \E sent \in SUBSET missing : server' = PutBlobs(sv, sent)
    <3>1. server' = PutBlobs(sv, missing \ (unsent \cup refused)) \/ \E sent \in SUBSET (missing \ TooLarge) : server' = PutBlobs(sv, sent)
      BY DEF Upload
    <3> HIDE DEF missing, refused, sv
    <3>2. QED  BY <3>1
  <2>2. QED  BY <2>1, <1>4
<1>6. faults' \in 0 .. MaxFaults
  <2>1. faults' = faults \/ Fault
    BY DEF Upload
  <2>2. QED  BY <2>1, FaultCounts DEF TypeOK
<1>7. run' \in [Runs -> RunState]
  <2>1. run' = [run EXCEPT ![r] = Uploaded(w, unsent, refused)]
        \/ \E b \in BOOLEAN : run' = [run EXCEPT ![r] = Ended(w, [w.st EXCEPT !.backedOff = b])]
    BY DEF Upload
  <2> HIDE DEF w, refused
  <2>2. Uploaded(w, unsent, refused) \in RunState
    BY <1>1, UploadedType DEF RunState
  <2>3. ASSUME NEW b \in BOOLEAN PROVE Ended(w, [w.st EXCEPT !.backedOff = b]) \in RunState
    <3>1. [w.st EXCEPT !.backedOff = b] \in State
      BY <1>1 DEF Hashes, State
    <3>2. QED  BY <3>1, <1>1, EndedType DEF RunState
  <2>4. CASE run' = [run EXCEPT ![r] = Uploaded(w, unsent, refused)]
    BY <2>2, <2>4, RunType
  <2>5. ASSUME NEW b \in BOOLEAN, run' = [run EXCEPT ![r] = Ended(w, [w.st EXCEPT !.backedOff = b])]
        PROVE  run' \in [Runs -> RunState]
    BY <2>3, <2>5, RunType
  <2>6. QED  BY <2>1, <2>4, <2>5
<1>8. QED  BY <1>5, <1>6, <1>7 DEF Upload, TypeOK

(* How a batch may end: it is taken and the state records it, it is refused *)
(* for a blob the server lacks, it fails, or only its answer is lost.       *)
Taken(r) ==
    LET w == run[r]
    IN  /\ server' = Committed(w) /\ known' = known
        /\ \/ /\ w.todo \ Chunk(w) = {}
              /\ run' = [run EXCEPT ![r] = Ended(w, Finished(w, Recorded(w)))]
           \/ /\ w.todo \ Chunk(w) # {}
              /\ run' = [run EXCEPT ![r] = [w EXCEPT !.first = FALSE, !.todo = w.todo \ Chunk(w), !.st = Recorded(w)]]

Conflict(r) ==
    /\ server' = PutWorktree(server) /\ known' = Cut(run[r], ~ run[r].first)
    /\ \E lacking \in SUBSET Paths : run' = [run EXCEPT ![r] = Ended(run[r], Conflicted(run[r], lacking))]

CallFails(r) ==
    /\ server' = server /\ known' = Cut(run[r], ~ run[r].first)
    /\ \E b \in BOOLEAN : run' = [run EXCEPT ![r] = Ended(run[r], [run[r].st EXCEPT !.backedOff = b])]

AnswerLost(r) ==
    /\ server' = Committed(run[r]) /\ known' = Cut(run[r], TRUE) \cup {"lost"}
    /\ run' = [run EXCEPT ![r] = Ended(run[r], run[r].st)]

LEMMA Outcomes ==
    ASSUME NEW r \in Runs, CommitBatch(r), run[r] \in Change
    PROVE  /\ Taken(r) \/ Conflict(r) \/ CallFails(r) \/ AnswerLost(r)
           /\ faults' = faults \/ Fault
           /\ UNCHANGED <<disk, git, github, saved, lock, user>>
<1> DEFINE w == run[r]
           sv == PutWorktree(server)
           with == {p \in DOMAIN Upserts(w) : Upserts(w)[p].sha # 0}
           lacking == {p \in with : Upserts(w)[p].sha \notin sv.blobs}
<1>1. with \in SUBSET Paths /\ lacking \in SUBSET Paths
  BY DEF Upserts, Chunk, Change
<1>2. \/ Taken(r)
      \/ /\ server' = sv /\ known' = Cut(w, ~ w.first)
         /\ \/ run' = [run EXCEPT ![r] = Ended(w, Conflicted(w, lacking))]
            \/ run' = [run EXCEPT ![r] = Ended(w, Conflicted(w, with))]
      \/ CallFails(r)
      \/ AnswerLost(r)
  BY DEF CommitBatch, Taken, CallFails, AnswerLost
<1> HIDE DEF with, lacking
<1>3. QED  BY <1>1, <1>2 DEF CommitBatch, Conflict

LEMMA CommitType ==
    ASSUME TypeOK, NEW r \in Runs, CommitBatch(r)
    PROVE  TypeOK'
<1> DEFINE w == run[r]
<1>1. w \in Change
  BY KindOf DEF TypeOK, CommitBatch
<1>2. /\ Taken(r) \/ Conflict(r) \/ CallFails(r) \/ AnswerLost(r)
      /\ faults' = faults \/ Fault
      /\ UNCHANGED <<disk, git, github, saved, lock, user>>
  BY <1>1, Outcomes
<1>3. Committed(w) \in Store /\ PutWorktree(server) \in Store /\ server \in Store
  BY <1>1, CommittedTree DEF TypeOK, PutWorktree, Store
<1>4. server' \in Store
  BY <1>2, <1>3 DEF Taken, Conflict, CallFails, AnswerLost
<1>5. known' \subseteq Reasons
  BY <1>2 DEF Taken, Conflict, CallFails, AnswerLost, Cut, TypeOK, Reasons
<1>6. faults' \in 0 .. MaxFaults
  BY <1>2, FaultCounts DEF TypeOK
<1>7. \A st \in State : Ended(w, st) \in RunState
  BY <1>1, EndedType DEF RunState
<1>8. Recorded(w) \in State /\ Finished(w, Recorded(w)) \in State /\ w.st \in State
  BY <1>1, RecordedType DEF Change
<1>9. run' \in [Runs -> RunState]
  <2>1. CASE Taken(r)
    <3>1. [w EXCEPT !.first = FALSE, !.todo = w.todo \ Chunk(w), !.st = Recorded(w)] \in RunState
      <4>1. w.todo \ Chunk(w) \subseteq Paths
        BY <1>1 DEF Change
      <4>2. QED  BY <1>1, <1>8, <4>1 DEF Change, RunState
    <3>2. Ended(w, Finished(w, Recorded(w))) \in RunState
      BY <1>7, <1>8
    <3>3. \E next \in RunState : run' = [run EXCEPT ![r] = next]
      BY <2>1, <3>1, <3>2 DEF Taken
    <3>4. QED  BY <3>3, RunType
  <2>2. CASE Conflict(r)
    <3>1. PICK lacking \in SUBSET Paths : run' = [run EXCEPT ![r] = Ended(w, Conflicted(w, lacking))]
      BY <2>2 DEF Conflict
    <3>2. Ended(w, Conflicted(w, lacking)) \in RunState
      BY <1>1, <1>7, ConflictedType
    <3>3. QED  BY <3>1, <3>2, RunType
  <2>3. CASE CallFails(r)
    <3>1. PICK b \in BOOLEAN : run' = [run EXCEPT ![r] = Ended(w, [w.st EXCEPT !.backedOff = b])]
      BY <2>3 DEF CallFails
    <3>2. [w.st EXCEPT !.backedOff = b] \in State
      BY <1>8 DEF State
    <3>3. Ended(w, [w.st EXCEPT !.backedOff = b]) \in RunState
      BY <3>2, <1>7
    <3>4. QED  BY <3>1, <3>3, RunType
  <2>4. CASE AnswerLost(r)
    BY <2>4, <1>7, <1>8, RunType DEF AnswerLost
  <2>5. QED  BY <1>2, <2>1, <2>2, <2>3, <2>4
<1>10. QED  BY <1>2, <1>4, <1>5, <1>6, <1>9 DEF TypeOK

LEMMA OtherStepType ==
    ASSUME TypeOK, NEW r \in Runs,
           Skip(r) \/ NothingToCommit(r) \/ Save(r) \/ Crash(r) \/ \E req \in Requests : Resolve(r, req)
    PROVE  TypeOK'
<1>1. Idle \in RunState
  BY DEF RunState
<1>2. CASE Skip(r)
  <2>1. run' \in [Runs -> RunState]
    BY <1>1, <1>2, RunType DEF Skip
  <2>2. QED  BY <1>2, <2>1 DEF Skip, TypeOK
<1>3. CASE NothingToCommit(r)
  <2>1. run[r] \in Change
    BY <1>3, KindOf DEF NothingToCommit, TypeOK
  <2>2. Ended(run[r], run[r].st) \in RunState
    BY <2>1, EndedType DEF Change, RunState
  <2>3. run' \in [Runs -> RunState]
    BY <2>2, <1>3, RunType DEF NothingToCommit
  <2>4. QED  BY <1>3, <2>3 DEF NothingToCommit, TypeOK
<1>4. CASE Save(r)
  <2>1. run[r] \in Result
    BY <1>4, KindOf DEF Save, TypeOK
  <2>2. Identified(run[r]) \in State
    BY <2>1 DEF Identified, Result, Target, State
  <2>3. saved' \in State
    BY <1>4, <2>2 DEF Save, TypeOK
  <2>4. faults' \in 0 .. MaxFaults
    <3>1. faults' = faults \/ Fault
      BY <1>4 DEF Save
    <3>2. QED  BY <3>1, FaultCounts DEF TypeOK
  <2>5. run' \in [Runs -> RunState]
    BY <1>1, <1>4, RunType DEF Save
  <2>6. known' \subseteq Reasons
    BY <1>4 DEF Save, TypeOK, Reasons
  <2>7. QED  BY <1>4, <2>3, <2>4, <2>5, <2>6 DEF Save, TypeOK
<1>5. CASE Crash(r)
  <2>1. faults' \in 0 .. MaxFaults
    BY <1>5, FaultCounts DEF Crash
  <2>2. run' \in [Runs -> RunState]
    BY <1>1, <1>5, RunType DEF Crash
  <2>3. known' \subseteq Reasons
    BY <1>5 DEF Crash, Cut, TypeOK, Reasons
  <2>4. lock' \in Runs \cup {None, "dead"}
    BY <1>5 DEF Crash, TypeOK
  <2>5. QED  BY <1>5, <2>1, <2>2, <2>3, <2>4 DEF Crash, TypeOK
<1>6. ASSUME NEW req \in Requests, Resolve(r, req) PROVE TypeOK'
  <2>1. req \in [paths : SUBSET Paths, status : BOOLEAN, full : BOOLEAN]
    <3>1. CASE \E p \in Paths : req = [paths |-> {p}, status |-> FALSE, full |-> FALSE]
      BY <3>1
    <3>2. CASE \E s, f \in BOOLEAN : req = [paths |-> {}, status |-> s, full |-> f]
      BY <3>2
    <3>3. QED  BY <3>1, <3>2 DEF Requests
  <2>2. [ref |-> git.ref, head |-> Head, up |-> git.up[git.ref]] \in Target
    BY HeadType DEF TypeOK, Target
  <2>3. [pc |-> "resolved", req |-> req, calm |-> TRUE,
         t |-> [ref |-> git.ref, head |-> Head, up |-> git.up[git.ref]]] \in RunState
    BY <2>1, <2>2 DEF Resolved, RunState
  <2>4. run' \in [Runs -> RunState]
    BY <1>6, <2>3, RunType DEF Resolve
  <2>5. QED  BY <1>6, <2>4 DEF Resolve, TypeOK
<1>7. QED  BY <1>2, <1>3, <1>4, <1>5, <1>6

LEMMA TypeNext == TypeOK /\ [Next]_vars => TypeOK'
<1> SUFFICES ASSUME TypeOK, [Next]_vars PROVE TypeOK'
  OBVIOUS
<1>1. CASE UNCHANGED vars
  BY <1>1 DEF vars, TypeOK
<1>2. CASE UserStep \/ Later \/ Purge \/ ToggleGitHub \/ RemoveRun
  BY <1>2, UserType, WorldType
<1>3. ASSUME NEW r \in Runs, Step(r) \/ Crash(r) \/ \E req \in Requests : Resolve(r, req)
      PROVE  TypeOK'
  BY <1>3, ScanType, LookType, HashType, HashFailsType, UploadType, CommitType, OtherStepType DEF Step
<1>4. QED  BY <1>1, <1>2, <1>3 DEF Next

-----------------------------------------------------------------------------
(* What each step of a run makes of what the run holds.                     *)
LEMMA CalmHolds ==
    ASSUME NEW w \in RunState, w.pc # "idle", NEW tree
    PROVE  Holds([w EXCEPT !.calm = FALSE], tree) <=> Holds(w, tree)
<1> DEFINE v == [w EXCEPT !.calm = FALSE]
<1>1. v.pc = w.pc
  BY CalmOnly
<1>2. CASE w.pc \in {"listed", "scanned"}
  <2>1. w \in Listed \cup Scanned
    BY <1>2, KindOf
  <2>2. v.st = w.st /\ v.t = w.t /\ v.full = w.full /\ v.cand = w.cand
    BY <2>1 DEF Scanned, Listed
  <2> HIDE DEF v
  <2>3. QED  BY <1>1, <1>2, <2>2 DEF Holds, ScannedHolds
<1>3. CASE w.pc = "queued"
  <2>1. w \in Hashes
    BY <1>3, KindOf
  <2>2. v.st = w.st /\ v.full = w.full /\ v.left = w.left /\ v.file = w.file /\ v.ups = w.ups /\ v.dels = w.dels
    BY <2>1 DEF Hashes
  <2> HIDE DEF v
  <2>3. QED  BY <1>1, <1>3, <2>2 DEF Holds, QueuedHolds, Apart, Complete, Agrees
<1>4. CASE w.pc = "commit"
  <2>1. w \in Change
    BY <1>4, KindOf
  <2>2. /\ v.st = w.st /\ v.full = w.full /\ v.first = w.first /\ v.file = w.file
        /\ v.ups = w.ups /\ v.dels = w.dels /\ v.todo = w.todo
    BY <2>1 DEF Change
  <2> HIDE DEF v
  <2>3. QED  BY <1>1, <1>4, <2>2 DEF Holds, ChangeHolds, Apart, Complete, Agrees, Sent
<1>5. CASE w.pc = "save"
  <2>1. w \in Result
    BY <1>5, KindOf
  <2>2. v.st = w.st /\ v.t = w.t /\ v.queued = w.queued
    BY <2>1 DEF Result
  <2> HIDE DEF v
  <2>3. QED  BY <1>1, <1>5, <2>2 DEF Holds, ResultHolds
<1>6. QED  BY <1>1, <1>2, <1>3, <1>4, <1>5 DEF Holds

(* GitHub's files only lose their mark.                                     *)
LEMMA SetGitHubKeeps ==
    ASSUME NEW st \in State, NEW on \in BOOLEAN
    PROVE  /\ SetGitHub(st, on).pending = st.pending /\ SetGitHub(st, on).lastFull = st.lastFull
           /\ SetGitHub(st, on).ref = st.ref
           /\ \A p \in Paths : SetGitHub(st, on).files[p] = None <=> st.files[p] = None
           /\ \A tree : TrueOf(st, tree) => TrueOf(SetGitHub(st, on), tree)
<1> DEFINE without == [p \in Paths |-> IF st.files[p] # None /\ Omitted(st.files[p])
                                        THEN [st.files[p] EXCEPT !.stamp = 0, !.synced = FALSE] ELSE st.files[p]]
           files == IF st.github /\ ~ on THEN without ELSE st.files
           new == SetGitHub(st, on)
<1>1. ASSUME NEW f \in FileState
      PROVE  /\ [f EXCEPT !.stamp = 0, !.synced = FALSE] # None
             /\ ~ [f EXCEPT !.stamp = 0, !.synced = FALSE].synced
  <2>1. 0 \in Stamps
    BY CodeSyncAssumption DEF Stamps
  <2>2. [f EXCEPT !.stamp = 0, !.synced = FALSE] \in FileState
    BY <2>1 DEF FileState
  <2>3. ~ [f EXCEPT !.stamp = 0, !.synced = FALSE].synced
    BY DEF FileState
  <2>4. QED  BY <2>2, <2>3, NoneIsNothingElse
<1>2. new = [st EXCEPT !.github = on, !.files = files]
  BY DEF SetGitHub
<1>3. new.pending = st.pending /\ new.lastFull = st.lastFull /\ new.ref = st.ref /\ new.files = files
  BY <1>2 DEF State
<1>4. ASSUME NEW p \in Paths
      PROVE  files[p] = st.files[p] \/ (files[p] # None /\ st.files[p] # None /\ ~ files[p].synced)
  BY <1>1 DEF State
<1> HIDE DEF files, new
<1>5. QED  BY <1>3, <1>4 DEF TrueOf, new

(* What the loop does to the state leaves it true of the tree.              *)
LEMMA RefreshedHolds ==
    ASSUME NEW w \in Scanned, NEW tree, NEW seen, NEW paths \in SUBSET Paths, NEW file \in [paths -> FileState]
    PROVE  LET st == Refreshed(w, file, seen)
           IN  /\ st.ref = w.st.ref /\ st.pending = w.st.pending /\ st.lastFull = w.st.lastFull
               /\ \A p \in Paths \ Same(w, file) : st.files[p] = w.st.files[p]
               /\ \A p \in Same(w, file) :
                    st.files[p] # None /\ EntryOf(st.files[p]) = EntryOf(file[p])
               /\ TrueOf(w.st, tree) => TrueOf(st, tree)
<1> DEFINE same == Same(w, file)
           files == [p \in Paths |-> IF p \in same THEN [file[p] EXCEPT !.synced = TRUE] ELSE w.st.files[p]]
           st == Refreshed(w, file, seen)
<1>1. st.files = files /\ st.ref = w.st.ref /\ st.pending = w.st.pending /\ st.lastFull = w.st.lastFull
  BY DEF Refreshed, Scanned, State
<1>2. ASSUME NEW p \in same
      PROVE  /\ p \in paths /\ w.st.files[p] # None /\ w.st.files[p].synced
             /\ EntryOf(w.st.files[p]) = EntryOf(file[p]) /\ file[p] \in FileState
  BY DEF Same
<1>3. ASSUME NEW p \in same
      PROVE  files[p] # None /\ EntryOf(files[p]) = EntryOf(file[p])
  <2>1. files[p] = [file[p] EXCEPT !.synced = TRUE]
    BY <1>2
  <2>2. file[p] \in FileState
    BY <1>2
  <2> HIDE DEF files
  <2>3. QED  BY <2>1, <2>2, Marked
<1>4. \A p \in Paths \ same : files[p] = w.st.files[p]
  OBVIOUS
<1> HIDE DEF st, same, files
<1>5. ASSUME TrueOf(w.st, tree) PROVE TrueOf(st, tree)
  <2> SUFFICES ASSUME NEW p \in Paths
               PROVE  IF files[p] = None THEN p \in w.st.pending \/ tree[p] = None
                      ELSE files[p].synced => tree[p] = EntryOf(files[p])
    BY <1>1 DEF TrueOf
  <2>1. IF w.st.files[p] = None THEN p \in w.st.pending \/ tree[p] = None
        ELSE w.st.files[p].synced => tree[p] = EntryOf(w.st.files[p])
    BY <1>5 DEF TrueOf
  <2>2. CASE p \in same
    BY <2>1, <2>2, <1>2, <1>3
  <2>3. CASE p \notin same
    BY <2>1, <2>3, <1>4
  <2>4. QED  BY <2>2, <2>3
<1>6. QED  BY <1>1, <1>3, <1>4, <1>5 DEF st, same

LEMMA HashHolds ==
    ASSUME NEW w \in Scanned, NEW tree, ScannedHolds(w, tree),
           NEW later, later \subseteq Read(w),
           NEW file \in [Present(w) \ later -> FileState]
    PROVE  QueuedHolds(Queued(w, later, file), tree)
<1> DEFINE v == Queued(w, later, file)
           old == Refreshed(w, file, Present(w))
           same == Same(w, file)
           ups == DOMAIN file \ same
           files == old.files
           pending == (w.st.pending \ w.cand) \cup later \cup ups \cup Gone(w)
<1>1. /\ Present(w) \subseteq w.cand /\ w.cand \subseteq Paths /\ later \subseteq Present(w)
      /\ Present(w) \ later \in SUBSET Paths
  BY DEF Present, Scanned, Read
<1>2. v.full = w.full /\ v.left = (later # {}) /\ v.file = file /\ v.ups = ups /\ v.dels = Gone(w)
  BY DEF Queued
<1>3. /\ old.pending = w.st.pending /\ old.lastFull = w.st.lastFull
      /\ TrueOf(w.st, tree) => TrueOf(old, tree)
      /\ \A p \in Paths \ same : files[p] = w.st.files[p]
      /\ \A p \in same : files[p] # None /\ EntryOf(files[p]) = EntryOf(file[p])
  <2> DEFINE paths == Present(w) \ later
  <2>1. paths \in SUBSET Paths /\ file \in [paths -> FileState]
    BY <1>1
  <2> HIDE DEF paths
  <2>2. LET st == Refreshed(w, file, Present(w))
        IN  /\ st.ref = w.st.ref /\ st.pending = w.st.pending /\ st.lastFull = w.st.lastFull
            /\ \A p \in Paths \ Same(w, file) : st.files[p] = w.st.files[p]
            /\ \A p \in Same(w, file) : st.files[p] # None /\ EntryOf(st.files[p]) = EntryOf(file[p])
            /\ TrueOf(w.st, tree) => TrueOf(st, tree)
    BY <2>1, RefreshedHolds
  <2>3. QED  BY <2>2
<1>4. old \in State
  BY <1>1, FilesOver, RefreshedType
<1>5. v.st = [old EXCEPT !.pending = (w.st.pending \ w.cand) \cup Owed(later, ups, Gone(w))]
  BY <1>3 DEF Queued
<1> HIDE DEF old
<1>6. v.st.files = files /\ v.st.pending = pending /\ v.st.lastFull = w.st.lastFull
  BY <1>3, <1>4, <1>5 DEF Owed, State
<1>7. \A p \in w.cand : p \notin Present(w) => p \in Gone(w) \/ (w.st.files[p] = None /\ p \notin w.st.pending)
  BY DEF Gone
<1>8. Gone(w) \cap Present(w) = {}
  BY DEF Gone
<1>9. DOMAIN file = Present(w) \ later /\ same \subseteq Present(w) \ later
  BY DEF Same
<1> HIDE DEF v, same, files
<1>10. v.st.lastFull => TrueOf(v.st, tree)
  <2> SUFFICES ASSUME w.st.lastFull, NEW p \in Paths
               PROVE  IF files[p] = None THEN p \in pending \/ tree[p] = None
                      ELSE files[p].synced => tree[p] = EntryOf(files[p])
    BY <1>6 DEF TrueOf
  <2>1. IF files[p] = None THEN p \in w.st.pending \/ tree[p] = None
        ELSE files[p].synced => tree[p] = EntryOf(files[p])
    BY <1>3 DEF ScannedHolds, TrueOf, files
  <2>2. files[p] = None => p \notin same /\ w.st.files[p] = None
    BY <1>3
  <2>3. p \in w.st.pending /\ p \notin same => p \in pending
    BY <1>1, <1>7, <1>9
  <2> HIDE DEF pending
  <2>4. QED  BY <2>1, <2>2, <2>3
<1>11. Apart(v)
  BY <1>2, <1>8, <1>9 DEF Apart
<1>12. ASSUME w.full, later = {} PROVE Complete(v)
  <2> SUFFICES ASSUME NEW p \in Paths
               PROVE  p \in DOMAIN file \/ p \in Gone(w) \/ (files[p] = None /\ p \notin pending)
    BY <1>2, <1>6 DEF Complete
  <2>1. w.st.files[p] # None \/ p \in w.st.pending => p \in w.cand
    BY <1>12 DEF ScannedHolds
  <2>2. CASE p \in w.cand
    BY <2>2, <1>7, <1>9, <1>12, <1>3
  <2>3. CASE p \notin w.cand
    BY <2>1, <2>3, <1>1, <1>3, <1>9, <1>12 DEF Gone
  <2>4. QED  BY <2>2, <2>3
<1>13. \A p \in DOMAIN v.file \ v.ups : Agrees(v, p)
  <2>1. \A p \in DOMAIN v.file \ v.ups : p \in same /\ v.file[p] = file[p]
    BY <1>2
  <2>2. QED  BY <2>1, <1>3, <1>6 DEF Agrees
<1>14. v.full /\ ~ v.left => Complete(v)
  BY <1>2, <1>12
<1> HIDE DEF same
<1>15. QueuedHolds(v, tree)
  BY <1>10, <1>11, <1>13, <1>14 DEF QueuedHolds
<1>16. QED  BY <1>15 DEF v

LEMMA UploadHolds ==
    ASSUME NEW w \in Hashes, NEW tree, QueuedHolds(w, tree), NEW unsent, NEW refused
    PROVE  ChangeHolds(Uploaded(w, unsent, refused), tree)
<1> DEFINE v == Uploaded(w, unsent, refused)
           kept == {p \in w.ups : w.file[p].sha \notin unsent}
           large == {p \in kept : w.file[p].sha \in refused}
           full == w.full /\ ~ w.left /\ kept = w.ups
           file == [p \in DOMAIN w.file |-> IF p \in large THEN [w.file[p] EXCEPT !.sha = 0] ELSE w.file[p]]
<1>1. /\ v.full = full /\ v.first = TRUE /\ v.file = file /\ v.ups = kept /\ v.dels = w.dels
      /\ v.todo = IF full THEN DOMAIN w.file ELSE kept \cup w.dels
  BY DEF Uploaded
<1>2. v.st.files = w.st.files /\ v.st.pending = w.st.pending /\ v.st.lastFull = w.st.lastFull
  BY DEF Uploaded, Hashes, State
<1>3. DOMAIN file = DOMAIN w.file /\ large \subseteq kept /\ kept \subseteq w.ups
  OBVIOUS
<1>4. \A p \in DOMAIN w.file \ large : file[p] = w.file[p]
  OBVIOUS
<1> HIDE DEF v, file, large, kept
<1>5. v.st.lastFull => TrueOf(v.st, tree)
  BY <1>2 DEF QueuedHolds, TrueOf
<1>6. Apart(v)
  BY <1>1, <1>3 DEF QueuedHolds, Apart
<1>7. CASE full
  <2>1. v.todo = DOMAIN v.file
    BY <1>1, <1>3, <1>7
  <2>2. Complete(v)
    BY <1>1, <1>2, <1>3, <1>7 DEF QueuedHolds, Complete
  <2>3. \A p \in DOMAIN v.file \ v.ups : Agrees(v, p)
    BY <1>1, <1>2, <1>3, <1>4, <1>7 DEF QueuedHolds, Agrees
  <2>4. QED  BY <1>1, <1>5, <1>6, <1>7, <2>1, <2>2, <2>3 DEF ChangeHolds, v
<1>8. CASE ~ full
  <2>1. v.todo \subseteq v.ups \cup v.dels
    BY <1>1, <1>8
  <2>2. QED  BY <1>1, <1>5, <1>6, <1>8, <2>1 DEF ChangeHolds, v
<1>9. QED  BY <1>7, <1>8

(* The state after a batch, path by path.                                   *)
LEMMA RecordedFiles ==
    ASSUME NEW w \in Change
    PROVE  LET st == Recorded(w)
           IN  /\ st.lastFull = w.st.lastFull
               /\ st.pending = w.st.pending \ ((Chunk(w) \cap w.ups) \cup Deletes(w))
               /\ \A p \in Chunk(w) \cap w.ups : st.files[p] # None /\ EntryOf(st.files[p]) = EntryOf(w.file[p])
               /\ \A p \in Deletes(w) \ w.ups : p \in Paths => st.files[p] = None
               /\ \A p \in Paths : p \notin Chunk(w) => st.files[p] = w.st.files[p]
               /\ \A p \in DOMAIN w.file \ w.ups : st.files[p] = w.st.files[p]
<1> DEFINE files == [p \in Paths |-> IF p \in Chunk(w) \cap w.ups THEN [w.file[p] EXCEPT !.synced = TRUE]
                                     ELSE IF p \in Deletes(w) THEN None ELSE w.st.files[p]]
           st == Recorded(w)
<1>1. st.lastFull = w.st.lastFull /\ st.files = files
      /\ st.pending = w.st.pending \ ((Chunk(w) \cap w.ups) \cup Deletes(w))
  BY DEF Recorded, Change, State
<1>2. w.ups \subseteq DOMAIN w.file /\ DOMAIN w.file \subseteq Paths /\ \A p \in DOMAIN w.file : w.file[p] \in FileState
  BY DEF Change, Files
<1>3. ASSUME NEW p \in Chunk(w) \cap w.ups
      PROVE  files[p] # None /\ EntryOf(files[p]) = EntryOf(w.file[p])
  <2>1. files[p] = [w.file[p] EXCEPT !.synced = TRUE] /\ w.file[p] \in FileState
    BY <1>2
  <2> HIDE DEF files
  <2>2. QED  BY <2>1, Marked
<1>4. \A p \in Deletes(w) \ w.ups : p \in Paths => files[p] = None
  OBVIOUS
<1>5. \A p \in Paths : p \notin Chunk(w) => files[p] = w.st.files[p]
  BY DEF Deletes
<1>6. \A p \in DOMAIN w.file \ w.ups : files[p] = w.st.files[p]
  BY <1>2 DEF Deletes
<1> HIDE DEF files, st
<1>7. QED  BY <1>1, <1>3, <1>4, <1>5, <1>6 DEF st

(* What a batch makes of the branch's tree.                                 *)
After(w, tree, new) ==
    \A p \in Paths : new[p] =
        IF p \in Chunk(w) \cap DOMAIN w.file THEN EntryOf(w.file[p])
        ELSE IF (w.full /\ w.first) \/ p \in Deletes(w) THEN None ELSE tree[p]

LEMMA PartialBatch ==
    ASSUME NEW w \in Change, NEW tree, NEW new, ~ w.full, ChangeHolds(w, tree), After(w, tree, new)
    PROVE  w.st.lastFull => TrueOf(Recorded(w), new)
<1> DEFINE st == Recorded(w)
<1> SUFFICES ASSUME w.st.lastFull, NEW p \in Paths
             PROVE  IF st.files[p] = None THEN p \in st.pending \/ new[p] = None
                    ELSE st.files[p].synced => new[p] = EntryOf(st.files[p])
  BY DEF TrueOf
<1>1. IF w.st.files[p] = None THEN p \in w.st.pending \/ tree[p] = None
      ELSE w.st.files[p].synced => tree[p] = EntryOf(w.st.files[p])
  BY DEF ChangeHolds, TrueOf
<1>2. Chunk(w) \subseteq w.todo /\ w.todo \subseteq w.ups \cup w.dels /\ w.dels \cap DOMAIN w.file = {} /\ w.ups \subseteq DOMAIN w.file
  BY DEF Chunk, ChangeHolds, Apart, Change
<1>3. new[p] = IF p \in Chunk(w) \cap DOMAIN w.file THEN EntryOf(w.file[p])
               ELSE IF p \in Deletes(w) THEN None ELSE tree[p]
  BY DEF After
<1>4. CASE p \in Chunk(w) \cap w.ups
  BY <1>2, <1>3, <1>4, RecordedFiles
<1>5. CASE p \in Deletes(w)
  <2>1. p \notin w.ups /\ p \notin Chunk(w) \cap DOMAIN w.file
    BY <1>2, <1>5 DEF Deletes
  <2>2. st.files[p] = None
    BY <1>5, <2>1, RecordedFiles
  <2>3. QED  BY <1>3, <1>5, <2>1, <2>2
<1>6. CASE p \notin Chunk(w)
  <2>1. p \notin Deletes(w)
    BY <1>6 DEF Deletes
  <2>2. st.files[p] = w.st.files[p] /\ (p \in st.pending <=> p \in w.st.pending)
    BY <1>6, <2>1, RecordedFiles
  <2>3. QED  BY <1>1, <1>3, <1>6, <2>1, <2>2
<1>7. QED  BY <1>2, <1>4, <1>5, <1>6 DEF Deletes

(* The run after a batch.                                                   *)
Onward(w) == [w EXCEPT !.first = FALSE, !.todo = w.todo \ Chunk(w), !.st = Recorded(w)]

LEMMA OnwardIs ==
    ASSUME NEW w \in Change
    PROVE  LET v == Onward(w)
           IN  /\ v.pc = "commit" /\ v.t = w.t /\ v.full = w.full /\ v.first = FALSE /\ v.file = w.file
               /\ v.ups = w.ups /\ v.dels = w.dels /\ v.todo = w.todo \ Chunk(w) /\ v.st = Recorded(w)
BY DEF Onward, Change

LEMMA FullBatch ==
    ASSUME NEW w \in Change, NEW tree, NEW new, w.full, ChangeHolds(w, tree), After(w, tree, new)
    PROVE  /\ \A p \in Paths : new[p] = IF p \in DOMAIN w.file \ (w.todo \ Chunk(w)) THEN EntryOf(w.file[p]) ELSE None
           /\ Complete(Onward(w))
           /\ \A p \in DOMAIN w.file : p \in w.todo \ Chunk(w) => p \in w.ups \/ Agrees(Onward(w), p)
           /\ \A p \in DOMAIN w.file : p \notin w.todo \ Chunk(w) => Agrees(Onward(w), p)
<1> DEFINE v == Onward(w)
<1>1. /\ v.file = w.file /\ v.ups = w.ups /\ v.dels = w.dels /\ v.st = Recorded(w)
  BY OnwardIs
<1>2. /\ Chunk(w) \subseteq w.todo /\ w.todo \subseteq DOMAIN w.file /\ w.dels \cap DOMAIN w.file = {}
      /\ w.ups \subseteq DOMAIN w.file /\ DOMAIN w.file \subseteq Paths
  BY DEF Chunk, ChangeHolds, Apart, Change, Files
<1>3. Deletes(w) = {}
  BY <1>2 DEF Deletes
<1>4. \A p \in Paths : new[p] = IF p \in Chunk(w) THEN EntryOf(w.file[p]) ELSE IF w.first THEN None ELSE tree[p]
  BY <1>2, <1>3 DEF After
<1>5. \A p \in Paths : new[p] = IF p \in DOMAIN w.file \ (w.todo \ Chunk(w)) THEN EntryOf(w.file[p]) ELSE None
  <2>1. CASE w.first
    BY <1>2, <1>4, <2>1 DEF ChangeHolds
  <2>2. CASE ~ w.first
    <3>1. \A p \in Paths : tree[p] = IF p \in DOMAIN w.file \ w.todo THEN EntryOf(w.file[p]) ELSE None
      BY <2>2 DEF ChangeHolds, Sent
    <3>2. QED  BY <1>2, <1>4, <2>2, <3>1
  <2>3. QED  BY <2>1, <2>2
<1>6. /\ v.st.pending = w.st.pending \ (Chunk(w) \cap w.ups)
      /\ \A p \in Chunk(w) \cap w.ups : Agrees(v, p)
      /\ \A p \in Paths : p \notin Chunk(w) => v.st.files[p] = w.st.files[p]
      /\ \A p \in DOMAIN w.file \ w.ups : v.st.files[p] = w.st.files[p]
  BY <1>1, <1>3, RecordedFiles DEF Agrees
<1>7. Complete(v)
  BY <1>1, <1>2, <1>6 DEF ChangeHolds, Complete
<1>8. \A p \in DOMAIN w.file \ w.ups : Agrees(v, p)
  BY <1>1, <1>6 DEF ChangeHolds, Agrees
<1>9. \A p \in w.ups : p \notin w.todo => Agrees(v, p)
  <2>1. CASE w.first
    BY <1>2, <2>1 DEF ChangeHolds
  <2>2. CASE ~ w.first
    BY <1>1, <1>2, <1>6, <2>2 DEF ChangeHolds, Sent, Agrees
  <2>3. QED  BY <2>1, <2>2
<1> HIDE DEF v
<1>10. QED  BY <1>5, <1>6, <1>7, <1>8, <1>9 DEF v

LEMMA BatchHolds ==
    ASSUME NEW w \in Change, NEW tree, NEW new, ChangeHolds(w, tree), After(w, tree, new)
    PROVE  ChangeHolds(Onward(w), new)
<1> DEFINE v == Onward(w)
<1>1. /\ v.full = w.full /\ v.first = FALSE /\ v.file = w.file /\ v.ups = w.ups /\ v.dels = w.dels
      /\ v.todo = w.todo \ Chunk(w) /\ v.st = Recorded(w)
  BY OnwardIs
<1>2. Apart(v)
  BY <1>1 DEF ChangeHolds, Apart
<1>3. CASE w.full
  <2>1. Complete(v) /\ \A p \in DOMAIN v.file \ v.ups : Agrees(v, p)
    BY <1>1, <1>3, FullBatch
  <2>2. Sent(v, new)
    BY <1>1, <1>3, FullBatch DEF Sent, Change
  <2>3. v.todo \subseteq DOMAIN v.file
    BY <1>1, <1>3 DEF ChangeHolds
  <2> HIDE DEF v
  <2>4. QED  BY <1>1, <1>2, <1>3, <2>1, <2>2, <2>3 DEF ChangeHolds, v
<1>4. CASE ~ w.full
  <2>1. v.st.lastFull => TrueOf(v.st, new)
    BY <1>1, <1>4, PartialBatch, RecordedFiles
  <2>2. v.todo \subseteq v.ups \cup v.dels
    BY <1>1, <1>4 DEF ChangeHolds
  <2> HIDE DEF v
  <2>3. QED  BY <1>1, <1>2, <1>4, <2>1, <2>2 DEF ChangeHolds, v
<1>5. QED  BY <1>3, <1>4

(* The last batch of a full change leaves the tree that the state lists.    *)
LEMMA FinishHolds ==
    ASSUME NEW w \in Change, NEW tree, NEW new, ChangeHolds(w, tree), After(w, tree, new),
           w.todo \ Chunk(w) = {}
    PROVE  LET st == Finished(w, Recorded(w)) IN st.lastFull => TrueOf(st, new)
<1> DEFINE rec == Recorded(w)
           st == Finished(w, rec)
<1>1. CASE ~ w.full
  BY <1>1, PartialBatch, RecordedFiles DEF Finished
<1>2. CASE w.full
  <2> DEFINE files == [p \in Paths |-> IF p \in w.dels THEN None ELSE rec.files[p]]
  <2>1. rec \in State
    BY RecordedType
  <2> HIDE DEF rec
  <2>2. st.files = files /\ st.pending = rec.pending \ w.dels
    BY <1>2, <2>1 DEF Finished, State
  <2>3. /\ \A p \in Paths : new[p] = IF p \in DOMAIN w.file THEN EntryOf(w.file[p]) ELSE None
        /\ \A p \in DOMAIN w.file : rec.files[p] # None /\ EntryOf(rec.files[p]) = EntryOf(w.file[p])
        /\ \A p \in Paths : p \in DOMAIN w.file \/ p \in w.dels \/ (rec.files[p] = None /\ p \notin rec.pending)
    <3>1. /\ \A p \in Paths : new[p] = IF p \in DOMAIN w.file \ (w.todo \ Chunk(w)) THEN EntryOf(w.file[p]) ELSE None
          /\ \A p \in DOMAIN w.file : p \notin w.todo \ Chunk(w) => Agrees(Onward(w), p)
          /\ Complete(Onward(w))
      BY <1>2, FullBatch
    <3>2. Onward(w).st = rec /\ Onward(w).file = w.file /\ Onward(w).dels = w.dels
      BY OnwardIs DEF rec
    <3>3. \A p \in DOMAIN w.file : rec.files[p] # None /\ EntryOf(rec.files[p]) = EntryOf(w.file[p])
      BY <3>1, <3>2 DEF Agrees
    <3>4. \A p \in Paths : p \in DOMAIN w.file \/ p \in w.dels \/ (rec.files[p] = None /\ p \notin rec.pending)
      BY <3>1, <3>2 DEF Complete
    <3>5. QED  BY <3>1, <3>3, <3>4
  <2>4. w.dels \cap DOMAIN w.file = {}
    BY DEF ChangeHolds, Apart
  <2> HIDE DEF st
  <2>5. TrueOf(st, new)
    BY <2>2, <2>3, <2>4 DEF TrueOf
  <2>6. QED  BY <2>5 DEF st, rec
<1>3. QED  BY <1>1, <1>2

LEMMA ConflictHolds ==
    ASSUME NEW w \in Change, NEW tree, w.st.lastFull => TrueOf(w.st, tree),
           NEW lacking \in SUBSET Paths
    PROVE  Conflicted(w, lacking).lastFull => TrueOf(Conflicted(w, lacking), tree)
<1> DEFINE files == [p \in Paths |-> IF p \in lacking /\ w.st.files[p] # None
                                     THEN [w.st.files[p] EXCEPT !.synced = FALSE] ELSE w.st.files[p]]
           st == Conflicted(w, lacking)
<1>1. st.files = files /\ st.pending = w.st.pending \cup lacking /\ st.lastFull = w.st.lastFull
  BY DEF Conflicted, Change, State
<1>2. ASSUME NEW p \in Paths
      PROVE  files[p] = w.st.files[p] \/ (files[p] # None /\ ~ files[p].synced)
  BY Marked DEF Change, State
<1> HIDE DEF files, st
<1>3. QED  BY <1>1, <1>2 DEF TrueOf, st

-----------------------------------------------------------------------------
(* The part of the invariant that holds as long as nothing came in between. *)
StateHolds ==
    /\ OneRun
    /\ SavedHolds
    /\ \A r \in Runs : Active(r) => Holds(run[r], server.tree[run[r].t.ref])

(* A reason, once there, stays.                                             *)
LEMMA KnownGrows == [Next]_vars => known \subseteq known'
<1> SUFFICES ASSUME [Next]_vars PROVE known \subseteq known'
  OBVIOUS
<1>1. CASE UNCHANGED vars
  BY <1>1 DEF vars
<1>2. CASE UserStep \/ Later \/ Purge \/ ToggleGitHub \/ RemoveRun
  BY <1>2 DEF UserStep, Later, Purge, ToggleGitHub, RemoveRun, Overtaken
<1>3. ASSUME NEW r \in Runs, Step(r) \/ Crash(r) \/ \E req \in Requests : Resolve(r, req)
      PROVE  known \subseteq known'
  <2>1. CASE Scan(r) \/ Skip(r) \/ Look(r) \/ NothingToCommit(r) \/ Save(r) \/ Crash(r)
    BY <2>1 DEF Scan, Skip, Look, NothingToCommit, Save, Crash, Overtaken, Cut
  <2>2. CASE CommitBatch(r)
    BY <2>2 DEF CommitBatch, Cut
  <2>3. CASE \E later \in SUBSET Paths : Hash(r, later) \/ \E p \in Paths : HashFails(r, p, later)
    BY <2>3 DEF Hash, HashFails
  <2>4. CASE \E unsent \in SUBSET Stamps : Upload(r, unsent)
    BY <2>4 DEF Upload
  <2>5. CASE \E req \in Requests : Resolve(r, req)
    BY <2>5 DEF Resolve
  <2>6. QED  BY <1>3, <2>1, <2>2, <2>3, <2>4, <2>5 DEF Step
<1>4. QED  BY <1>1, <1>2, <1>3 DEF Next

(* A step of the run that holds the lock, which goes on.                    *)
LEMMA StepHolds ==
    ASSUME TypeOK, StateHolds, NEW r \in Runs, Active(r), NEW next \in RunState,
           run' = [run EXCEPT ![r] = next], next.pc \notin {"idle", "resolved"},
           UNCHANGED <<saved, lock>>,
           Holds(next, server'.tree[next.t.ref])
    PROVE  StateHolds'
<1>1. /\ \A q \in Runs : Active(q)' <=> Active(q)
      /\ \A q \in Runs : Active(q) => q = r
  BY DEF TypeOK, StateHolds, OneRun, Active
<1>2. OneRun'
  BY <1>1 DEF StateHolds, OneRun
<1>3. SavedHolds'
  BY <1>1 DEF SavedHolds, Quiet, Active
<1>4. \A q \in Runs : Active(q)' => Holds(run[q], server.tree[run[q].t.ref])'
  <2>1. run'[r] = next
    BY DEF TypeOK
  <2>2. QED  BY <1>1, <2>1
<1>5. QED  BY <1>2, <1>3, <1>4 DEF StateHolds

(* A step of no run, which leaves the runs' work, the state file and the    *)
(* store.                                                                   *)
LEMMA WorldHolds ==
    ASSUME TypeOK, StateHolds, UNCHANGED <<server, lock>>, Disturb \/ UNCHANGED run,
           saved' = saved \/ ~ saved'.lastFull
    PROVE  StateHolds'
<1>1. ASSUME NEW r \in Runs
      PROVE  /\ Active(r)' <=> Active(r)
             /\ run'[r].pc \in {"idle", "resolved"} <=> run[r].pc \in {"idle", "resolved"}
             /\ Active(r) => /\ run'[r].t = run[r].t
                             /\ Holds(run'[r], server.tree[run[r].t.ref]) <=> Holds(run[r], server.tree[run[r].t.ref])
  <2>1. run[r] \in RunState
    BY DEF TypeOK
  <2>2. CASE run'[r] = run[r]
    BY <2>2 DEF Active
  <2>3. CASE run[r].pc # "idle" /\ run'[r] = [run[r] EXCEPT !.calm = FALSE]
    <3>1. run'[r].pc = run[r].pc /\ run'[r].t = run[r].t
      BY <2>1, <2>3, CalmOnly
    <3>2. Holds(run'[r], server.tree[run[r].t.ref]) <=> Holds(run[r], server.tree[run[r].t.ref])
      BY <2>1, <2>3, CalmHolds
    <3>3. QED  BY <3>1, <3>2 DEF Active
  <2>4. QED  BY <2>2, <2>3 DEF Disturb
<1>2. OneRun'
  BY <1>1 DEF StateHolds, OneRun
<1>3. SavedHolds'
  <2>1. Quiet' <=> Quiet
    BY <1>1 DEF Quiet
  <2>2. QED  BY <2>1 DEF StateHolds, SavedHolds
<1>4. \A r \in Runs : Active(r)' => Holds(run[r], server.tree[run[r].t.ref])'
  BY <1>1 DEF StateHolds
<1>5. QED  BY <1>2, <1>3, <1>4 DEF StateHolds

(* A lock that is taken from no run is taken when none is under way.        *)
LEMMA FreeLock ==
    ASSUME StateHolds, lock \notin Runs
    PROVE  Quiet /\ \A r \in Runs : ~ Active(r)
BY DEF StateHolds, OneRun, Quiet, Active

(* A run that fails before its work is queued.                              *)
LEMMA FailedHolds ==
    ASSUME NEW w, NEW st, NEW tree, st.lastFull => st.ref = w.t.ref /\ TrueOf(st, tree)
    PROVE  Holds(Failed(w, st), tree)
BY DEF Failed, Holds, ResultHolds

LEMMA ScanStep ==
    ASSUME TypeOK, StateHolds, Clean', NEW r \in Runs, Scan(r)
    PROVE  StateHolds'
<1> DEFINE w == run[r]
           full == Full(saved, w.t, w.req)
           base == IF saved.ref # w.t.ref THEN [saved EXCEPT !.lastFull = FALSE] ELSE saved
           st == IF full THEN SetGitHub(base, github) ELSE base
           headMoved == saved.ref # w.t.ref \/ saved.head # w.t.head
           upMoved == saved.ref # w.t.ref \/ saved.head # w.t.head \/ saved.up # w.t.up
           cand == Candidates(saved, w.t, w.req, full)
           turned == st.github # base.github
           next == [pc |-> "listed", calm |-> w.calm, t |-> w.t, st |-> st, full |-> full, cand |-> cand,
                    dirty |-> Changed, listed |-> FileList, turned |-> turned,
                    headMoved |-> headMoved, upMoved |-> upMoved]
           tree == server.tree[w.t.ref]
<1>1. lock \notin Runs
  BY DEF Scan, Overtaken, Clean
<1>2. Quiet /\ \A q \in Runs : ~ Active(q)
  BY <1>1, FreeLock
<1>3. UNCHANGED <<server, saved>>
  BY DEF Scan
<1>4. base \in State /\ base.files = saved.files /\ base.pending = saved.pending /\ base.ref = saved.ref
  BY DEF TypeOK, State
<1>5. base.lastFull => saved.ref = w.t.ref /\ TrueOf(base, tree)
  <2>1. CASE saved.ref # w.t.ref
    BY <2>1 DEF TypeOK, State
  <2>2. CASE saved.ref = w.t.ref
    BY <1>2, <2>2 DEF StateHolds, SavedHolds
  <2>3. QED  BY <2>1, <2>2
<1>6. st.lastFull => st.ref = w.t.ref /\ TrueOf(st, tree)
  BY <1>4, <1>5, SetGitHubKeeps DEF TypeOK
<1>7. st.pending = saved.pending /\ \A p \in Paths : st.files[p] = None <=> saved.files[p] = None
  <2>1. github \in BOOLEAN
    BY DEF TypeOK
  <2>2. CASE full
    <3>1. st = SetGitHub(base, github)
      BY <2>2
    <3> HIDE DEF st, base
    <3>2. QED  BY <1>4, <2>1, <3>1, SetGitHubKeeps
  <2>3. CASE ~ full
    <3>1. st = base
      BY <2>3
    <3> HIDE DEF st, base
    <3>2. QED  BY <1>4, <3>1
  <2>4. QED  BY <2>2, <2>3
<1>8. full => \A p \in Paths : saved.files[p] # None \/ p \in saved.pending => p \in cand
  BY DEF Candidates
<1>9. \/ run' = [run EXCEPT ![r] = Idle] /\ lock' = None
      \/ run' = [run EXCEPT ![r] = next] /\ lock' = r
      \/ (\E b \in BOOLEAN : run' = [run EXCEPT ![r] = Failed(w, [base EXCEPT !.backedOff = b])]) /\ lock' = r
      \/ run' = [run EXCEPT ![r] = Failed(w, st)] /\ lock' = r
  BY DEF Scan
<1> HIDE DEF full, base, st, headMoved, upMoved, cand, turned
<1>10. Holds(next, tree)
  <2>1. ScannedHolds(next, tree)
    BY <1>6, <1>7, <1>8 DEF ScannedHolds
  <2>2. QED  BY <2>1 DEF Holds
<1>11. ASSUME NEW b \in BOOLEAN PROVE Holds(Failed(w, [base EXCEPT !.backedOff = b]), tree)
  <2>1. [base EXCEPT !.backedOff = b].files = base.files /\ [base EXCEPT !.backedOff = b].pending = base.pending
        /\ [base EXCEPT !.backedOff = b].lastFull = base.lastFull /\ [base EXCEPT !.backedOff = b].ref = base.ref
    BY <1>4 DEF State
  <2>2. TrueOf(base, tree) => TrueOf([base EXCEPT !.backedOff = b], tree)
    BY <2>1 DEF TrueOf
  <2>3. QED  BY <1>4, <1>5, <2>1, <2>2, FailedHolds
<1>12. Holds(Failed(w, st), tree)
  BY <1>6, FailedHolds
<1>13. next.pc = "listed" /\ next.t = w.t /\ \A v : Failed(w, v).pc = "save" /\ Failed(w, v).t = w.t
       /\ Idle.pc = "idle"
  BY DEF Failed, Idle
<1> HIDE DEF next
<1>14. CASE run' = [run EXCEPT ![r] = Idle] /\ lock' = None
  <2>1. \A q \in Runs : ~ Active(q)'
    BY <1>2, <1>13, <1>14 DEF TypeOK, Active
  <2>2. SavedHolds'
    BY <1>2, <1>3 DEF StateHolds, SavedHolds
  <2>3. QED  BY <2>1, <2>2, <1>14, NoneIsNothingElse DEF StateHolds, OneRun
<1>15. ASSUME NEW v, run' = [run EXCEPT ![r] = v], lock' = r, v.pc \in {"listed", "save"}, v.t = w.t, Holds(v, tree)
       PROVE  StateHolds'
  <2>1. run'[r] = v /\ \A q \in Runs : Active(q)' <=> q = r
    BY <1>2, <1>15 DEF TypeOK, Active
  <2>2. ~ Quiet'
    BY <2>1, <1>15 DEF Quiet
  <2>3. QED  BY <2>1, <2>2, <1>3, <1>15 DEF StateHolds, OneRun, SavedHolds
<1>16. QED  BY <1>9, <1>10, <1>11, <1>12, <1>13, <1>14, <1>15

LEMMA LookStep ==
    ASSUME TypeOK, StateHolds, NEW r \in Runs, Look(r)
    PROVE  StateHolds'
<1> DEFINE w == run[r]
           next == WithStat(w)
<1>1. w \in Listed /\ w.pc = "listed" /\ Active(r) /\ UNCHANGED <<server, saved, lock>> /\ run' = [run EXCEPT ![r] = next]
  BY KindOf DEF TypeOK, Look, Active
<1>2. Holds(w, server.tree[w.t.ref])
  BY <1>1 DEF StateHolds
<1>3. next.pc = "scanned" /\ next.t = w.t /\ next.st = w.st /\ next.full = w.full /\ next.cand = w.cand
  BY DEF WithStat
<1>4. next \in RunState
  <2>1. run'[r] = next /\ TypeOK'
    BY <1>1, LookType DEF TypeOK
  <2>2. QED  BY <2>1 DEF TypeOK
<1> HIDE DEF next
<1>5. ScannedHolds(w, server.tree[w.t.ref])
  BY <1>1, <1>2 DEF Holds
<1>6. Holds(next, server'.tree[next.t.ref])
  BY <1>1, <1>3, <1>5 DEF Holds, ScannedHolds
<1>7. QED  BY <1>1, <1>3, <1>4, <1>6, StepHolds

LEMMA HashStep ==
    ASSUME TypeOK, StateHolds, NEW r \in Runs, NEW later \in SUBSET Paths, Hash(r, later)
    PROVE  StateHolds'
<1> DEFINE w == run[r]
           file == [p \in Present(w) \ later |-> Hashed(w, p)]
           next == Queued(w, later, file)
           tree == server.tree[w.t.ref]
<1>1. w \in Scanned /\ w.pc = "scanned" /\ Active(r)
  BY KindOf DEF TypeOK, Hash, Active
<1>2. later \subseteq Read(w) /\ run' = [run EXCEPT ![r] = next] /\ UNCHANGED <<server, saved, lock>>
  BY DEF Hash
<1>3. Present(w) \ later \subseteq Paths
  BY <1>1 DEF Present, Scanned
<1>4. file \in [Present(w) \ later -> FileState]
  BY <1>1, <1>3, HashedType
<1>5. ScannedHolds(w, tree)
  BY <1>1 DEF StateHolds, Holds
<1> HIDE DEF w, file
<1>6. file \in Files
  BY <1>3, <1>4, FilesOver
<1>7. next.pc = "queued" /\ next.t = w.t
  BY DEF Queued
<1>8. QueuedHolds(next, tree)
  BY <1>1, <1>2, <1>4, <1>5, HashHolds
<1>9. Holds(next, tree)
  BY <1>7, <1>8 DEF Holds
<1>10. next \in RunState
  BY <1>1, <1>2, <1>6, QueuedType DEF RunState
<1>11. Holds(next, server'.tree[next.t.ref])
  BY <1>2, <1>7, <1>9
<1> HIDE DEF next
<1>12. QED  BY <1>1, <1>2, <1>7, <1>10, <1>11, StepHolds

LEMMA HashFailsStep ==
    ASSUME TypeOK, TypeOK', StateHolds, NEW r \in Runs, NEW p \in Paths, NEW later \in SUBSET Paths,
           HashFails(r, p, later)
    PROVE  StateHolds'
<1> DEFINE w == run[r]
           done == {q \in Present(w) : q < p}
           file == [q \in done \ later |-> Hashed(w, q)]
           st == Refreshed(w, file, done)
           next == Failed(w, st)
           tree == server.tree[w.t.ref]
<1>1. w \in Scanned /\ w.pc = "scanned" /\ Active(r)
  BY KindOf DEF TypeOK, HashFails, Active
<1>2. run' = [run EXCEPT ![r] = next] /\ UNCHANGED <<server, saved, lock>>
  BY DEF HashFails
<1>3. done \ later \subseteq Paths
  BY <1>1 DEF Present, Scanned
<1>4. file \in [done \ later -> FileState]
  BY <1>1, <1>3, HashedType
<1>5. ScannedHolds(w, tree)
  BY <1>1 DEF StateHolds, Holds
<1> HIDE DEF w, file, done
<1>6. st.lastFull => st.ref = w.t.ref /\ TrueOf(st, tree)
  <2>1. done \ later \in SUBSET Paths
    BY <1>3
  <2>2. st.ref = w.st.ref /\ st.lastFull = w.st.lastFull /\ (TrueOf(w.st, tree) => TrueOf(st, tree))
    BY <1>1, <1>4, <2>1, RefreshedHolds
  <2>3. QED  BY <1>5, <2>2 DEF ScannedHolds
<1> HIDE DEF st
<1>7. next.pc = "save" /\ next.t = w.t
  BY DEF Failed
<1>8. Holds(next, server'.tree[next.t.ref])
  BY <1>2, <1>6, <1>7, FailedHolds
<1>9. next \in RunState
  BY <1>2 DEF TypeOK
<1> HIDE DEF next
<1>10. QED  BY <1>1, <1>2, <1>7, <1>8, <1>9, StepHolds

(* A run that ends early leaves the tree and what the state says of it.     *)
LEMMA EndHolds ==
    ASSUME NEW w, NEW st, NEW tree, st.lastFull => TrueOf(st, tree)
    PROVE  Holds(Ended(w, st), tree)
BY DEF Ended, Holds, ResultHolds

LEMMA UploadStep ==
    ASSUME TypeOK, TypeOK', StateHolds, NEW r \in Runs, NEW unsent \in SUBSET Stamps, Upload(r, unsent)
    PROVE  StateHolds'
<1> DEFINE w == run[r]
           sv == IF w.full THEN PutWorktree(server) ELSE server
           missing == MissingBlobs(sv, {w.file[p].sha : p \in w.read} \ {0})
           refused == (missing \ unsent) \cap TooLarge
           tree == server.tree[w.t.ref]
<1>1. w \in Hashes /\ w.pc = "queued" /\ Active(r) /\ UNCHANGED <<saved, lock>>
  BY KindOf DEF TypeOK, Upload, Active
<1>2. sv \in Store /\ sv.tree = server.tree
  BY DEF TypeOK, PutWorktree, Store
<1>3. \A blobs : PutBlobs(sv, blobs).tree = server.tree
  BY <1>2 DEF PutBlobs, Store
<1>4. \E blobs : server' = PutBlobs(sv, blobs)
  BY DEF Upload
<1>5. server'.tree = server.tree
  BY <1>3, <1>4
<1>6. QueuedHolds(w, tree)
  BY <1>1 DEF StateHolds, Holds
<1>7. run' = [run EXCEPT ![r] = Uploaded(w, unsent, refused)]
      \/ \E b \in BOOLEAN : run' = [run EXCEPT ![r] = Ended(w, [w.st EXCEPT !.backedOff = b])]
  BY DEF Upload
<1> HIDE DEF w, sv, missing, refused
<1>8. CASE run' = [run EXCEPT ![r] = Uploaded(w, unsent, refused)]
  <2> DEFINE next == Uploaded(w, unsent, refused)
  <2>1. next.pc = "commit" /\ next.t = w.t
    BY DEF Uploaded
  <2>2. next \in RunState
    BY <1>1, UploadedType DEF RunState
  <2>3. ChangeHolds(next, tree)
    BY <1>1, <1>6, UploadHolds
  <2>4. Holds(next, server'.tree[next.t.ref])
    BY <1>5, <2>1, <2>3 DEF Holds
  <2> HIDE DEF next
  <2>5. QED  BY <1>1, <1>8, <2>1, <2>2, <2>4, StepHolds DEF next
<1>9. ASSUME NEW b \in BOOLEAN, run' = [run EXCEPT ![r] = Ended(w, [w.st EXCEPT !.backedOff = b])]
      PROVE  StateHolds'
  <2> DEFINE st == [w.st EXCEPT !.backedOff = b]
             next == Ended(w, st)
  <2>1. st.files = w.st.files /\ st.pending = w.st.pending /\ st.lastFull = w.st.lastFull /\ st \in State
    BY <1>1 DEF Hashes, State
  <2>2. st.lastFull => TrueOf(st, tree)
    BY <1>6, <2>1 DEF QueuedHolds, TrueOf
  <2> HIDE DEF st
  <2>3. next.pc = "save" /\ next.t = w.t
    BY DEF Ended
  <2>4. Holds(next, server'.tree[next.t.ref])
    BY <1>5, <2>2, <2>3, EndHolds
  <2>5. next \in RunState
    BY <1>1, <2>1, EndedType DEF RunState
  <2>6. run' = [run EXCEPT ![r] = next]
    BY <1>9 DEF st
  <2> HIDE DEF next
  <2>7. QED  BY <1>1, <2>3, <2>4, <2>5, <2>6, StepHolds
<1>10. QED  BY <1>7, <1>8, <1>9

LEMMA CommitStep ==
    ASSUME TypeOK, StateHolds, Clean', NEW r \in Runs, CommitBatch(r)
    PROVE  StateHolds'
<1> DEFINE w == run[r]
           tree == server.tree[w.t.ref]
<1>1. w \in Change /\ w.pc = "commit" /\ Active(r)
  BY KindOf DEF TypeOK, CommitBatch, Active
<1>2. Taken(r) \/ Conflict(r) \/ CallFails(r) \/ AnswerLost(r)
  BY <1>1, Outcomes
<1>3. UNCHANGED <<saved, lock>>
  BY DEF CommitBatch
<1>4. ChangeHolds(w, tree)
  BY <1>1 DEF StateHolds, Holds
<1>5. w.st \in State /\ Recorded(w) \in State /\ Finished(w, Recorded(w)) \in State
  BY <1>1, RecordedType DEF Change
<1>6. ASSUME NEW st \in State, st.lastFull => TrueOf(st, server'.tree[w.t.ref]),
             run' = [run EXCEPT ![r] = Ended(w, st)]
      PROVE  StateHolds'
  <2> DEFINE next == Ended(w, st)
  <2>1. next.pc = "save" /\ next.t = w.t
    BY DEF Ended
  <2>2. Holds(next, server'.tree[next.t.ref])
    BY <1>6, <2>1, EndHolds
  <2>3. next \in RunState
    BY <1>1, EndedType DEF RunState
  <2>4. run' = [run EXCEPT ![r] = next]
    BY <1>6
  <2> HIDE DEF next
  <2>5. QED  BY <1>1, <1>3, <2>1, <2>2, <2>3, <2>4, StepHolds
<1>7. ~ AnswerLost(r)
  <2>1. AnswerLost(r) => "lost" \in known'
    BY DEF AnswerLost
  <2>2. QED  BY <2>1 DEF Clean
<1>8. ASSUME known' = Cut(w, ~ w.first) PROVE w.st.lastFull => TrueOf(w.st, tree)
  <2>1. ~ (w.full /\ ~ w.first)
    BY <1>8 DEF Cut, Clean
  <2>2. QED  BY <1>4, <2>1 DEF ChangeHolds
<1>9. CASE CallFails(r)
  <2>1. PICK b \in BOOLEAN : run' = [run EXCEPT ![r] = Ended(w, [w.st EXCEPT !.backedOff = b])]
    BY <1>9 DEF CallFails
  <2> DEFINE st == [w.st EXCEPT !.backedOff = b]
  <2>2. st.files = w.st.files /\ st.pending = w.st.pending /\ st.lastFull = w.st.lastFull /\ st \in State
    BY <1>5 DEF State
  <2>3. st.lastFull => TrueOf(st, server'.tree[w.t.ref])
    BY <1>8, <1>9, <2>2 DEF CallFails, TrueOf
  <2>4. run' = [run EXCEPT ![r] = Ended(w, st)]
    BY <2>1
  <2> HIDE DEF st
  <2>5. QED  BY <1>6, <2>2, <2>3, <2>4
<1>10. CASE Conflict(r)
  <2>1. PICK lacking \in SUBSET Paths : run' = [run EXCEPT ![r] = Ended(w, Conflicted(w, lacking))]
    BY <1>10 DEF Conflict
  <2>2. server'.tree = server.tree
    BY <1>10 DEF Conflict, PutWorktree, TypeOK, Store
  <2>3. Conflicted(w, lacking) \in State
    BY <1>1, ConflictedType
  <2>4. Conflicted(w, lacking).lastFull => TrueOf(Conflicted(w, lacking), tree)
    BY <1>1, <1>8, <1>10, ConflictHolds DEF Conflict
  <2>5. QED  BY <1>6, <2>1, <2>2, <2>3, <2>4
<1>11. CASE Taken(r)
  <2>1. After(w, tree, server'.tree[w.t.ref])
    BY <1>1, <1>11, CommittedTree DEF Taken, After
  <2>2. CASE w.todo \ Chunk(w) = {} /\ run' = [run EXCEPT ![r] = Ended(w, Finished(w, Recorded(w)))]
    BY <1>1, <1>4, <1>5, <1>6, <2>1, <2>2, FinishHolds
  <2>3. CASE run' = [run EXCEPT ![r] = Onward(w)]
    <3> DEFINE next == Onward(w)
    <3>1. next.pc = "commit" /\ next.t = w.t
      BY <1>1, OnwardIs
    <3>2. Holds(next, server'.tree[next.t.ref])
      BY <1>1, <1>4, <2>1, <3>1, BatchHolds DEF Holds
    <3>3. next \in RunState
      <4>1. w.todo \ Chunk(w) \subseteq Paths
        BY <1>1 DEF Change
      <4>2. QED  BY <1>1, <1>5, <4>1 DEF Onward, Change, RunState
    <3>4. run' = [run EXCEPT ![r] = next]
      BY <2>3
    <3> HIDE DEF next
    <3>5. QED  BY <1>1, <1>3, <3>1, <3>2, <3>3, <3>4, StepHolds
  <2>4. QED  BY <1>11, <2>2, <2>3 DEF Taken, Onward
<1>12. QED  BY <1>2, <1>7, <1>9, <1>10, <1>11

LEMMA NothingStep ==
    ASSUME TypeOK, StateHolds, NEW r \in Runs, NothingToCommit(r)
    PROVE  StateHolds'
<1> DEFINE w == run[r]
           next == Ended(w, w.st)
<1>1. w \in Change /\ w.pc = "commit" /\ ~ w.full /\ Active(r)
  BY KindOf DEF TypeOK, NothingToCommit, Active
<1>2. UNCHANGED <<server, saved, lock>> /\ run' = [run EXCEPT ![r] = next]
  BY DEF NothingToCommit
<1>3. w.st.lastFull => TrueOf(w.st, server.tree[w.t.ref])
  BY <1>1 DEF StateHolds, Holds, ChangeHolds
<1>4. next.pc = "save" /\ next.t = w.t
  BY DEF Ended
<1>5. Holds(next, server'.tree[next.t.ref])
  BY <1>2, <1>3, <1>4, EndHolds
<1>6. next \in RunState
  BY <1>1, EndedType DEF Change, RunState
<1> HIDE DEF next
<1>7. QED  BY <1>1, <1>2, <1>4, <1>5, <1>6, StepHolds

LEMMA SaveStep ==
    ASSUME TypeOK, StateHolds, Clean', NEW r \in Runs, Save(r)
    PROVE  StateHolds'
<1> DEFINE w == run[r]
<1>1. w \in Result /\ w.pc = "save" /\ Active(r)
  BY KindOf DEF TypeOK, Save, Active
<1>2. saved' = Identified(w) /\ UNCHANGED server /\ lock' = None /\ run' = [run EXCEPT ![r] = Idle]
  BY DEF Save, Clean
<1>3. w.st.lastFull => TrueOf(w.st, server.tree[w.t.ref]) /\ (~ w.queued => w.st.ref = w.t.ref)
  BY <1>1 DEF StateHolds, Holds, ResultHolds
<1>4. /\ saved'.lastFull = w.st.lastFull /\ saved'.files = w.st.files /\ saved'.pending = w.st.pending
      /\ w.st.lastFull => saved'.ref = w.t.ref
  BY <1>1, <1>2, <1>3 DEF Identified, Result, State
<1>5. w.t.ref \in Refs
  BY <1>1 DEF Result, Target
<1>6. \A q \in Runs : ~ Active(q)'
  <2>1. Idle.pc = "idle" /\ \A q \in Runs : Active(q) => q = r
    BY <1>1 DEF Idle, StateHolds, OneRun
  <2>2. QED  BY <1>2, <2>1 DEF TypeOK, Active
<1> HIDE DEF w
<1>7. SavedHolds'
  BY <1>2, <1>3, <1>4, <1>5 DEF SavedHolds, TrueOf
<1>8. QED  BY <1>2, <1>6, <1>7, NoneIsNothingElse DEF StateHolds, OneRun

(* Steps before the lock.                                                   *)
LEMMA BeforeLock ==
    ASSUME TypeOK, StateHolds, NEW r \in Runs, Skip(r) \/ \E req \in Requests : Resolve(r, req)
    PROVE  StateHolds'
<1>1. UNCHANGED <<server, saved, lock>>
  BY DEF Skip, Resolve
<1>2. /\ ~ Active(r) /\ run[r].pc \in {"idle", "resolved"}
      /\ \A q \in Runs : q # r => run'[q] = run[q]
      /\ run'[r].pc \in {"idle", "resolved"}
  BY DEF Skip, Resolve, Active, Idle, TypeOK
<1>3. \A q \in Runs : (Active(q)' <=> Active(q)) /\ (Active(q) => run'[q] = run[q])
  BY <1>2 DEF Active
<1>4. Quiet' <=> Quiet
  BY <1>2 DEF Quiet
<1>5. QED  BY <1>1, <1>3, <1>4 DEF StateHolds, OneRun, SavedHolds

LEMMA RemoveStep ==
    ASSUME TypeOK, StateHolds, Clean', RemoveRun
    PROVE  StateHolds'
<1>1. lock \notin Runs /\ lock' = None /\ saved' = ZeroState /\ Disturb
  BY DEF RemoveRun, Clean, Overtaken
<1>2. \A q \in Runs : ~ Active(q)
  BY <1>1, FreeLock
<1>3. \A q \in Runs : ~ Active(q)'
  <2>1. ASSUME NEW q \in Runs PROVE run'[q].pc = run[q].pc
    <3>1. run[q] \in RunState
      BY DEF TypeOK
    <3>2. QED  BY <1>1, <3>1, CalmOnly DEF Disturb
  <2>2. QED  BY <1>2, <2>1 DEF Active
<1>4. SavedHolds'
  BY <1>1 DEF SavedHolds, ZeroState
<1>5. QED  BY <1>1, <1>3, <1>4, NoneIsNothingElse DEF StateHolds, OneRun

LEMMA StateNext ==
    ASSUME TypeOK, Clean => StateHolds, [Next]_vars
    PROVE  (Clean => StateHolds)'
<1> SUFFICES ASSUME Clean' PROVE StateHolds'
  OBVIOUS
<1>1. StateHolds
  BY KnownGrows DEF Clean
<1>2. TypeOK'
  BY TypeNext
<1>3. CASE UNCHANGED vars
  BY <1>1, <1>3 DEF vars, StateHolds, OneRun, SavedHolds, Active, Quiet
<1>4. CASE UserStep
  BY <1>1, <1>4, WorldHolds DEF UserStep
<1>5. CASE Later
  <2>1. saved' = saved \/ ~ saved'.lastFull
    BY <1>5 DEF Later, TypeOK, State
  <2>2. QED  BY <1>1, <1>5, <2>1, WorldHolds DEF Later
<1>6. CASE Purge
  BY <1>6 DEF Purge, Clean
<1>7. CASE ToggleGitHub
  BY <1>1, <1>7, WorldHolds DEF ToggleGitHub
<1>8. CASE RemoveRun
  BY <1>1, <1>8, RemoveStep
<1>9. ASSUME NEW r \in Runs, Step(r) PROVE StateHolds'
  BY <1>1, <1>2, <1>9, ScanStep, LookStep, HashStep, HashFailsStep, UploadStep, CommitStep, NothingStep, SaveStep,
     BeforeLock DEF Step
<1>10. ASSUME NEW r \in Runs, Crash(r) PROVE StateHolds'
  BY <1>10 DEF Crash, Clean
<1>11. ASSUME NEW r \in Runs, NEW req \in Requests, Resolve(r, req) PROVE StateHolds'
  BY <1>1, <1>11, BeforeLock
<1>12. QED  BY <1>3, <1>4, <1>5, <1>6, <1>7, <1>8, <1>9, <1>10, <1>11 DEF Next

-----------------------------------------------------------------------------
(* The inductive invariant.  What the code promises of the state file when  *)
(* no run is under way is not inductive: it rests on what each run holds    *)
(* between its steps, up to a full change that has replaced part of a tree. *)
THEOREM CodeSyncInvariance == Spec => []SyncInv
<1>1. Init => SyncInv
  <2> SUFFICES ASSUME Init PROVE SyncInv
    OBVIOUS
  <2>1. TypeOK
    BY TypeInit
  <2>2. \A r \in Runs : ~ Active(r)
    BY DEF Init, Active, Idle
  <2>3. OneRun
    BY <2>2, NoneIsNothingElse DEF Init, OneRun
  <2>4. SavedHolds
    BY DEF Init, SavedHolds, ZeroState
  <2>5. QED  BY <2>1, <2>2, <2>3, <2>4 DEF SyncInv
<1>2. SyncInv /\ [Next]_vars => SyncInv'
  BY TypeNext, StateNext DEF SyncInv, StateHolds
<1>3. QED  BY <1>1, <1>2, PTL DEF Spec

(* The types of code sync's variables, the work of a run included.          *)
THEOREM CodeSyncTypes == Spec => []TypeOK
<1>1. SyncInv => TypeOK
  BY DEF SyncInv
<1>2. QED  BY <1>1, CodeSyncInvariance, PTL

(* The state file tells the truth (codesync Run, sync, commit, SaveState):  *)
(* while the last full reconcile is fresh, what it marks synced is what the *)
(* store has, and what it neither lists nor has queued the store does not   *)
(* have; for any files, branches, batch size, user and number of runs.      *)
THEOREM StateFileIsTrue == Spec => []SyncedIsStored
<1>1. SyncInv => SyncedIsStored
  BY DEF SyncInv, SavedHolds, SyncedIsStored, Clean
<1>2. QED  BY <1>1, CodeSyncInvariance, PTL

-----------------------------------------------------------------------------
(***************************************************************************)
(* What a run keeps of git and of the files.  e stands for the surroundings *)
(* of the runs and the state file.                                          *)
(***************************************************************************)
Around == [disk |-> disk, git |-> git, github |-> github, user |-> user, known |-> known]

Undisturbed(e) == e.known \cap {"switched", "overtaken"} = {}

HeadOf(e) == e.git.head[e.git.ref]

Now(e) == [ref |-> e.git.ref, head |-> HeadOf(e), up |-> e.git.up[e.git.ref]]

(* Stamps and commits are numbered by the user's steps.                     *)
Clock(e) ==
    /\ \A p \in Paths : e.disk[p].s <= e.user + 1 /\ (e.disk[p].c = 0 <=> e.disk[p].s = 0)
    /\ \A r \in Refs : e.git.head[r].at <= e.user

(* What a file's record says of the content that has its stamp: that it was *)
(* hashed, or is too large, or was left to GitHub.                          *)
ContentOf(f, d, on) ==
    f.stamp = d.s /\ d.c # 0 => f.sha = d.c \/ (f.sha = 0 /\ (d.c \in TooLarge \/ (on /\ Omitted(f))))

(* What it says of git, when id is what git is at.                          *)
FactsOf(f, id, p) ==
    f.oid = id.head.tree[p] /\ (f.unpushed <=> id.up = None \/ id.up.tree[p] # id.head.tree[p])

(* A clean file was hashed with git's content.                              *)
CleanOf(f, on) ==
    ~ f.dirty => /\ f.oid # 0
                 /\ IF on /\ ~ f.unpushed THEN f.sha = 0 ELSE f.sha = f.oid \/ (f.sha = 0 /\ f.oid \in TooLarge)

(* id is what git is at, and no run has mistaken one branch for another.    *)
AtHead(id, e) == Undisturbed(e) /\ id.ref # None /\ id.head = e.git.head[id.ref]

(* The same for the files of a state whose ref, HEAD and upstream id has.   *)
Stamped(st, e) ==
    \A p \in Paths :
        /\ st.files[p] # None => /\ st.files[p].stamp <= e.user + 1
                                 /\ ContentOf(st.files[p], e.disk[p], st.github)
                                 /\ st.files[p].sha \notin TooLarge
        /\ st.refused[p] <= e.user + 1
        /\ st.refused[p] = e.disk[p].s /\ e.disk[p].c # 0 => e.disk[p].c \in TooLarge

Facts(st, id, e) ==
    /\ id.head # None => id.head.at <= e.user
    /\ AtHead(id, e) => \A p \in Paths \ st.pending : st.files[p] # None => FactsOf(st.files[p], id, p)

Clear(st, id, e) ==
    "toggled" \notin e.known =>
        \A p \in Paths \ st.pending : st.files[p] # None =>
            /\ st.files[p].synced
            /\ AtHead(id, e) /\ "raced" \notin e.known => CleanOf(st.files[p], st.github)

StateGood(st, id, e) == Stamped(st, e) /\ Facts(st, id, e) /\ Clear(st, id, e)

(* A state whose next run is a full one may have files without a mark.      *)
Sound(st, id, e) == Stamped(st, e) /\ Facts(st, id, e) /\ (st.lastFull => Clear(st, id, e))

(* A run that has its target.                                               *)
TargetGood(w, e) ==
    /\ w.t.head.at <= e.user
    /\ w.pc \in {"resolved", "listed", "scanned"} /\ Undisturbed(e) => w.t.ref = e.git.ref
    /\ w.calm => w.t = Now(e)

(* A run that has loaded the state looks at whatever may have changed.      *)
Looks(w) ==
    /\ ~ w.headMoved => w.st.ref = w.t.ref /\ w.st.head = w.t.head
    /\ ~ w.upMoved => ~ w.headMoved /\ w.st.up = w.t.up
    /\ w.st.pending \subseteq w.cand
    /\ w.full \/ w.upMoved => \A p \in Paths : w.st.files[p] # None => p \in w.cand
    /\ ~ w.full => w.st.lastFull /\ ~ w.turned

(* It has the status and the list of files of one moment.                   *)
Told(w, e) ==
    /\ Undisturbed(e) /\ "raced" \notin e.known =>
         \A p \in Paths : p \notin w.dirty /\ e.disk[p].c # 0 => e.disk[p].c = HeadOf(e).tree[p]
    /\ w.calm => /\ \A p \in Paths : p \in w.dirty <=> e.disk[p].c # 0 /\ e.disk[p].c # HeadOf(e).tree[p]
                 /\ w.full => /\ w.st.github = e.github
                              /\ \A p \in Paths : e.disk[p].c # 0 => p \in w.cand \cap w.listed

ListedGood(w, e) ==
    /\ Looks(w) /\ Told(w, e)
    /\ Stamped(w.st, e) /\ Facts(w.st, w.st, e)
    /\ w.st.lastFull /\ ~ w.turned => Clear(w.st, w.st, e)

(* It has the stamps of one moment, which may be a later one.               *)
Looked(w, e) ==
    /\ \A p \in Paths : /\ w.stat[p].s <= e.user + 1 /\ (w.stat[p].c = 0 <=> w.stat[p].s = 0)
                        /\ w.stat[p].s = e.disk[p].s => w.stat[p].c = e.disk[p].c
    /\ w.calm \/ (Undisturbed(e) /\ "raced" \notin e.known) => w.stat = e.disk

ScannedGood(w, e) == ListedGood(w, e) /\ Looked(w, e)

(* The record a run has made of a file.                                     *)
RecordGood(f, on, t, p, e) ==
    /\ f.stamp <= e.user + 1
    /\ ContentOf(f, e.disk[p], on)
    /\ on /\ f.oid # 0 /\ ~ f.dirty /\ ~ f.unpushed => f.sha = 0
    /\ AtHead(t, e) => FactsOf(f, t, p) /\ ("raced" \notin e.known => CleanOf(f, on))

Records(w, e) == \A p \in DOMAIN w.file : RecordGood(w.file[p], w.st.github, w.t, p, e)

(* As long as nothing moves, the records of a full change are of exactly    *)
(* the worktree's files as they are.                                        *)
Exact(w, e) ==
    w.calm /\ Undisturbed(e) =>
        /\ w.st.github = e.github
        /\ \A p \in Paths :
             /\ p \in DOMAIN w.file <=> e.disk[p].c # 0
             /\ p \in DOMAIN w.file =>
                  w.file[p].stamp = e.disk[p].s /\ (w.file[p].dirty <=> e.disk[p].c # HeadOf(e).tree[p])

HashedGood(w, e) ==
    /\ StateGood(w.st, w.t, e)
    /\ Records(w, e)
    /\ \A p \in DOMAIN w.file : w.file[p].sha \in TooLarge => p \in w.read \cap w.ups
    /\ w.full /\ ~ w.left => Exact(w, e)

ChangeGood(w, e) ==
    /\ StateGood(w.st, w.t, e)
    /\ Records(w, e)
    /\ \A p \in w.ups : w.file[p].sha \notin TooLarge
    /\ w.full => /\ w.todo \subseteq DOMAIN w.file /\ (w.first => w.todo = DOMAIN w.file)
                 /\ \A p \in DOMAIN w.file : w.file[p].sha \notin TooLarge
                 /\ Exact(w, e)

ResultGood(w, e) == Sound(w.st, IF w.queued THEN w.t ELSE w.st, e)

RunGood(w, e) ==
    /\ w.pc # "idle" => TargetGood(w, e)
    /\ w.pc = "listed" => ListedGood(w, e)
    /\ w.pc = "scanned" => ScannedGood(w, e)
    /\ w.pc = "queued" => HashedGood(w, e)
    /\ w.pc = "commit" => ChangeGood(w, e)
    /\ w.pc = "save" => ResultGood(w, e)

(* The tree in the middle of a full change of a run left in peace.          *)
Begun(w, tree) ==
    w.pc = "commit" /\ w.calm /\ w.full /\ ~ w.first =>
        \A p \in Paths : tree[p] = IF p \in DOMAIN w.file \ w.todo THEN EntryOf(w.file[p]) ELSE None

Alone == "overtaken" \notin known => OneRun /\ \A r \in Runs : Begun(run[r], server.tree[run[r].t.ref])

(* The second inductive invariant: what the state file and a run say of git *)
(* and of the files is so, as far as they claim to know it.                 *)
GitHolds ==
    /\ Clock(Around)
    /\ Alone
    /\ server.blobs \cap TooLarge = {}
    /\ Sound(saved, saved, Around)
    /\ \A r \in Runs : RunGood(run[r], Around)

GitInv == TypeOK /\ GitHolds

Surroundings ==
    [disk : Disk, git : [ref : Refs, head : [Refs -> Revision], up : [Refs -> Revision \cup {None}]],
     github : BOOLEAN, user : 0 .. MaxUser,
     known : SUBSET Reasons]

LEMMA AroundType == TypeOK => Around \in Surroundings
BY DEF TypeOK, Around, Surroundings

(* The user's step, or none: what changes gets a stamp, or a number, that   *)
(* nothing has had.                                                         *)
Advance(e, e2) ==
    /\ e2.user >= e.user
    /\ e.known \subseteq e2.known
    /\ \A p \in Paths : \/ e2.disk[p] = e.disk[p]
                        \/ e2.disk[p].c = 0 /\ e2.disk[p].s = 0
                        \/ e2.disk[p].c # 0 /\ e2.disk[p].s = e.user + 2 /\ e2.user = e.user + 1
    /\ \A r \in Refs : e2.git.head[r] = e.git.head[r] \/ (e2.git.head[r].at = e.user + 1 /\ e2.user = e.user + 1)

(* The user does it under a run that has looked, or is about to look.       *)
Noticed(w, e, e2) ==
    /\ w.pc \in {"resolved", "listed", "scanned"} /\ e2.git.ref # e.git.ref => "switched" \in e2.known
    /\ w.pc \in {"listed", "scanned"} /\ e2.disk # e.disk => "raced" \in e2.known
    /\ e2.git.ref = e.git.ref /\ HeadOf(e2) # HeadOf(e) => \A p \in Paths : HeadOf(e2).tree[p] = e.disk[p].c

LEMMA NumbersAround ==
    ASSUME NEW e \in Surroundings
    PROVE  /\ e.user \in Nat
           /\ \A p \in Paths : e.disk[p].s \in Nat /\ e.disk[p].c \in Nat
           /\ \A r \in Refs : e.git.head[r] \in Revision /\ e.git.head[r].at \in Nat
           /\ e.git.ref \in Refs /\ HeadOf(e) \in Revision
           /\ \A p \in Paths : HeadOf(e).tree[p] \in Nat
<1> USE CodeSyncAssumption
<1>1. e.user \in Nat /\ e.git.ref \in Refs
  BY DEF Surroundings
<1>2. e.disk \in Disk
  BY DEF Surroundings
<1>3. \A p \in Paths : e.disk[p].s \in Nat /\ e.disk[p].c \in Nat
  BY <1>2 DEF Disk, Stamps
<1>4. \A r \in Refs : e.git.head[r] \in Revision
  BY DEF Surroundings
<1>5. \A r \in Refs : e.git.head[r].at \in Nat
  BY <1>4 DEF Revision
<1>6. HeadOf(e) \in Revision
  BY <1>1, <1>4 DEF HeadOf
<1>7. HeadOf(e).tree \in Tree
  BY <1>6 DEF Revision
<1>8. QED  BY <1>1, <1>3, <1>4, <1>5, <1>6, <1>7 DEF Tree, Stamps

LEMMA ClockAdvance ==
    ASSUME NEW e \in Surroundings, NEW e2 \in Surroundings, Clock(e), Advance(e, e2)
    PROVE  Clock(e2)
<1>1. ASSUME NEW p \in Paths
      PROVE  e2.disk[p].s <= e2.user + 1 /\ (e2.disk[p].c = 0 <=> e2.disk[p].s = 0)
  BY NumbersAround DEF Clock, Advance
<1>2. \A r \in Refs : e2.git.head[r].at <= e2.user
  BY NumbersAround DEF Clock, Advance
<1>3. QED  BY <1>1, <1>2 DEF Clock

LEMMA ContentAdvance ==
    ASSUME NEW e \in Surroundings, NEW e2 \in Surroundings, Advance(e, e2), NEW p \in Paths,
           NEW f \in FileState, NEW on, f.stamp <= e.user + 1, ContentOf(f, e.disk[p], on)
    PROVE  f.stamp <= e2.user + 1 /\ ContentOf(f, e2.disk[p], on)
<1>1. f.stamp \in Nat
  BY CodeSyncAssumption DEF FileState, Stamps
<1>2. f.stamp <= e2.user + 1
  BY <1>1, NumbersAround DEF Advance
<1>3. e2.disk[p] = e.disk[p] \/ e2.disk[p].c = 0 \/ f.stamp # e2.disk[p].s
  BY <1>1, NumbersAround DEF Advance
<1>4. QED  BY <1>2, <1>3 DEF ContentOf

LEMMA StampedAdvance ==
    ASSUME NEW e \in Surroundings, NEW e2 \in Surroundings, Advance(e, e2), NEW st \in State, Stamped(st, e)
    PROVE  Stamped(st, e2)
<1> SUFFICES ASSUME NEW p \in Paths
             PROVE  /\ st.files[p] # None => /\ st.files[p].stamp <= e2.user + 1
                                             /\ ContentOf(st.files[p], e2.disk[p], st.github)
                                             /\ st.files[p].sha \notin TooLarge
                    /\ st.refused[p] <= e2.user + 1
                    /\ st.refused[p] = e2.disk[p].s /\ e2.disk[p].c # 0 => e2.disk[p].c \in TooLarge
  BY DEF Stamped
<1>1. ASSUME st.files[p] # None
      PROVE  /\ st.files[p].stamp <= e2.user + 1
             /\ ContentOf(st.files[p], e2.disk[p], st.github)
             /\ st.files[p].sha \notin TooLarge
  <2>1. st.files[p] \in FileState
    BY <1>1 DEF State
  <2>2. st.files[p].stamp <= e.user + 1 /\ ContentOf(st.files[p], e.disk[p], st.github) /\ st.files[p].sha \notin TooLarge
    BY <1>1 DEF Stamped
  <2>3. QED  BY <2>1, <2>2, ContentAdvance
<1>2. st.refused[p] \in Nat
  BY CodeSyncAssumption DEF State, Stamps
<1>3. st.refused[p] <= e.user + 1 /\ (st.refused[p] = e.disk[p].s /\ e.disk[p].c # 0 => e.disk[p].c \in TooLarge)
  BY DEF Stamped
<1>4. st.refused[p] <= e2.user + 1
  BY <1>2, <1>3, NumbersAround DEF Advance
<1>5. e2.disk[p] = e.disk[p] \/ e2.disk[p].c = 0 \/ st.refused[p] # e2.disk[p].s
  BY <1>2, <1>3, NumbersAround DEF Advance
<1>6. QED  BY <1>1, <1>3, <1>4, <1>5

(* A commit that HEAD has left is not come back to.                         *)
LEMMA AtHeadBefore ==
    ASSUME NEW e \in Surroundings, NEW e2 \in Surroundings, Advance(e, e2),
           NEW id, id.ref \in Refs \cup {None}, id.head # None => id.head.at <= e.user, AtHead(id, e2)
    PROVE  AtHead(id, e) /\ ("raced" \notin e2.known => "raced" \notin e.known)
<1>1. id.ref \in Refs /\ id.head = e2.git.head[id.ref]
  BY DEF AtHead
<1>2. id.head # None
  BY <1>1, NumbersAround, NoneIsNothingElse
<1>3. e2.git.head[id.ref] = e.git.head[id.ref]
  <2>1. id.head.at # e.user + 1
    BY <1>1, <1>2, NumbersAround
  <2>2. QED  BY <1>1, <2>1 DEF Advance
<1>4. QED  BY <1>1, <1>3 DEF AtHead, Undisturbed, Advance

LEMMA GoodAdvance ==
    ASSUME NEW e \in Surroundings, NEW e2 \in Surroundings, Advance(e, e2), NEW st \in State,
           NEW id, id.ref \in Refs \cup {None}, id.head \in Revision \cup {None}
    PROVE  /\ Facts(st, id, e) => Facts(st, id, e2)
           /\ Facts(st, id, e) /\ Clear(st, id, e) => Clear(st, id, e2)
           /\ StateGood(st, id, e) => StateGood(st, id, e2)
           /\ Sound(st, id, e) => Sound(st, id, e2)
<1>1. id.head # None => id.head.at \in Nat
  BY CodeSyncAssumption DEF Revision
<1>2. Facts(st, id, e) => (id.head # None => id.head.at <= e2.user)
  BY <1>1, NumbersAround DEF Facts, Advance
<1>3. Facts(st, id, e) /\ AtHead(id, e2) => AtHead(id, e) /\ ("raced" \notin e2.known => "raced" \notin e.known)
  BY AtHeadBefore DEF Facts
<1>4. Facts(st, id, e) => Facts(st, id, e2)
  BY <1>2, <1>3 DEF Facts
<1>5. Facts(st, id, e) /\ Clear(st, id, e) => Clear(st, id, e2)
  <2>1. "toggled" \notin e2.known => "toggled" \notin e.known
    BY DEF Advance
  <2>2. QED  BY <1>3, <2>1 DEF Clear
<1>6. QED  BY <1>4, <1>5, StampedAdvance DEF StateGood, Sound

LEMMA RecordAdvance ==
    ASSUME NEW e \in Surroundings, NEW e2 \in Surroundings, Advance(e, e2), NEW p \in Paths,
           NEW f \in FileState, NEW on, NEW t \in Target, t.head.at <= e.user, RecordGood(f, on, t, p, e)
    PROVE  RecordGood(f, on, t, p, e2)
<1>1. f.stamp <= e2.user + 1 /\ ContentOf(f, e2.disk[p], on)
  BY ContentAdvance DEF RecordGood
<1>2. AtHead(t, e2) => AtHead(t, e) /\ ("raced" \notin e2.known => "raced" \notin e.known)
  BY AtHeadBefore DEF Target
<1>3. QED  BY <1>1, <1>2 DEF RecordGood

LEMMA TargetAdvance ==
    ASSUME NEW e \in Surroundings, NEW e2 \in Surroundings, Advance(e, e2), NEW w, w.t \in Target, TargetGood(w, e),
           Noticed(w, e, e2), NEW v, v.t = w.t, v.pc = w.pc,
           v.calm => w.calm /\ e2.git = e.git
    PROVE  TargetGood(v, e2)
<1>1. v.t.head.at <= e2.user
  <2>1. w.t.head.at \in Nat /\ w.t.head.at <= e.user
    BY CodeSyncAssumption DEF Target, Revision, TargetGood
  <2>2. QED  BY <2>1, NumbersAround DEF Advance
<1>2. v.pc \in {"resolved", "listed", "scanned"} /\ Undisturbed(e2) => v.t.ref = e2.git.ref
  BY DEF TargetGood, Noticed, Undisturbed, Advance
<1>3. v.calm => v.t = Now(e2)
  BY DEF TargetGood, Now, HeadOf
<1>4. QED  BY <1>1, <1>2, <1>3 DEF TargetGood

LEMMA ToldAdvance ==
    ASSUME NEW e \in Surroundings, NEW e2 \in Surroundings, Advance(e, e2), NEW w, w.pc \in {"listed", "scanned"},
           Told(w, e), Noticed(w, e, e2),
           NEW v, v.dirty = w.dirty, v.listed = w.listed, v.cand = w.cand, v.full = w.full, v.st = w.st,
           v.calm => w.calm /\ e2.disk = e.disk /\ e2.git = e.git /\ e2.github = e.github
    PROVE  Told(v, e2)
<1>1. ASSUME Undisturbed(e2), "raced" \notin e2.known, NEW p \in Paths
      PROVE  p \notin v.dirty /\ e2.disk[p].c # 0 => e2.disk[p].c = HeadOf(e2).tree[p]
  <2>1. e2.disk = e.disk /\ e2.git.ref = e.git.ref
    BY <1>1 DEF Noticed, Undisturbed
  <2>2. Undisturbed(e) /\ "raced" \notin e.known
    BY <1>1 DEF Undisturbed, Advance
  <2>3. p \notin w.dirty /\ e.disk[p].c # 0 => e.disk[p].c = HeadOf(e).tree[p]
    BY <2>2 DEF Told
  <2>4. HeadOf(e2) = HeadOf(e) \/ HeadOf(e2).tree[p] = e.disk[p].c
    BY <2>1 DEF Noticed
  <2>5. QED  BY <2>1, <2>3, <2>4
<1>2. ASSUME v.calm
      PROVE  /\ \A p \in Paths : p \in v.dirty <=> e2.disk[p].c # 0 /\ e2.disk[p].c # HeadOf(e2).tree[p]
             /\ v.full => /\ v.st.github = e2.github
                          /\ \A p \in Paths : e2.disk[p].c # 0 => p \in v.cand \cap v.listed
  <2>1. HeadOf(e2) = HeadOf(e)
    BY <1>2 DEF HeadOf
  <2>2. QED  BY <1>2, <2>1 DEF Told
<1>3. QED  BY <1>1, <1>2 DEF Told

LEMMA LookedAdvance ==
    ASSUME NEW e \in Surroundings, NEW e2 \in Surroundings, Advance(e, e2), NEW w \in Scanned, Looked(w, e),
           Noticed(w, e, e2), NEW v, v.stat = w.stat, v.calm => w.calm /\ e2.disk = e.disk
    PROVE  Looked(v, e2)
<1>1. \A p \in Paths : /\ v.stat[p].s <= e2.user + 1 /\ (v.stat[p].c = 0 <=> v.stat[p].s = 0)
                       /\ v.stat[p].s = e2.disk[p].s => v.stat[p].c = e2.disk[p].c
  <2> TAKE p \in Paths
  <2>1. w.stat[p].s \in Nat
    BY CodeSyncAssumption DEF Scanned, Disk, Stamps
  <2>2. /\ w.stat[p].s <= e.user + 1 /\ (w.stat[p].c = 0 <=> w.stat[p].s = 0)
        /\ w.stat[p].s = e.disk[p].s => w.stat[p].c = e.disk[p].c
    BY DEF Looked
  <2>3. w.stat[p].s <= e2.user + 1
    BY <2>1, <2>2, NumbersAround DEF Advance
  <2>4. w.stat[p].s = e2.disk[p].s => w.stat[p].c = e2.disk[p].c
    BY <2>1, <2>2, NumbersAround DEF Advance
  <2>5. QED  BY <2>2, <2>3, <2>4
<1>2. ASSUME Undisturbed(e2), "raced" \notin e2.known PROVE v.stat = e2.disk
  <2>1. e2.disk = e.disk
    BY <1>2 DEF Noticed, Scanned
  <2>2. Undisturbed(e) /\ "raced" \notin e.known
    BY <1>2 DEF Undisturbed, Advance
  <2>3. QED  BY <2>1, <2>2 DEF Looked
<1>3. v.calm => v.stat = e2.disk
  BY DEF Looked
<1>4. QED  BY <1>1, <1>2, <1>3 DEF Looked

LEMMA ListedAdvance ==
    ASSUME NEW e \in Surroundings, NEW e2 \in Surroundings, Advance(e, e2), NEW w, w.pc \in {"listed", "scanned"},
           w.st \in State, ListedGood(w, e), Noticed(w, e, e2),
           NEW v, v.dirty = w.dirty, v.listed = w.listed, v.cand = w.cand, v.full = w.full, v.st = w.st, v.t = w.t,
           v.turned = w.turned, v.headMoved = w.headMoved, v.upMoved = w.upMoved,
           v.calm => w.calm /\ e2.disk = e.disk /\ e2.git = e.git /\ e2.github = e.github
    PROVE  ListedGood(v, e2)
<1>1. Looks(v)
  BY DEF ListedGood, Looks
<1>2. Told(v, e2)
  BY ToldAdvance DEF ListedGood
<1>3. w.st.ref \in Refs \cup {None} /\ w.st.head \in Revision \cup {None}
  BY DEF State
<1>4. Stamped(w.st, e2)
  BY StampedAdvance DEF ListedGood
<1>5. Facts(w.st, w.st, e2) /\ (Clear(w.st, w.st, e) => Clear(w.st, w.st, e2))
  BY <1>3, GoodAdvance DEF ListedGood
<1>6. QED  BY <1>1, <1>2, <1>4, <1>5 DEF ListedGood

(* What a run knows stays so, whatever happens around it.                   *)
LEMMA RunAdvance ==
    ASSUME NEW e \in Surroundings, NEW e2 \in Surroundings, Clock(e), Advance(e, e2),
           NEW w \in RunState, RunGood(w, e), Noticed(w, e, e2),
           NEW v, v = w \/ (w.pc # "idle" /\ v = [w EXCEPT !.calm = FALSE]),
           w.pc # "idle" /\ v.calm => e2.disk = e.disk /\ e2.git = e.git /\ e2.github = e.github
    PROVE  RunGood(v, e2)
<1> DEFINE calmly == v.calm => w.calm /\ e2.disk = e.disk /\ e2.git = e.git /\ e2.github = e.github
<1>1. v.pc = w.pc
  BY CalmOnly
<1>2. CASE w.pc = "idle"
  BY <1>1, <1>2 DEF RunGood
<1>3. CASE w.pc = "resolved"
  <2>1. w \in Resolved
    BY <1>3, KindOf
  <2>2. v.t = w.t /\ w.t \in Target /\ calmly
    BY <1>3, <2>1 DEF Resolved
  <2>3. TargetGood(v, e2)
    BY <1>1, <1>3, <2>2, TargetAdvance DEF RunGood
  <2>4. QED  BY <1>1, <1>3, <2>3 DEF RunGood
<1>4. CASE w.pc \in {"listed", "scanned"}
  <2>1. w \in Listed \cup Scanned
    BY <1>4, KindOf
  <2>2. /\ v.t = w.t /\ w.t \in Target /\ v.st = w.st /\ w.st \in State /\ v.full = w.full /\ v.cand = w.cand
        /\ v.dirty = w.dirty /\ v.listed = w.listed /\ v.turned = w.turned
        /\ v.headMoved = w.headMoved /\ v.upMoved = w.upMoved /\ calmly
    <3>1. CASE w \in Listed
      BY <1>4, <3>1 DEF Listed
    <3>2. CASE w \in Scanned
      BY <1>4, <3>2 DEF Scanned
    <3>3. QED  BY <2>1, <3>1, <3>2
  <2>3. TargetGood(v, e2)
    BY <1>1, <1>4, <2>2, TargetAdvance DEF RunGood
  <2>4. ListedGood(w, e)
    BY <1>4 DEF RunGood, ScannedGood
  <2>5. ListedGood(v, e2)
    BY <1>4, <2>2, <2>4, ListedAdvance
  <2>6. ASSUME w.pc = "scanned" PROVE Looked(v, e2)
    <3>1. w \in Scanned /\ Looked(w, e)
      BY <2>6, KindOf DEF RunGood, ScannedGood
    <3>2. v.stat = w.stat
      BY <3>1 DEF Scanned
    <3>3. QED  BY <2>2, <3>1, <3>2, LookedAdvance
  <2>7. QED  BY <1>1, <1>4, <2>3, <2>5, <2>6 DEF RunGood, ScannedGood
<1>5. CASE w.pc = "queued"
  <2>1. w \in Hashes
    BY <1>5, KindOf
  <2>2. /\ v.t = w.t /\ w.t \in Target /\ v.st = w.st /\ w.st \in State /\ v.full = w.full /\ v.left = w.left
        /\ v.file = w.file /\ v.ups = w.ups /\ v.read = w.read /\ calmly
    BY <1>5, <2>1 DEF Hashes
  <2>3. TargetGood(v, e2) /\ w.t.head.at <= e.user
    BY <1>1, <1>5, <2>2, TargetAdvance DEF RunGood, TargetGood
  <2>4. HashedGood(w, e)
    BY <1>5 DEF RunGood
  <2>5. StateGood(v.st, v.t, e2)
    BY <2>2, <2>4, GoodAdvance DEF HashedGood, Target
  <2>6. ASSUME NEW p \in DOMAIN v.file PROVE RecordGood(v.file[p], v.st.github, v.t, p, e2)
    <3>1. w.file[p] \in FileState /\ p \in Paths
      BY <2>1, <2>2 DEF Hashes, Files
    <3>2. QED  BY <2>2, <2>3, <2>4, <3>1, RecordAdvance DEF HashedGood, Records
  <2>7. Exact(w, e) => Exact(v, e2)
    BY <2>2 DEF Exact, Undisturbed, Advance, HeadOf
  <2>8. HashedGood(v, e2)
    BY <2>2, <2>4, <2>5, <2>6, <2>7 DEF HashedGood, Records
  <2>9. QED  BY <1>1, <1>5, <2>3, <2>8 DEF RunGood
<1>6. CASE w.pc = "commit"
  <2>1. w \in Change
    BY <1>6, KindOf
  <2>2. /\ v.t = w.t /\ w.t \in Target /\ v.st = w.st /\ w.st \in State /\ v.full = w.full /\ v.first = w.first
        /\ v.file = w.file /\ v.ups = w.ups /\ v.todo = w.todo /\ calmly
    BY <1>6, <2>1 DEF Change
  <2>3. TargetGood(v, e2) /\ w.t.head.at <= e.user
    BY <1>1, <1>6, <2>2, TargetAdvance DEF RunGood, TargetGood
  <2>4. ChangeGood(w, e)
    BY <1>6 DEF RunGood
  <2>5. StateGood(v.st, v.t, e2)
    BY <2>2, <2>4, GoodAdvance DEF ChangeGood, Target
  <2>6. ASSUME NEW p \in DOMAIN v.file PROVE RecordGood(v.file[p], v.st.github, v.t, p, e2)
    <3>1. w.file[p] \in FileState /\ p \in Paths
      BY <2>1, <2>2 DEF Change, Files
    <3>2. QED  BY <2>2, <2>3, <2>4, <3>1, RecordAdvance DEF ChangeGood, Records
  <2>7. Exact(w, e) => Exact(v, e2)
    BY <2>2 DEF Exact, Undisturbed, Advance, HeadOf
  <2>8. ChangeGood(v, e2)
    BY <2>2, <2>4, <2>5, <2>6, <2>7 DEF ChangeGood, Records
  <2>9. QED  BY <1>1, <1>6, <2>3, <2>8 DEF RunGood
<1>7. CASE w.pc = "save"
  <2>1. w \in Result
    BY <1>7, KindOf
  <2>2. v.t = w.t /\ w.t \in Target /\ v.st = w.st /\ w.st \in State /\ v.queued = w.queued /\ calmly
    BY <1>7, <2>1 DEF Result
  <2>3. TargetGood(v, e2)
    BY <1>1, <1>7, <2>2, TargetAdvance DEF RunGood
  <2>4. ResultGood(v, e2)
    <3>1. ResultGood(w, e)
      BY <1>7 DEF RunGood
    <3>2. w.t.ref \in Refs \cup {None} /\ w.t.head \in Revision \cup {None}
      BY <2>2 DEF Target
    <3>3. w.st.ref \in Refs \cup {None} /\ w.st.head \in Revision \cup {None}
      BY <2>2 DEF State
    <3>4. QED  BY <2>2, <3>1, <3>2, <3>3, GoodAdvance DEF ResultGood
  <2>5. QED  BY <1>1, <1>7, <2>3, <2>4 DEF RunGood
<1>8. QED  BY <1>2, <1>3, <1>4, <1>5, <1>6, <1>7, KindOf DEF Idle

-----------------------------------------------------------------------------
(* What each step of a run makes of what the run knows.                     *)

(* What GitHub no longer supplies is left with a stamp that no file has.    *)
LEMMA SetGitHubGood ==
    ASSUME NEW e \in Surroundings, Clock(e), NEW st \in State, NEW on \in BOOLEAN,
           Stamped(st, e), Facts(st, st, e)
    PROVE  Stamped(SetGitHub(st, on), e) /\ Facts(SetGitHub(st, on), SetGitHub(st, on), e)
           /\ SetGitHub(st, on).github = on
<1> DEFINE without == [p \in Paths |-> IF st.files[p] # None /\ Omitted(st.files[p])
                                        THEN [st.files[p] EXCEPT !.stamp = 0, !.synced = FALSE] ELSE st.files[p]]
           files == IF st.github /\ ~ on THEN without ELSE st.files
           new == SetGitHub(st, on)
<1>1. new = [st EXCEPT !.github = on, !.files = files]
  BY DEF SetGitHub
<1>2. /\ new.pending = st.pending /\ new.ref = st.ref /\ new.head = st.head /\ new.up = st.up
      /\ new.refused = st.refused /\ new.files = files /\ new.github = on
  BY <1>1 DEF State
<1>3. ASSUME NEW p \in Paths, files[p] # None
      PROVE  /\ st.files[p] # None
             /\ files[p].sha = st.files[p].sha /\ files[p].oid = st.files[p].oid /\ files[p].dirty = st.files[p].dirty
             /\ files[p].unpushed = st.files[p].unpushed
             /\ files[p].stamp \in {0, st.files[p].stamp}
             /\ st.github /\ ~ on /\ Omitted(st.files[p]) => files[p].stamp = 0
  <2>1. st.files[p] \in FileState \cup {None}
    BY DEF State
  <2>2. files[p] = st.files[p] \/ (st.files[p] # None /\ files[p] = [st.files[p] EXCEPT !.stamp = 0, !.synced = FALSE])
    OBVIOUS
  <2>3. st.github /\ ~ on /\ st.files[p] # None /\ Omitted(st.files[p])
          => files[p] = [st.files[p] EXCEPT !.stamp = 0, !.synced = FALSE]
    OBVIOUS
  <2> HIDE DEF files
  <2>4. QED  BY <1>3, <2>1, <2>2, <2>3 DEF FileState
<1> HIDE DEF files, new
<1>4. ASSUME NEW p \in Paths, files[p] # None
      PROVE  /\ files[p].stamp <= e.user + 1
             /\ ContentOf(files[p], e.disk[p], on)
             /\ files[p].sha \notin TooLarge
  <2>1. st.files[p].stamp <= e.user + 1 /\ ContentOf(st.files[p], e.disk[p], st.github) /\ st.files[p].sha \notin TooLarge
    BY <1>3, <1>4 DEF Stamped
  <2>2. files[p].stamp <= e.user + 1
    BY <1>3, <1>4, <2>1, NumbersAround
  <2>3. e.disk[p].c # 0 => e.disk[p].s # 0
    BY DEF Clock
  <2>4. Omitted(files[p]) <=> Omitted(st.files[p])
    BY <1>3, <1>4 DEF Omitted
  <2>5. ContentOf(files[p], e.disk[p], on)
    BY <1>3, <1>4, <2>1, <2>3, <2>4 DEF ContentOf
  <2>6. QED  BY <1>3, <1>4, <2>1, <2>2, <2>5
<1>5. Stamped(new, e)
  BY <1>2, <1>4 DEF Stamped
<1>6. Facts(new, new, e)
  BY <1>2, <1>3 DEF Facts, AtHead, FactsOf
<1>7. QED  BY <1>2, <1>5, <1>6 DEF new

(* StateGood looks at no more of a state than this.                         *)
LEMMA GoodOf ==
    ASSUME NEW e, NEW st, NEW id, NEW st2, NEW id2,
           st2.files = st.files, st2.pending = st.pending, st2.refused = st.refused, st2.github = st.github,
           id2.ref = id.ref, id2.head = id.head, id2.up = id.up
    PROVE  /\ Stamped(st, e) => Stamped(st2, e)
           /\ Facts(st, id, e) => Facts(st2, id2, e)
           /\ Clear(st, id, e) => Clear(st2, id2, e)
           /\ StateGood(st, id, e) => StateGood(st2, id2, e)
           /\ Sound(st, id, e) /\ (st2.lastFull => st.lastFull) => Sound(st2, id2, e)
BY DEF Stamped, Facts, Clear, StateGood, Sound, AtHead, FactsOf

(* A step that leaves the surroundings alone but for the history.           *)
LEMMA StepAdvance ==
    ASSUME TypeOK, TypeOK', UNCHANGED <<disk, git, github, user>>, known \subseteq known'
    PROVE  /\ Around \in Surroundings /\ Around' \in Surroundings
           /\ Advance(Around, Around') /\ \A w : Noticed(w, Around, Around')
<1>1. Around \in Surroundings /\ Around' \in Surroundings
  BY DEF TypeOK, Around, Surroundings
<1>2. Advance(Around, Around') /\ \A w : Noticed(w, Around, Around')
  BY <1>1, NumbersAround DEF Advance, Noticed, HeadOf, Around
<1>3. QED  BY <1>1, <1>2

(* A run that fails before its work is queued.  What lost its mark by then  *)
(* is known.                                                                *)
LEMMA FailedGood ==
    ASSUME TypeOK, TypeOK', UNCHANGED <<disk, git, github, user>>, known \subseteq known',
           NEW w, TargetGood(w, Around), NEW st \in State, Stamped(st, Around), Facts(st, st, Around),
           st.lastFull => Clear(st, st, Around) \/ "toggled" \in known'
    PROVE  RunGood(Failed(w, st), Around')
<1> DEFINE v == Failed(w, st)
<1>1. v.pc = "save" /\ v.calm = w.calm /\ v.t = w.t /\ v.st = st /\ v.queued = FALSE
  BY DEF Failed
<1>2. Around'.user = Around.user /\ Around'.git = Around.git /\ Around'.known = known'
  BY DEF Around
<1> HIDE DEF v
<1>3. TargetGood(v, Around')
  BY <1>1, <1>2 DEF TargetGood, Now, HeadOf
<1>4. Stamped(st, Around')
  BY StepAdvance, StampedAdvance
<1>5. Facts(st, st, Around') /\ (Clear(st, st, Around) => Clear(st, st, Around'))
  <2>1. st.ref \in Refs \cup {None} /\ st.head \in Revision \cup {None}
    BY DEF State
  <2>2. QED  BY <2>1, StepAdvance, GoodAdvance
<1>6. "toggled" \in known' => Clear(st, st, Around')
  BY <1>2 DEF Clear
<1>7. Sound(st, st, Around')
  BY <1>4, <1>5, <1>6 DEF Sound
<1>8. ResultGood(v, Around')
  BY <1>1, <1>7 DEF ResultGood
<1>9. QED  BY <1>1, <1>3, <1>8 DEF RunGood, v

LEMMA ScanGood ==
    ASSUME TypeOK, TypeOK', Clock(Around), Sound(saved, saved, Around),
           NEW r \in Runs, Scan(r), RunGood(run[r], Around)
    PROVE  \E next : /\ run' = [run EXCEPT ![r] = next] /\ next.pc \in {"idle", "listed", "save"}
                    /\ (RunGood(next, Around) \/ RunGood(next, Around'))
<1> DEFINE w == run[r]
           e == Around
           full == Full(saved, w.t, w.req)
           base == IF saved.ref # w.t.ref THEN [saved EXCEPT !.lastFull = FALSE] ELSE saved
           st == IF full THEN SetGitHub(base, github) ELSE base
           turned == st.github # base.github
           headMoved == saved.ref # w.t.ref \/ saved.head # w.t.head
           upMoved == saved.ref # w.t.ref \/ saved.head # w.t.head \/ saved.up # w.t.up
           cand == Candidates(saved, w.t, w.req, full)
           next == [pc |-> "listed", calm |-> w.calm, t |-> w.t, st |-> st, full |-> full, cand |-> cand,
                    dirty |-> Changed, listed |-> FileList, turned |-> turned,
                    headMoved |-> headMoved, upMoved |-> upMoved]
<1>1. w.pc = "resolved" /\ w \in Resolved /\ TargetGood(w, e)
  BY KindOf DEF TypeOK, Scan, RunGood
<1>2. e \in Surroundings /\ e.disk = disk /\ e.git = git /\ e.github = github /\ e.user = user /\ e.known = known
  BY AroundType DEF Around
<1>3. /\ base \in State /\ base.files = saved.files /\ base.pending = saved.pending /\ base.refused = saved.refused
      /\ base.github = saved.github /\ base.ref = saved.ref /\ base.head = saved.head /\ base.up = saved.up
      /\ base.lastFull => saved.lastFull /\ saved.ref = w.t.ref
  BY DEF TypeOK, State
<1>4. ~ full => base.lastFull
  BY DEF Full
<1>5. UNCHANGED <<disk, git, github, user>> /\ known \subseteq known'
  BY DEF Scan, Overtaken
<1>6. \/ run' = [run EXCEPT ![r] = Idle]
      \/ run' = [run EXCEPT ![r] = next]
      \/ \E b \in BOOLEAN : run' = [run EXCEPT ![r] = Failed(w, [base EXCEPT !.backedOff = b])]
      \/ run' = [run EXCEPT ![r] = Failed(w, st)] /\ (turned /\ st.lastFull => "toggled" \in known')
  BY DEF Scan, Toggled
<1> HIDE DEF w, e, full, base
<1>7. Stamped(base, e) /\ Facts(base, base, e) /\ (base.lastFull => Clear(base, base, e))
  BY <1>3, GoodOf DEF Sound, e
<1>8. github \in BOOLEAN /\ base.github \in BOOLEAN
  BY <1>3 DEF TypeOK, State
<1>9. /\ st \in State /\ Stamped(st, e) /\ Facts(st, st, e)
      /\ st.lastFull = base.lastFull /\ (full => st.github = github)
      /\ st.lastFull /\ ~ turned => Clear(st, st, e)
      /\ ~ full => ~ turned
  <2>1. CASE ~ full
    BY <1>3, <1>7, <2>1
  <2>2. CASE full
    <3> DEFINE new == SetGitHub(base, github)
    <3>1. new \in State /\ new.lastFull = base.lastFull /\ new.pending = base.pending /\ new.ref = base.ref
      BY <1>3, <1>8, SetGitHubType, SetGitHubKeeps
    <3>2. Stamped(new, e) /\ Facts(new, new, e) /\ new.github = github
      BY <1>2, <1>3, <1>7, <1>8, SetGitHubGood DEF e
    <3>3. ASSUME new.github = base.github
          PROVE  new.files = base.files /\ new.refused = base.refused /\ new.head = base.head /\ new.up = base.up
      <4>1. base.github = github
        BY <3>2, <3>3
      <4>2. QED  BY <1>3, <1>8, <4>1 DEF SetGitHub, State
    <3>4. st = new
      BY <2>2
    <3> HIDE DEF new, st
    <3>5. st.lastFull /\ ~ turned => Clear(st, st, e)
      BY <1>7, <3>1, <3>3, <3>4, GoodOf
    <3>6. QED  BY <2>2, <3>1, <3>2, <3>4, <3>5
  <2>3. QED  BY <2>1, <2>2
<1>10. st.pending = saved.pending /\ st.ref = saved.ref /\ st.head = saved.head /\ st.up = saved.up
       /\ \A p \in Paths : st.files[p] = None <=> saved.files[p] = None
  <2>1. CASE ~ full
    BY <1>3, <2>1
  <2>2. CASE full
    <3>1. SetGitHub(base, github).head = base.head /\ SetGitHub(base, github).up = base.up
      BY <1>3 DEF SetGitHub, State
    <3>2. st = SetGitHub(base, github)
      BY <2>2
    <3> HIDE DEF st
    <3>3. QED  BY <1>3, <1>8, <3>1, <3>2, SetGitHubKeeps
  <2>3. QED  BY <2>1, <2>2
<1>11. /\ saved.pending \subseteq cand
       /\ full => \A p \in Paths : disk[p].c # 0 => p \in cand
       /\ full \/ upMoved => \A p \in Paths : saved.files[p] # None => p \in cand
  BY DEF Candidates, FileList
<1> HIDE DEF st, headMoved, cand, turned
<1>12. next.pc = "listed" /\ RunGood(next, e)
  <2>1. TargetGood(next, e)
    BY <1>1 DEF TargetGood
  <2>2. Looks(next)
    BY <1>4, <1>9, <1>10, <1>11 DEF Looks, headMoved
  <2>3. Told(next, e)
    <3>1. \A p \in Paths : p \in Changed <=> disk[p].c # 0 /\ disk[p].c # HeadOf(e).tree[p]
      BY <1>2 DEF Changed, HeadTree, Head, HeadOf
    <3>2. \A p \in Paths : disk[p].c # 0 => p \in FileList
      BY DEF FileList
    <3>3. QED  BY <1>2, <1>9, <1>11, <3>1, <3>2 DEF Told
  <2>4. ListedGood(next, e)
    BY <1>9, <2>2, <2>3 DEF ListedGood
  <2>5. QED  BY <2>1, <2>4 DEF RunGood
<1>13. ASSUME NEW b \in BOOLEAN PROVE RunGood(Failed(w, [base EXCEPT !.backedOff = b]), Around')
  <2> DEFINE bst == [base EXCEPT !.backedOff = b]
  <2>1. /\ bst.files = base.files /\ bst.pending = base.pending /\ bst.refused = base.refused /\ bst.github = base.github
        /\ bst.ref = base.ref /\ bst.head = base.head /\ bst.up = base.up /\ bst.lastFull = base.lastFull
        /\ bst \in State
    BY <1>3 DEF State
  <2> HIDE DEF bst
  <2>2. Stamped(bst, e) /\ Facts(bst, bst, e) /\ (bst.lastFull => Clear(bst, bst, e))
    BY <1>7, <2>1, GoodOf
  <2>3. RunGood(Failed(w, bst), Around')
    BY <1>1, <1>5, <2>1, <2>2, FailedGood DEF e
  <2>4. QED  BY <2>3 DEF bst
<1>14. (turned /\ st.lastFull => "toggled" \in known') => RunGood(Failed(w, st), Around')
  BY <1>1, <1>5, <1>9, FailedGood DEF e
<1>15. Idle.pc = "idle" /\ RunGood(Idle, e) /\ \A v : Failed(w, v).pc = "save"
  BY DEF Idle, RunGood, Failed
<1> HIDE DEF next
<1>16. QED  BY <1>6, <1>12, <1>13, <1>14, <1>15 DEF e

(* The run that has looked at the candidates.                               *)
LEMMA LookGood ==
    ASSUME TypeOK, Clock(Around), NEW w \in Listed, TargetGood(w, Around), ListedGood(w, Around)
    PROVE  RunGood(WithStat(w), Around)
<1> DEFINE v == WithStat(w)
<1>1. /\ v.pc = "scanned" /\ v.t = w.t /\ v.calm = w.calm /\ v.st = w.st /\ v.full = w.full /\ v.cand = w.cand
      /\ v.dirty = w.dirty /\ v.listed = w.listed /\ v.turned = w.turned
      /\ v.headMoved = w.headMoved /\ v.upMoved = w.upMoved /\ v.stat = disk
  BY DEF WithStat
<1>2. w.pc = "listed" /\ Around.disk = disk /\ Around.user = user
  BY DEF Listed, Around
<1> HIDE DEF v
<1>3. TargetGood(v, Around)
  BY <1>1, <1>2 DEF TargetGood
<1>4. ListedGood(v, Around)
  BY <1>1 DEF ListedGood, Looks, Told
<1>5. Looked(v, Around)
  BY <1>1, <1>2 DEF Looked, Clock
<1>6. QED  BY <1>1, <1>3, <1>4, <1>5 DEF RunGood, ScannedGood, v

(* The record that a run makes of a file it has looked at.                  *)
LEMMA RecordOf ==
    ASSUME TypeOK, NEW w \in Scanned, TargetGood(w, Around), ScannedGood(w, Around),
           NEW p \in Present(w)
    PROVE  /\ RecordGood(Hashed(w, p), w.st.github, w.t, p, Around)
           /\ Hashed(w, p).stamp = w.stat[p].s
           /\ Hashed(w, p).dirty <=> p \in w.dirty \/ Hashed(w, p).oid = 0
           /\ Hashed(w, p).sha \in TooLarge => p \in Read(w)
<1> DEFINE e == Around
           f == Hashed(w, p)
           old == w.st.files[p]
           on == w.st.github
           cached == old # None /\ p \notin w.st.pending
<1>0. p \in Paths /\ p \in w.cand /\ w.stat[p].c # 0
  BY DEF Present, Scanned
<1>1. e \in Surroundings /\ e.disk = disk /\ e.git = git /\ e.user = user /\ HeadOf(e) = Head
  BY AroundType DEF Around, HeadOf, Head
<1>2. /\ f.stamp = w.stat[p].s
      /\ f.oid = IF cached /\ ~ w.headMoved THEN old.oid ELSE HeadTree[p]
      /\ f.dirty <=> p \in w.dirty \/ f.oid = 0
      /\ f.unpushed <=> w.t.up = None \/ IF cached /\ ~ w.upMoved THEN old.unpushed ELSE w.t.up.tree[p] # HeadTree[p]
      /\ f.sha = IF LeftToGitHub(w, p) \/ Refused(w, p) THEN 0 ELSE IF Reused(w, p) THEN old.sha ELSE disk[p].c
  <2>1. \A sha : /\ FileOf(w, p, sha).stamp = w.stat[p].s /\ FileOf(w, p, sha).sha = sha
                 /\ FileOf(w, p, sha).oid = GitFacts(w, p).oid /\ FileOf(w, p, sha).dirty = GitFacts(w, p).dirty
                 /\ FileOf(w, p, sha).unpushed = GitFacts(w, p).unpushed
    BY DEF FileOf
  <2>2. GitFacts(w, p).oid = IF cached /\ ~ w.headMoved THEN old.oid ELSE HeadTree[p]
    BY DEF GitFacts
  <2>3. GitFacts(w, p).dirty <=> p \in w.dirty \/ GitFacts(w, p).oid = 0
    BY DEF GitFacts
  <2>4. GitFacts(w, p).unpushed <=> w.t.up = None \/ IF cached /\ ~ w.upMoved THEN old.unpushed ELSE w.t.up.tree[p] # HeadTree[p]
    BY DEF GitFacts
  <2> HIDE DEF cached, old
  <2>5. QED  BY <2>1, <2>2, <2>3, <2>4 DEF Hashed, old
<1>3. LeftToGitHub(w, p) <=> on /\ f.oid # 0 /\ ~ f.dirty /\ ~ f.unpushed
  <2>1. /\ FileOf(w, p, 0).sha = 0 /\ FileOf(w, p, 0).oid = GitFacts(w, p).oid /\ FileOf(w, p, 0).dirty = GitFacts(w, p).dirty
        /\ FileOf(w, p, 0).unpushed = GitFacts(w, p).unpushed
    BY DEF FileOf
  <2>2. /\ f.oid = GitFacts(w, p).oid /\ f.dirty = GitFacts(w, p).dirty
        /\ f.unpushed = GitFacts(w, p).unpushed
    BY DEF FileOf, Hashed
  <2>3. QED  BY <2>1, <2>2 DEF LeftToGitHub, Omitted
<1>4. old # None => ContentOf(old, e.disk[p], on) /\ old.sha \notin TooLarge
  BY <1>0 DEF ScannedGood, ListedGood, Stamped
<1>5. Refused(w, p) <=> w.st.refused[p] = w.stat[p].s
  BY DEF Refused
<1>6. Reused(w, p) => old # None /\ old.stamp = w.stat[p].s /\ ~ (on /\ Omitted(old))
  BY DEF Reused
<1> HIDE DEF f, e, on
<1>7. ContentOf(f, e.disk[p], on)
  <2> SUFFICES ASSUME w.stat[p].s = e.disk[p].s, e.disk[p].c # 0
               PROVE  f.sha = e.disk[p].c \/ (f.sha = 0 /\ (e.disk[p].c \in TooLarge \/ (on /\ Omitted(f))))
    BY <1>2 DEF ContentOf
  <2>1. CASE LeftToGitHub(w, p)
    BY <1>2, <1>3, <2>1 DEF Omitted
  <2>2. CASE Refused(w, p) /\ ~ LeftToGitHub(w, p)
    <3>1. w.st.refused[p] = e.disk[p].s
      BY <1>5, <2>2
    <3>2. e.disk[p].c \in TooLarge
      BY <1>0, <3>1 DEF ScannedGood, ListedGood, Stamped, e
    <3>3. QED  BY <1>2, <2>2, <3>2
  <2>3. CASE Reused(w, p) /\ ~ Refused(w, p) /\ ~ LeftToGitHub(w, p)
    BY <1>2, <1>4, <1>6, <2>3 DEF ContentOf
  <2>4. CASE ~ Reused(w, p) /\ ~ Refused(w, p) /\ ~ LeftToGitHub(w, p)
    BY <1>1, <1>2, <2>4
  <2>5. QED  BY <2>1, <2>2, <2>3, <2>4
<1>8. f.stamp <= e.user + 1
  BY <1>0, <1>2 DEF ScannedGood, ListedGood, Looked, e
<1>9. ASSUME AtHead(w.t, e) PROVE FactsOf(f, w.t, p)
  <2>1. w.t.ref = git.ref
    BY <1>1, <1>9 DEF AtHead, TargetGood, Scanned, e
  <2>2. HeadTree = w.t.head.tree
    BY <1>1, <1>9, <2>1 DEF AtHead, HeadTree, Head
  <2>3. ASSUME cached, ~ w.headMoved
        PROVE  /\ old.oid = w.t.head.tree[p]
               /\ ~ w.upMoved => (old.unpushed <=> w.t.up = None \/ w.t.up.tree[p] # w.t.head.tree[p])
    <3>1. w.st.ref = w.t.ref /\ w.st.head = w.t.head /\ (~ w.upMoved => w.st.up = w.t.up)
      BY <2>3 DEF ScannedGood, ListedGood, Looks
    <3>2. AtHead(w.st, e)
      BY <1>9, <3>1 DEF AtHead
    <3>3. FactsOf(old, w.st, p)
      BY <1>0, <2>3, <3>2 DEF ScannedGood, ListedGood, Facts, e
    <3>4. QED  BY <3>1, <3>3 DEF FactsOf
  <2>4. ~ w.upMoved => ~ w.headMoved
    BY DEF ScannedGood, ListedGood, Looks
  <2> HIDE DEF cached, old
  <2>5. f.oid = w.t.head.tree[p]
    BY <1>2, <2>2, <2>3
  <2>6. f.unpushed <=> w.t.up = None \/ w.t.up.tree[p] # w.t.head.tree[p]
    BY <1>2, <2>2, <2>3, <2>4
  <2>7. QED  BY <2>5, <2>6 DEF FactsOf
<1>10. ASSUME AtHead(w.t, e), "raced" \notin e.known PROVE CleanOf(f, on)
  <2> SUFFICES ASSUME ~ f.dirty
               PROVE  /\ f.oid # 0
                      /\ IF on /\ ~ f.unpushed THEN f.sha = 0 ELSE f.sha = f.oid \/ (f.sha = 0 /\ f.oid \in TooLarge)
    BY DEF CleanOf
  <2>1. f.oid # 0 /\ p \notin w.dirty
    BY <1>2
  <2>2. w.t.ref = git.ref
    BY <1>1, <1>10 DEF AtHead, TargetGood, Scanned, e
  <2>3. HeadTree = w.t.head.tree
    BY <1>1, <1>10, <2>2 DEF AtHead, HeadTree, Head
  <2>4. w.stat[p] = e.disk[p] /\ (e.disk[p].c # 0 => e.disk[p].c = HeadOf(e).tree[p])
    BY <1>0, <1>10, <2>1 DEF ScannedGood, ListedGood, Looked, Told, AtHead, e
  <2>5. f.oid = w.t.head.tree[p]
    BY <1>9, <1>10 DEF FactsOf
  <2>6. e.disk[p].c = f.oid
    BY <1>0, <1>1, <2>3, <2>4, <2>5 DEF HeadTree
  <2>7. f.sha = f.oid \/ (f.sha = 0 /\ (f.oid \in TooLarge \/ (on /\ Omitted(f))))
    BY <1>2, <1>7, <2>4, <2>6 DEF ContentOf
  <2>8. CASE on /\ ~ f.unpushed
    BY <1>2, <1>3, <2>1, <2>8
  <2>9. CASE ~ (on /\ ~ f.unpushed)
    BY <2>1, <2>7, <2>9 DEF Omitted
  <2>10. QED  BY <2>1, <2>8, <2>9
<1>11. f.sha \in TooLarge => p \in Read(w)
  <2>1. 0 \notin TooLarge
    BY CodeSyncAssumption
  <2>2. f.sha \in TooLarge => Reads(w, p)
    BY <1>2, <1>4, <1>6, <2>1 DEF Reads
  <2>3. QED  BY <2>2 DEF Read, Present
<1>12. on /\ f.oid # 0 /\ ~ f.dirty /\ ~ f.unpushed => f.sha = 0
  BY <1>2, <1>3
<1>13. RecordGood(f, on, w.t, p, e)
  BY <1>7, <1>8, <1>9, <1>10, <1>12 DEF RecordGood
<1>14. QED  BY <1>2, <1>11, <1>13 DEF f, on, e

(* The state after the loop: the files it found to be as the server has     *)
(* them have their new stamp and the same facts.                            *)
LEMMA RefreshedGood ==
    ASSUME TypeOK, Clock(Around), NEW w \in Scanned, TargetGood(w, Around), ScannedGood(w, Around),
           NEW paths \in SUBSET Present(w), NEW seen
    PROVE  LET file == [p \in paths |-> Hashed(w, p)]
               st   == Refreshed(w, file, seen)
           IN  /\ st \in State /\ st.lastFull = w.st.lastFull /\ st.pending = w.st.pending /\ st.github = w.st.github
               /\ st.ref = w.st.ref /\ st.head = w.st.head /\ st.up = w.st.up
               /\ Stamped(st, Around)
               /\ \A p \in Paths \ Same(w, file) : st.files[p] = w.st.files[p]
               /\ \A p \in Same(w, file) :
                    /\ p \in paths /\ w.st.files[p] # None /\ w.st.files[p].synced
                    /\ st.files[p] # None /\ st.files[p].synced
                    /\ EntryOf(st.files[p]) = EntryOf(file[p])
                    /\ EntryOf(st.files[p]) = EntryOf(w.st.files[p])
                    /\ file[p].sha \notin TooLarge
<1> DEFINE e == Around
           file == [p \in paths |-> Hashed(w, p)]
           same == Same(w, file)
           files == [p \in Paths |-> IF p \in same THEN [file[p] EXCEPT !.synced = TRUE] ELSE w.st.files[p]]
           refused == [p \in Paths |-> IF p \in seen /\ ~ LeftToGitHub(w, p) /\ ~ Refused(w, p) THEN 0
                                       ELSE w.st.refused[p]]
           st == Refreshed(w, file, seen)
<1>1. e \in Surroundings
  BY AroundType
<1>2. paths \subseteq Paths /\ DOMAIN file = paths
  BY DEF Present, Scanned
<1>3. ASSUME NEW p \in paths
      PROVE  file[p] \in FileState /\ RecordGood(file[p], w.st.github, w.t, p, e)
  <2>1. p \in Present(w) /\ p \in Paths /\ file[p] = Hashed(w, p)
    BY <1>2
  <2> HIDE DEF file
  <2>2. QED  BY <2>1, RecordOf, HashedType
<1>4. file \in [paths -> FileState]
  <2>1. \A p \in paths : Hashed(w, p) \in FileState
    BY <1>3
  <2>2. QED  BY <2>1
<1>5. st \in State
  <2>1. file \in Files
    BY <1>2, <1>4, FilesOver
  <2>2. QED  BY <2>1, RefreshedType
<1>6. /\ st.files = files /\ st.refused = refused /\ st.pending = w.st.pending /\ st.github = w.st.github
      /\ st.ref = w.st.ref /\ st.head = w.st.head /\ st.up = w.st.up /\ st.lastFull = w.st.lastFull
  BY DEF Refreshed, Scanned, State
<1>7. ASSUME NEW p \in same
      PROVE  /\ p \in paths /\ p \in Paths
             /\ w.st.files[p] # None /\ w.st.files[p].synced /\ EntryOf(w.st.files[p]) = EntryOf(file[p])
             /\ files[p] = [file[p] EXCEPT !.synced = TRUE]
  BY <1>2 DEF Same
<1> HIDE DEF file, e, same, st
<1>8. ASSUME NEW p \in same
      PROVE  /\ files[p] # None /\ files[p].synced
             /\ files[p].stamp = file[p].stamp /\ EntryOf(files[p]) = EntryOf(file[p])
             /\ file[p].sha \notin TooLarge
  <2>1. files[p] = [file[p] EXCEPT !.synced = TRUE] /\ file[p] \in FileState
    BY <1>3, <1>7
  <2>2. file[p].sha = w.st.files[p].sha
    BY <1>7 DEF EntryOf
  <2>3. w.st.files[p].sha \notin TooLarge
    BY <1>7 DEF ScannedGood, ListedGood, Stamped
  <2> HIDE DEF files
  <2>4. files[p] # None /\ EntryOf(files[p]) = EntryOf(file[p])
    BY <2>1, Marked
  <2>5. QED  BY <2>1, <2>2, <2>3, <2>4 DEF FileState
<1>9. \A p \in Paths \ same : files[p] = w.st.files[p]
  OBVIOUS
<1> HIDE DEF files
<1>10. Stamped(st, e)
  <2> SUFFICES ASSUME NEW p \in Paths
               PROVE  /\ files[p] # None => /\ files[p].stamp <= e.user + 1
                                            /\ ContentOf(files[p], e.disk[p], w.st.github)
                                            /\ files[p].sha \notin TooLarge
                      /\ refused[p] <= e.user + 1
                      /\ refused[p] = e.disk[p].s /\ e.disk[p].c # 0 => e.disk[p].c \in TooLarge
    BY <1>6 DEF Stamped
  <2>1. /\ refused[p] <= e.user + 1
        /\ refused[p] = e.disk[p].s /\ e.disk[p].c # 0 => e.disk[p].c \in TooLarge
    <3>1. refused[p] = 0 \/ refused[p] = w.st.refused[p]
      OBVIOUS
    <3>2. e.disk[p].c # 0 => e.disk[p].s # 0
      BY DEF Clock, e
    <3>3. /\ w.st.refused[p] <= e.user + 1
          /\ w.st.refused[p] = e.disk[p].s /\ e.disk[p].c # 0 => e.disk[p].c \in TooLarge
      BY DEF ScannedGood, ListedGood, Stamped, e
    <3> HIDE DEF refused
    <3>4. QED  BY <1>1, <3>1, <3>2, <3>3, NumbersAround
  <2>2. CASE p \in same
    <3>1. RecordGood(file[p], w.st.github, w.t, p, e)
      BY <1>3, <1>7, <2>2
    <3>2. files[p].sha = file[p].sha /\ (Omitted(files[p]) <=> Omitted(file[p]))
      BY <1>8, <2>2 DEF EntryOf, Omitted
    <3>3. /\ files[p].stamp <= e.user + 1
          /\ ContentOf(files[p], e.disk[p], w.st.github)
          /\ files[p].sha \notin TooLarge
      BY <1>8, <2>2, <3>1, <3>2 DEF RecordGood, ContentOf
    <3>4. QED  BY <3>3, <2>1
  <2>3. CASE p \notin same
    <3>1. files[p] = w.st.files[p]
      BY <1>9, <2>3
    <3>2. w.st.files[p] # None => /\ w.st.files[p].stamp <= e.user + 1
                                  /\ ContentOf(w.st.files[p], e.disk[p], w.st.github)
                                  /\ w.st.files[p].sha \notin TooLarge
      BY DEF ScannedGood, ListedGood, Stamped, e
    <3>3. QED  BY <2>1, <3>1, <3>2
  <2>4. QED  BY <2>2, <2>3
<1>11. \A p \in Paths \ same : st.files[p] = w.st.files[p]
  BY <1>6, <1>9
<1>12. \A p \in same : /\ p \in paths /\ w.st.files[p] # None /\ w.st.files[p].synced
                        /\ st.files[p] # None /\ st.files[p].synced
                        /\ EntryOf(st.files[p]) = EntryOf(file[p])
                        /\ EntryOf(st.files[p]) = EntryOf(w.st.files[p])
                        /\ file[p].sha \notin TooLarge
  BY <1>6, <1>7, <1>8
<1>13. QED  BY <1>5, <1>6, <1>10, <1>11, <1>12 DEF st, same, file, e

(* A record's facts are in the entry it makes.                              *)
LEMMA SameEntry ==
    ASSUME NEW f, NEW g, EntryOf(f) = EntryOf(g), f.dirty \in BOOLEAN, g.dirty \in BOOLEAN,
           f.unpushed \in BOOLEAN, g.unpushed \in BOOLEAN
    PROVE  /\ f.sha = g.sha /\ f.oid = g.oid /\ f.dirty = g.dirty /\ f.unpushed = g.unpushed
           /\ \A id, p : FactsOf(f, id, p) <=> FactsOf(g, id, p)
           /\ \A on : CleanOf(f, on) <=> CleanOf(g, on)
<1>1. f.sha = g.sha /\ f.oid = g.oid /\ f.dirty = g.dirty /\ f.unpushed = g.unpushed
  BY DEF EntryOf
<1>2. QED  BY <1>1 DEF FactsOf, CleanOf

LEMMA HashGood ==
    ASSUME TypeOK, Clock(Around), NEW w \in Scanned, TargetGood(w, Around), ScannedGood(w, Around),
           NEW later, later \subseteq Read(w)
    PROVE  RunGood(Queued(w, later, [p \in Present(w) \ later |-> Hashed(w, p)]), Around)
<1> DEFINE e == Around
           file == [p \in Present(w) \ later |-> Hashed(w, p)]
           v == Queued(w, later, file)
           same == Same(w, file)
           ups == DOMAIN file \ same
           old == Refreshed(w, file, Present(w))
           files == old.files
           pending == (w.st.pending \ w.cand) \cup later \cup ups \cup Gone(w)
<1>1. e \in Surroundings
  BY AroundType
<1>2. Present(w) \subseteq w.cand /\ w.cand \subseteq Paths /\ later \subseteq Present(w) /\ DOMAIN file = Present(w) \ later
  BY DEF Present, Scanned, Read
<1>3. /\ v.pc = "queued" /\ v.t = w.t /\ v.calm = w.calm /\ v.full = w.full /\ v.left = (later # {})
      /\ v.file = file /\ v.ups = ups /\ v.read = Read(w) \cap ups
      /\ v.st = [old EXCEPT !.pending = (@ \ w.cand) \cup Owed(later, ups, Gone(w))]
  BY DEF Queued
<1>4. /\ old \in State /\ old.pending = w.st.pending /\ old.github = w.st.github
      /\ Stamped(old, e)
      /\ \A p \in Paths \ same : files[p] = w.st.files[p]
      /\ \A p \in same : /\ p \in Present(w) \ later /\ files[p] # None /\ files[p].synced
                          /\ EntryOf(files[p]) = EntryOf(file[p]) /\ file[p].sha \notin TooLarge
  <2> DEFINE paths == Present(w) \ later
  <2>1. paths \in SUBSET Present(w)
    OBVIOUS
  <2> HIDE DEF paths
  <2>2. LET fl == [p \in paths |-> Hashed(w, p)]
            st == Refreshed(w, fl, Present(w))
        IN  /\ st \in State /\ st.pending = w.st.pending /\ st.github = w.st.github
            /\ Stamped(st, Around)
            /\ \A p \in Paths \ Same(w, fl) : st.files[p] = w.st.files[p]
            /\ \A p \in Same(w, fl) : /\ p \in paths /\ st.files[p] # None /\ st.files[p].synced
                                       /\ EntryOf(st.files[p]) = EntryOf(fl[p]) /\ fl[p].sha \notin TooLarge
    BY <2>1, RefreshedGood
  <2>3. QED  BY <2>2 DEF paths
<1>5. ASSUME NEW p \in DOMAIN file
      PROVE  /\ p \in Paths /\ file[p] \in FileState
             /\ RecordGood(file[p], w.st.github, w.t, p, e)
             /\ file[p].stamp = w.stat[p].s
             /\ file[p].dirty <=> p \in w.dirty \/ file[p].oid = 0
             /\ file[p].sha \in TooLarge => p \in Read(w)
  <2>1. p \in Present(w) /\ p \in Paths /\ file[p] = Hashed(w, p)
    BY <1>2
  <2> HIDE DEF file
  <2>2. QED  BY <2>1, RecordOf, HashedType
<1> HIDE DEF file, e, same, ups, v, old
<1>6. v.st.files = files /\ v.st.pending = pending /\ v.st.refused = old.refused /\ v.st.github = w.st.github
  BY <1>3, <1>4 DEF Owed, State
<1>7. ASSUME NEW p \in same
      PROVE  /\ p \in DOMAIN file /\ files[p] # None /\ files[p].synced
             /\ \A id : FactsOf(files[p], id, p) <=> FactsOf(file[p], id, p)
             /\ \A on : CleanOf(files[p], on) <=> CleanOf(file[p], on)
             /\ file[p].sha \notin TooLarge
  <2>1. p \in DOMAIN file /\ files[p] # None /\ EntryOf(files[p]) = EntryOf(file[p]) /\ p \in Paths
    BY <1>2, <1>4
  <2>2. files[p] \in FileState /\ file[p] \in FileState
    BY <1>4, <1>5, <2>1 DEF State
  <2>3. /\ files[p].dirty \in BOOLEAN /\ file[p].dirty \in BOOLEAN
        /\ files[p].unpushed \in BOOLEAN /\ file[p].unpushed \in BOOLEAN
    BY <2>2 DEF FileState
  <2> HIDE DEF files
  <2>4. QED  BY <1>4, <2>1, <2>3, SameEntry DEF files
<1>8. \A p \in Paths \ same : files[p] = w.st.files[p]
  BY <1>4
<1>9. ASSUME NEW p \in Paths \ pending, p \notin same, w.st.files[p] # None
      PROVE  p \notin w.st.pending /\ ~ w.full /\ ~ w.upMoved
  <2>1. p \notin w.cand
    <3>1. p \in Present(w) => p \in later \/ p \in ups
      BY <1>2, <1>9 DEF ups
    <3>2. p \in w.cand \ Present(w) => p \in Gone(w)
      BY <1>9 DEF Gone
    <3>3. QED  BY <1>9, <3>1, <3>2
  <2>2. QED  BY <2>1, <1>9 DEF ScannedGood, ListedGood, Looks
<1> HIDE DEF files, pending
<1>10. Stamped(v.st, e)
  BY <1>4, <1>6 DEF Stamped, files
<1>11. Facts(v.st, v.t, e)
  <2> SUFFICES ASSUME AtHead(w.t, e), NEW p \in Paths \ pending, files[p] # None
               PROVE  FactsOf(files[p], w.t, p)
    BY <1>3, <1>6 DEF Facts, TargetGood, e
  <2>1. CASE p \in same
    <3>1. FactsOf(file[p], w.t, p)
      BY <1>5, <1>7, <2>1 DEF RecordGood
    <3>2. QED  BY <1>7, <2>1, <3>1
  <2>2. CASE p \notin same
    <3>1. files[p] = w.st.files[p] /\ p \notin w.st.pending /\ ~ w.upMoved
      BY <1>8, <1>9, <2>2
    <3>2. w.st.ref = w.t.ref /\ w.st.head = w.t.head /\ w.st.up = w.t.up
      BY <3>1 DEF ScannedGood, ListedGood, Looks
    <3>3. AtHead(w.st, e)
      BY <3>2 DEF AtHead
    <3>4. FactsOf(w.st.files[p], w.st, p)
      BY <3>1, <3>3 DEF ScannedGood, ListedGood, Facts, e
    <3>5. QED  BY <3>1, <3>2, <3>4 DEF FactsOf
  <2>3. QED  BY <2>1, <2>2
<1>12. Clear(v.st, v.t, e)
  <2> SUFFICES ASSUME "toggled" \notin e.known, NEW p \in Paths \ pending, files[p] # None
               PROVE  files[p].synced /\ (AtHead(w.t, e) /\ "raced" \notin e.known => CleanOf(files[p], w.st.github))
    BY <1>3, <1>6 DEF Clear
  <2>1. CASE p \in same
    <3>1. AtHead(w.t, e) /\ "raced" \notin e.known => CleanOf(file[p], w.st.github)
      BY <1>5, <1>7, <2>1 DEF RecordGood
    <3>2. QED  BY <1>7, <2>1, <3>1
  <2>2. CASE p \notin same
    <3>1. files[p] = w.st.files[p] /\ p \notin w.st.pending /\ ~ w.upMoved /\ ~ w.full
      BY <1>8, <1>9, <2>2
    <3>2. w.st.ref = w.t.ref /\ w.st.head = w.t.head /\ w.st.lastFull /\ ~ w.turned
      BY <3>1 DEF ScannedGood, ListedGood, Looks
    <3>3. AtHead(w.t, e) => AtHead(w.st, e)
      BY <3>2 DEF AtHead
    <3>4. Clear(w.st, w.st, e)
      BY <3>2 DEF ScannedGood, ListedGood, e
    <3>5. QED  BY <2>2, <3>1, <3>3, <3>4 DEF Clear
  <2>3. QED  BY <2>1, <2>2
<1>13. Records(v, e)
  BY <1>3, <1>5, <1>6 DEF Records
<1>14. \A p \in DOMAIN file : file[p].sha \in TooLarge => p \in Read(w) \cap ups
  BY <1>5, <1>7 DEF ups
<1>15. ASSUME w.full, later = {} PROVE Exact(v, e)
  <2> SUFFICES ASSUME w.calm, Undisturbed(e)
               PROVE  /\ w.st.github = e.github
                      /\ \A p \in Paths :
                           /\ p \in DOMAIN file <=> e.disk[p].c # 0
                           /\ p \in DOMAIN file =>
                                file[p].stamp = e.disk[p].s /\ (file[p].dirty <=> e.disk[p].c # HeadOf(e).tree[p])
    BY <1>3, <1>6 DEF Exact
  <2>1. w.t = Now(e) /\ w.stat = e.disk /\ w.st.github = e.github
        /\ \A p \in Paths : e.disk[p].c # 0 => p \in w.cand \cap w.listed
    BY <1>15 DEF TargetGood, ScannedGood, ListedGood, Looked, Told, e
  <2>2. \A p \in Paths : p \in DOMAIN file <=> e.disk[p].c # 0
    BY <1>2, <1>15, <2>1 DEF Present, Tracked
  <2>3. AtHead(w.t, e)
    <3>1. e.git.ref # None
      BY <1>1, NoneIsNothingElse DEF Surroundings
    <3>2. QED  BY <2>1, <3>1 DEF AtHead, Now, HeadOf
  <2>4. ASSUME NEW p \in DOMAIN file, p \in Paths
        PROVE  file[p].dirty <=> e.disk[p].c # HeadOf(e).tree[p]
    <3>1. file[p].oid = HeadOf(e).tree[p]
      BY <1>5, <2>1, <2>3 DEF RecordGood, FactsOf, Now
    <3>2. p \in w.dirty <=> e.disk[p].c # 0 /\ e.disk[p].c # HeadOf(e).tree[p]
      BY <2>4 DEF ScannedGood, ListedGood, Told, e
    <3>3. QED  BY <1>5, <2>2, <2>4, <3>1, <3>2
  <2>5. QED  BY <1>5, <2>1, <2>2, <2>4
<1>16. HashedGood(v, e)
  BY <1>3, <1>10, <1>11, <1>12, <1>13, <1>14, <1>15 DEF HashedGood, StateGood
<1>17. TargetGood(v, e)
  BY <1>3 DEF TargetGood, e
<1>18. QED  BY <1>3, <1>16, <1>17 DEF RunGood, v, file, e

(* The state of a run that fails in the loop.                               *)
LEMMA PartlyGood ==
    ASSUME TypeOK, Clock(Around), NEW w \in Scanned, TargetGood(w, Around), ScannedGood(w, Around),
           NEW paths \in SUBSET Present(w), NEW seen
    PROVE  LET st == Refreshed(w, [p \in paths |-> Hashed(w, p)], seen)
           IN  /\ st \in State /\ st.lastFull = w.st.lastFull
               /\ Stamped(st, Around) /\ Facts(st, st, Around)
               /\ st.lastFull /\ ~ w.turned => Clear(st, st, Around)
<1> DEFINE file == [p \in paths |-> Hashed(w, p)]
           same == Same(w, file)
           st == Refreshed(w, file, seen)
<1>1. /\ st \in State /\ st.lastFull = w.st.lastFull /\ st.pending = w.st.pending /\ st.github = w.st.github
      /\ st.ref = w.st.ref /\ st.head = w.st.head /\ st.up = w.st.up
      /\ Stamped(st, Around)
      /\ \A p \in Paths \ same : st.files[p] = w.st.files[p]
      /\ \A p \in same : w.st.files[p] # None /\ st.files[p] # None /\ st.files[p].synced
                          /\ EntryOf(st.files[p]) = EntryOf(w.st.files[p])
  <2>1. LET fl == [p \in paths |-> Hashed(w, p)]
            nst == Refreshed(w, fl, seen)
        IN  /\ nst \in State /\ nst.lastFull = w.st.lastFull /\ nst.pending = w.st.pending /\ nst.github = w.st.github
            /\ nst.ref = w.st.ref /\ nst.head = w.st.head /\ nst.up = w.st.up
            /\ Stamped(nst, Around)
            /\ \A p \in Paths \ Same(w, fl) : nst.files[p] = w.st.files[p]
            /\ \A p \in Same(w, fl) :
                 /\ p \in paths /\ w.st.files[p] # None /\ w.st.files[p].synced
                 /\ nst.files[p] # None /\ nst.files[p].synced
                 /\ EntryOf(nst.files[p]) = EntryOf(fl[p])
                 /\ EntryOf(nst.files[p]) = EntryOf(w.st.files[p])
                 /\ fl[p].sha \notin TooLarge
    BY RefreshedGood
  <2>2. QED  BY <2>1
<1> HIDE DEF st, same
<1>2. ASSUME NEW p \in Paths, st.files[p] # None
      PROVE  /\ w.st.files[p] # None /\ (w.st.files[p].synced => st.files[p].synced)
             /\ \A id : FactsOf(st.files[p], id, p) <=> FactsOf(w.st.files[p], id, p)
             /\ \A on : CleanOf(st.files[p], on) <=> CleanOf(w.st.files[p], on)
  <2>1. CASE p \notin same
    BY <1>1, <1>2, <2>1
  <2>2. CASE p \in same
    <3>1. w.st.files[p] # None /\ EntryOf(st.files[p]) = EntryOf(w.st.files[p]) /\ st.files[p].synced
      BY <1>1, <2>2
    <3>2. st.files[p] \in FileState /\ w.st.files[p] \in FileState
      BY <1>1, <1>2, <3>1 DEF State, Scanned
    <3>3. /\ st.files[p].dirty \in BOOLEAN /\ w.st.files[p].dirty \in BOOLEAN
          /\ st.files[p].unpushed \in BOOLEAN /\ w.st.files[p].unpushed \in BOOLEAN
      BY <3>2 DEF FileState
    <3>4. QED  BY <3>1, <3>3, SameEntry
  <2>3. QED  BY <2>1, <2>2
<1>3. AtHead(st, Around) <=> AtHead(w.st, Around)
  BY <1>1 DEF AtHead
<1>4. \A p \in Paths : FactsOf(w.st.files[p], st, p) <=> FactsOf(w.st.files[p], w.st, p)
  BY <1>1 DEF FactsOf
<1>5. Facts(w.st, w.st, Around) /\ (w.st.lastFull /\ ~ w.turned => Clear(w.st, w.st, Around))
  BY DEF ScannedGood, ListedGood
<1>6. Facts(st, st, Around)
  BY <1>1, <1>2, <1>3, <1>4, <1>5 DEF Facts
<1>7. Clear(w.st, w.st, Around) => Clear(st, st, Around)
  BY <1>1, <1>2, <1>3 DEF Clear
<1>8. QED  BY <1>1, <1>5, <1>6, <1>7 DEF st

(* A content that is too large leaves the work as it is queued: the server  *)
(* lacks it, so that it is refused or not sent.                             *)
LEMMA UploadGood ==
    ASSUME NEW e \in Surroundings, NEW w \in Hashes, TargetGood(w, e), HashedGood(w, e),
           NEW unsent, NEW refused, refused \subseteq TooLarge,
           \A p \in w.read : w.file[p].sha \in TooLarge \ unsent => w.file[p].sha \in refused
    PROVE  RunGood(Uploaded(w, unsent, refused), e)
<1> DEFINE v == Uploaded(w, unsent, refused)
           kept == {p \in w.ups : w.file[p].sha \notin unsent}
           large == {p \in kept : w.file[p].sha \in refused}
           full == w.full /\ ~ w.left /\ kept = w.ups
           file == [p \in DOMAIN w.file |-> IF p \in large THEN [w.file[p] EXCEPT !.sha = 0] ELSE w.file[p]]
           refusals == [p \in Paths |-> IF p \in large THEN w.file[p].stamp ELSE w.st.refused[p]]
<1>1. /\ v.pc = "commit" /\ v.t = w.t /\ v.calm = w.calm /\ v.full = full /\ v.first = TRUE /\ v.file = file /\ v.ups = kept
      /\ v.todo = IF full THEN DOMAIN w.file ELSE kept \cup w.dels
  BY DEF Uploaded
<1>2. v.st.files = w.st.files /\ v.st.pending = w.st.pending /\ v.st.refused = refusals /\ v.st.github = w.st.github
  BY DEF Uploaded, Hashes, State
<1>3. DOMAIN file = DOMAIN w.file /\ large \subseteq kept /\ kept \subseteq w.ups /\ w.ups \subseteq DOMAIN w.file
      /\ DOMAIN w.file \subseteq Paths /\ \A p \in DOMAIN w.file : w.file[p] \in FileState
  BY DEF Hashes, Files
<1>4. 0 \notin TooLarge
  BY CodeSyncAssumption
<1>5. ASSUME NEW p \in large
      PROVE  /\ file[p].sha = 0 /\ file[p].stamp = w.file[p].stamp /\ file[p].oid = w.file[p].oid
             /\ file[p].dirty = w.file[p].dirty /\ file[p].unpushed = w.file[p].unpushed
             /\ w.file[p].sha \in TooLarge
  <2>1. file[p] = [w.file[p] EXCEPT !.sha = 0] /\ w.file[p] \in FileState
    BY <1>3
  <2>2. w.file[p].sha \in TooLarge
    OBVIOUS
  <2> HIDE DEF file
  <2>3. QED  BY <2>1, <2>2 DEF FileState
<1>6. \A p \in DOMAIN w.file \ large : file[p] = w.file[p]
  OBVIOUS
<1>7. \A p \in DOMAIN w.file : RecordGood(w.file[p], w.st.github, w.t, p, e)
  BY DEF HashedGood, Records
<1> HIDE DEF v, file
<1>8. ASSUME NEW p \in DOMAIN w.file PROVE RecordGood(file[p], w.st.github, w.t, p, e)
  <2>1. CASE p \in large
    <3>1. RecordGood(w.file[p], w.st.github, w.t, p, e)
      BY <1>7
    <3>2. ContentOf(file[p], e.disk[p], w.st.github)
      BY <1>4, <1>5, <2>1, <3>1 DEF RecordGood, ContentOf
    <3>3. FactsOf(w.file[p], w.t, p) => FactsOf(file[p], w.t, p)
      BY <1>5, <2>1 DEF FactsOf
    <3>4. CleanOf(w.file[p], w.st.github) => CleanOf(file[p], w.st.github)
      BY <1>4, <1>5, <2>1 DEF CleanOf
    <3>5. QED  BY <1>5, <2>1, <3>1, <3>2, <3>3, <3>4 DEF RecordGood
  <2>2. CASE p \notin large
    BY <1>6, <1>7, <2>2
  <2>3. QED  BY <2>1, <2>2
<1>9. ASSUME NEW p \in Paths
      PROVE  /\ refusals[p] <= e.user + 1
             /\ refusals[p] = e.disk[p].s /\ e.disk[p].c # 0 => e.disk[p].c \in TooLarge
  <2>1. CASE p \in large
    <3>1. refusals[p] = w.file[p].stamp /\ w.file[p].sha \in TooLarge
      BY <2>1
    <3>2. RecordGood(w.file[p], w.st.github, w.t, p, e)
      BY <1>3, <1>7, <2>1
    <3> HIDE DEF refusals, large
    <3>3. QED  BY <1>4, <3>1, <3>2 DEF RecordGood, ContentOf
  <2>2. CASE p \notin large
    <3>1. refusals[p] = w.st.refused[p]
      BY <2>2
    <3> HIDE DEF refusals
    <3>2. QED  BY <3>1 DEF HashedGood, StateGood, Stamped
  <2>3. QED  BY <2>1, <2>2
<1> HIDE DEF refusals
<1>10. StateGood(v.st, v.t, e)
  <2>1. Stamped(v.st, e)
    BY <1>2, <1>9 DEF HashedGood, StateGood, Stamped
  <2>2. Facts(v.st, v.t, e)
    BY <1>1, <1>2 DEF HashedGood, StateGood, Facts
  <2>3. Clear(v.st, v.t, e)
    BY <1>1, <1>2 DEF HashedGood, StateGood, Clear
  <2>4. QED  BY <2>1, <2>2, <2>3 DEF StateGood
<1>11. ASSUME NEW p \in DOMAIN w.file, p \in kept \/ p \notin w.ups PROVE file[p].sha \notin TooLarge
  <2>1. CASE p \in large
    BY <1>4, <1>5, <2>1
  <2>2. CASE p \notin large
    <3>1. file[p] = w.file[p]
      BY <1>6, <2>2
    <3>2. w.file[p].sha \in TooLarge => p \in w.read \cap w.ups
      BY DEF HashedGood
    <3>3. QED  BY <1>11, <2>2, <3>1, <3>2
  <2>3. QED  BY <2>1, <2>2
<1>12. ASSUME full PROVE Exact(v, e)
  <2>1. Exact(w, e)
    BY <1>12 DEF HashedGood
  <2>2. \A p \in DOMAIN file : file[p].stamp = w.file[p].stamp /\ file[p].dirty = w.file[p].dirty
    BY <1>3, <1>5, <1>6
  <2>3. QED  BY <1>1, <1>2, <1>3, <2>1, <2>2 DEF Exact
<1>13. ChangeGood(v, e)
  <2>1. Records(v, e)
    BY <1>1, <1>2, <1>3, <1>8 DEF Records
  <2>2. \A p \in v.ups : v.file[p].sha \notin TooLarge
    BY <1>1, <1>3, <1>11
  <2>3. v.full => /\ v.todo = DOMAIN v.file
                  /\ \A p \in DOMAIN v.file : v.file[p].sha \notin TooLarge
                  /\ Exact(v, e)
    BY <1>1, <1>3, <1>11, <1>12
  <2>4. QED  BY <1>10, <2>1, <2>2, <2>3 DEF ChangeGood
<1>14. TargetGood(v, e)
  BY <1>1 DEF TargetGood
<1>15. QED  BY <1>1, <1>13, <1>14 DEF RunGood, v

LEMMA RecordedGood ==
    ASSUME NEW e \in Surroundings, NEW w \in Change, ChangeGood(w, e)
    PROVE  StateGood(Recorded(w), w.t, e) /\ Recorded(w).github = w.st.github
<1> DEFINE sent == Chunk(w) \cap w.ups
           files == [p \in Paths |-> IF p \in sent THEN [w.file[p] EXCEPT !.synced = TRUE]
                                     ELSE IF p \in Deletes(w) THEN None ELSE w.st.files[p]]
           st == Recorded(w)
<1>1. /\ st.files = files /\ st.pending = w.st.pending \ (sent \cup Deletes(w))
      /\ st.refused = w.st.refused /\ st.github = w.st.github
  BY DEF Recorded, Change, State
<1>2. sent \subseteq w.ups /\ w.ups \subseteq DOMAIN w.file /\ \A p \in DOMAIN w.file : w.file[p] \in FileState
  BY DEF Change, Files
<1> HIDE DEF st, sent
<1>3. ASSUME NEW p \in sent, p \in Paths
      PROVE  /\ files[p].synced /\ files[p].stamp = w.file[p].stamp /\ files[p].sha = w.file[p].sha
             /\ files[p].oid = w.file[p].oid /\ files[p].dirty = w.file[p].dirty /\ files[p].unpushed = w.file[p].unpushed
             /\ w.file[p].sha \notin TooLarge
             /\ RecordGood(w.file[p], w.st.github, w.t, p, e)
  <2>1. files[p] = [w.file[p] EXCEPT !.synced = TRUE] /\ w.file[p] \in FileState
    BY <1>2, <1>3
  <2>2. w.file[p].sha \notin TooLarge /\ RecordGood(w.file[p], w.st.github, w.t, p, e)
    BY <1>2 DEF ChangeGood, Records
  <2> HIDE DEF files
  <2>3. QED  BY <2>1, <2>2 DEF FileState
<1>4. ASSUME NEW p \in Paths, p \notin sent, files[p] # None
      PROVE  files[p] = w.st.files[p] /\ p \notin Deletes(w)
  BY <1>4
<1> HIDE DEF files
<1>5. ASSUME NEW p \in Paths, files[p] # None
      PROVE  /\ files[p].stamp <= e.user + 1
             /\ ContentOf(files[p], e.disk[p], w.st.github)
             /\ files[p].sha \notin TooLarge
  <2>1. CASE p \in sent
    <3>1. Omitted(files[p]) <=> Omitted(w.file[p])
      BY <1>3, <2>1 DEF Omitted
    <3>2. QED  BY <1>3, <2>1, <3>1 DEF RecordGood, ContentOf
  <2>2. CASE p \notin sent
    BY <1>4, <1>5, <2>2 DEF ChangeGood, StateGood, Stamped
  <2>3. QED  BY <2>1, <2>2
<1>6. Stamped(st, e)
  BY <1>1, <1>5 DEF ChangeGood, StateGood, Stamped
<1>7. Facts(st, w.t, e)
  <2>1. ASSUME AtHead(w.t, e), NEW p \in Paths, p \notin st.pending, files[p] # None PROVE FactsOf(files[p], w.t, p)
    <3>1. CASE p \in sent
      BY <1>3, <2>1, <3>1 DEF RecordGood, FactsOf
    <3>2. CASE p \notin sent
      BY <1>1, <1>4, <2>1, <3>2 DEF ChangeGood, StateGood, Facts
    <3>3. QED  BY <3>1, <3>2
  <2>2. QED  BY <1>1, <2>1 DEF ChangeGood, StateGood, Facts
<1>8. Clear(st, w.t, e)
  <2>1. ASSUME "toggled" \notin e.known, NEW p \in Paths, p \notin st.pending, files[p] # None
        PROVE  files[p].synced /\ (AtHead(w.t, e) /\ "raced" \notin e.known => CleanOf(files[p], w.st.github))
    <3>1. CASE p \in sent
      BY <1>3, <2>1, <3>1 DEF RecordGood, CleanOf
    <3>2. CASE p \notin sent
      BY <1>1, <1>4, <2>1, <3>2 DEF ChangeGood, StateGood, Clear
    <3>3. QED  BY <3>1, <3>2
  <2>2. QED  BY <1>1, <2>1 DEF Clear
<1>9. QED  BY <1>1, <1>6, <1>7, <1>8 DEF StateGood, st

LEMMA FinishedGood ==
    ASSUME NEW e \in Surroundings, NEW w, NEW st \in State, NEW id, StateGood(st, id, e)
    PROVE  StateGood(Finished(w, st), id, e)
<1> DEFINE files == [p \in Paths |-> IF p \in w.dels THEN None ELSE st.files[p]]
           new == Finished(w, st)
<1>1. CASE ~ w.full
  BY <1>1 DEF Finished
<1>2. CASE w.full
  <2>1. new.files = files /\ new.pending = st.pending \ w.dels /\ new.refused = st.refused /\ new.github = st.github
    BY <1>2 DEF Finished, State
  <2>2. \A p \in Paths : files[p] # None => files[p] = st.files[p] /\ p \notin w.dels
    OBVIOUS
  <2> HIDE DEF files, new
  <2>3. Stamped(new, e)
    BY <2>1, <2>2 DEF StateGood, Stamped
  <2>4. Facts(new, id, e)
    BY <2>1, <2>2 DEF StateGood, Facts
  <2>5. Clear(new, id, e)
    BY <2>1, <2>2 DEF StateGood, Clear
  <2>6. QED  BY <2>3, <2>4, <2>5 DEF StateGood, new
<1>3. QED  BY <1>1, <1>2

LEMMA ConflictedGood ==
    ASSUME NEW e \in Surroundings, NEW w \in Change, NEW id, StateGood(w.st, id, e), NEW lacking \in SUBSET Paths
    PROVE  StateGood(Conflicted(w, lacking), id, e)
<1> DEFINE files == [p \in Paths |-> IF p \in lacking /\ w.st.files[p] # None
                                     THEN [w.st.files[p] EXCEPT !.synced = FALSE] ELSE w.st.files[p]]
           new == Conflicted(w, lacking)
<1>1. /\ new.files = files /\ new.pending = w.st.pending \cup lacking
      /\ new.refused = w.st.refused /\ new.github = w.st.github
  BY DEF Conflicted, Change, State
<1>2. ASSUME NEW p \in Paths, files[p] # None
      PROVE  /\ w.st.files[p] # None
             /\ files[p].stamp = w.st.files[p].stamp /\ files[p].sha = w.st.files[p].sha
             /\ Omitted(files[p]) <=> Omitted(w.st.files[p])
             /\ p \notin lacking => files[p] = w.st.files[p]
  <2>1. w.st.files[p] \in FileState \cup {None}
    BY DEF Change, State
  <2>2. files[p] = w.st.files[p] \/ (p \in lacking /\ w.st.files[p] # None /\ files[p] = [w.st.files[p] EXCEPT !.synced = FALSE])
    OBVIOUS
  <2> HIDE DEF files
  <2>3. QED  BY <1>2, <2>1, <2>2 DEF FileState, Omitted
<1> HIDE DEF files, new
<1>3. Stamped(new, e)
  BY <1>1, <1>2 DEF StateGood, Stamped, ContentOf
<1>4. Facts(new, id, e)
  BY <1>1, <1>2 DEF StateGood, Facts
<1>5. Clear(new, id, e)
  BY <1>1, <1>2 DEF StateGood, Clear
<1>6. QED  BY <1>3, <1>4, <1>5 DEF StateGood, new

LEMMA OnwardGood ==
    ASSUME NEW e \in Surroundings, NEW w \in Change, TargetGood(w, e), ChangeGood(w, e)
    PROVE  RunGood(Onward(w), e)
<1> DEFINE v == Onward(w)
<1>1. /\ v.pc = "commit" /\ v.t = w.t /\ v.full = w.full /\ v.first = FALSE /\ v.file = w.file
      /\ v.ups = w.ups /\ v.dels = w.dels /\ v.todo = w.todo \ Chunk(w) /\ v.st = Recorded(w)
  BY OnwardIs
<1>2. v.calm = w.calm
  BY DEF Onward, Change
<1> HIDE DEF v
<1>3. StateGood(v.st, v.t, e) /\ v.st.github = w.st.github
  BY <1>1, RecordedGood
<1>4. Records(v, e)
  BY <1>1, <1>3 DEF ChangeGood, Records
<1>5. Exact(w, e) => Exact(v, e)
  BY <1>1, <1>2, <1>3 DEF Exact
<1>6. ChangeGood(v, e)
  BY <1>1, <1>3, <1>4, <1>5 DEF ChangeGood
<1>7. TargetGood(v, e)
  BY <1>1, <1>2 DEF TargetGood, Change
<1>8. QED  BY <1>1, <1>6, <1>7 DEF RunGood, v

(* A run that ends early, with its work queued.                             *)
LEMMA EndGood ==
    ASSUME NEW e, NEW w, TargetGood(w, e), NEW st, StateGood(st, w.t, e)
    PROVE  RunGood(Ended(w, st), e)
<1>1. Ended(w, st).pc = "save" /\ Ended(w, st).t = w.t /\ Ended(w, st).st = st /\ Ended(w, st).queued = TRUE
      /\ Ended(w, st).calm = w.calm
  BY DEF Ended
<1>2. TargetGood(Ended(w, st), e)
  BY <1>1 DEF TargetGood
<1>3. QED  BY <1>1, <1>2 DEF RunGood, ResultGood, StateGood, Sound

-----------------------------------------------------------------------------
(* A step of run r: nothing moves around the runs.                          *)
LEMMA GitStep ==
    ASSUME TypeOK, TypeOK', GitHolds, NEW r \in Runs, NEW next, run' = [run EXCEPT ![r] = next],
           UNCHANGED <<disk, git, github, user>>, known \subseteq known',
           RunGood(next, Around) \/ RunGood(next, Around'),
           server'.blobs \cap TooLarge = {}, Sound(saved', saved', Around), Alone'
    PROVE  GitHolds'
<1>1. PICK e, e2 : e = Around /\ e2 = Around'
  OBVIOUS
<1>2. e \in Surroundings /\ e2 \in Surroundings /\ Advance(e, e2) /\ \A w : Noticed(w, e, e2)
  BY <1>1, StepAdvance
<1>3. e2.disk = e.disk /\ e2.git = e.git /\ e2.github = e.github
  BY <1>1 DEF Around
<1>4. Clock(e) /\ Clock(e2)
  BY <1>1, <1>2, ClockAdvance DEF GitHolds
<1>5. Sound(saved', saved', e2)
  <2>1. saved' \in State
    BY DEF TypeOK
  <2>2. saved'.ref \in Refs \cup {None} /\ saved'.head \in Revision \cup {None}
    BY <2>1 DEF State
  <2>3. QED  BY <1>1, <1>2, <2>1, <2>2, GoodAdvance
<1>6. ASSUME NEW q \in Runs PROVE RunGood(run'[q], e2)
  <2>1. run'[q] \in RunState
    BY DEF TypeOK
  <2>2. RunGood(run'[q], e) \/ RunGood(run'[q], e2)
    BY <1>1 DEF TypeOK, GitHolds
  <2>3. QED  BY <1>2, <1>3, <1>4, <2>1, <2>2, RunAdvance
<1>7. QED  BY <1>1, <1>4, <1>5, <1>6 DEF GitHolds

LEMMA Uncalm ==
    ASSUME NEW w \in RunState, w.pc # "idle"
    PROVE  [w EXCEPT !.calm = FALSE].calm = FALSE
BY DEF RunState, Idle, Resolved, Listed, Scanned, Hashes, Change, Result

(* A step of no run.                                                        *)
LEMMA GitWorld ==
    ASSUME TypeOK, TypeOK', GitHolds, Disturb, Advance(Around, Around'),
           \A r \in Runs : Noticed(run[r], Around, Around'),
           server'.blobs \cap TooLarge = {}, Sound(saved', saved', Around), Alone'
    PROVE  GitHolds'
<1>1. PICK e, e2 : e = Around /\ e2 = Around'
  OBVIOUS
<1>2. e \in Surroundings /\ e2 \in Surroundings
  BY <1>1 DEF TypeOK, Around, Surroundings
<1>3. Clock(e) /\ Clock(e2)
  BY <1>1, <1>2, ClockAdvance DEF GitHolds
<1>4. Sound(saved', saved', e2)
  <2>1. saved' \in State
    BY DEF TypeOK
  <2>2. saved'.ref \in Refs \cup {None} /\ saved'.head \in Revision \cup {None}
    BY <2>1 DEF State
  <2>3. QED  BY <1>1, <1>2, <2>1, <2>2, GoodAdvance
<1>5. ASSUME NEW q \in Runs PROVE RunGood(run'[q], e2)
  <2>1. run[q] \in RunState /\ RunGood(run[q], e) /\ Noticed(run[q], e, e2)
    BY <1>1 DEF TypeOK, GitHolds
  <2>2. CASE run[q].pc = "idle"
    BY <2>2 DEF Disturb, RunGood
  <2>3. CASE run[q].pc # "idle"
    <3>1. run'[q] = [run[q] EXCEPT !.calm = FALSE]
      BY <2>3 DEF Disturb
    <3>2. ~ run'[q].calm
      BY <2>1, <2>3, <3>1, Uncalm
    <3>3. QED  BY <1>1, <1>2, <1>3, <2>1, <2>3, <3>1, <3>2, RunAdvance
  <2>4. QED  BY <2>2, <2>3
<1>6. QED  BY <1>1, <1>3, <1>4, <1>5 DEF GitHolds

(* The run that holds the lock goes on.                                     *)
LEMMA StaysAlone ==
    ASSUME TypeOK, Alone, NEW r \in Runs, Active(r), NEW next, run' = [run EXCEPT ![r] = next],
           next.pc \notin {"idle", "resolved"}, lock' = lock, known \subseteq known',
           "overtaken" \notin known' => Begun(next, server'.tree[next.t.ref])
    PROVE  Alone'
<1> SUFFICES ASSUME "overtaken" \notin known'
             PROVE  OneRun' /\ \A q \in Runs : Begun(run[q], server.tree[run[q].t.ref])'
  BY DEF Alone
<1>1. OneRun
  BY DEF Alone
<1>2. /\ \A q \in Runs : Active(q)' <=> Active(q)
      /\ \A q \in Runs : Active(q) => q = r
  BY <1>1 DEF TypeOK, OneRun, Active
<1>3. OneRun'
  BY <1>1, <1>2 DEF OneRun
<1>4. run'[r] = next
  BY DEF TypeOK
<1>5. ASSUME NEW q \in Runs, q # r PROVE Begun(run'[q], server'.tree[run'[q].t.ref])
  BY <1>2, <1>5 DEF Active, Begun
<1>6. QED  BY <1>3, <1>4, <1>5

(* No run is under way, or none but one that has just begun.                *)
LEMMA NewlyAlone ==
    ASSUME TypeOK,
           "overtaken" \notin known' =>
               /\ \A q \in Runs : run'[q].pc # "commit"
               /\ \A q \in Runs : Active(q)' <=> lock' = q
    PROVE  Alone'
BY DEF Alone, OneRun, Begun

LEMMA NoneActive ==
    ASSUME Alone, "overtaken" \notin known, lock \notin Runs
    PROVE  \A q \in Runs : ~ Active(q)
BY DEF Alone, OneRun

LEMMA ScanGit ==
    ASSUME TypeOK, TypeOK', GitHolds, NEW r \in Runs, Scan(r)
    PROVE  GitHolds'
<1>1. PICK next : /\ run' = [run EXCEPT ![r] = next] /\ next.pc \in {"idle", "listed", "save"}
                  /\ (RunGood(next, Around) \/ RunGood(next, Around'))
  BY ScanGood DEF GitHolds
<1>2. UNCHANGED <<disk, git, github, user, server, saved>> /\ known \subseteq known'
  BY DEF Scan, Overtaken
<1>3. Alone'
  <2>1. ASSUME "overtaken" \notin known' PROVE lock \notin Runs /\ "overtaken" \notin known
    BY <2>1 DEF Scan, Overtaken
  <2>2. ASSUME "overtaken" \notin known' PROVE \A q \in Runs : ~ Active(q)
    BY <2>1, <2>2, NoneActive DEF GitHolds
  <2>3. ASSUME "overtaken" \notin known', NEW q \in Runs
        PROVE  run'[q].pc # "commit" /\ (Active(q)' <=> q = r /\ next.pc # "idle")
    BY <1>1, <2>2, <2>3 DEF TypeOK, Active
  <2>4. (next.pc = "idle" /\ lock' = None) \/ (next.pc # "idle" /\ lock' = r)
    <3>1. run'[r] = next
      BY <1>1 DEF TypeOK
    <3>2. \/ lock' = None /\ run'[r] = Idle
          \/ lock' = r /\ run'[r].pc \in {"listed", "save"}
      BY DEF Scan, TypeOK, Failed
    <3>3. QED  BY <3>1, <3>2 DEF Idle
  <2>5. None \notin Runs
    BY NoneIsNothingElse
  <2>6. QED  BY <2>3, <2>4, <2>5, NewlyAlone
<1>4. QED  BY <1>1, <1>2, <1>3, GitStep DEF GitHolds

LEMMA LookGit ==
    ASSUME TypeOK, TypeOK', GitHolds, NEW r \in Runs, Look(r)
    PROVE  GitHolds'
<1> DEFINE w == run[r]
           next == WithStat(w)
<1>1. w \in Listed /\ w.pc = "listed" /\ Active(r)
  BY KindOf DEF TypeOK, Look, Active
<1>2. run' = [run EXCEPT ![r] = next] /\ UNCHANGED <<disk, git, github, user, server, saved, lock, known>>
  BY DEF Look
<1>3. TargetGood(w, Around) /\ ListedGood(w, Around) /\ Clock(Around)
  BY <1>1 DEF GitHolds, RunGood
<1> HIDE DEF w
<1>4. RunGood(next, Around)
  BY <1>1, <1>3, LookGood
<1>5. next.pc = "scanned"
  BY DEF WithStat
<1> HIDE DEF next
<1>6. Alone'
  BY <1>1, <1>2, <1>5, StaysAlone DEF GitHolds, Begun
<1>7. QED  BY <1>2, <1>4, <1>6, GitStep DEF GitHolds

LEMMA HashFailsGit ==
    ASSUME TypeOK, TypeOK', GitHolds, NEW r \in Runs, NEW p \in Paths, NEW later \in SUBSET Paths,
           HashFails(r, p, later)
    PROVE  GitHolds'
<1> DEFINE w == run[r]
           done == {q \in Present(w) : q < p}
           st == Refreshed(w, [q \in done \ later |-> Hashed(w, q)], done)
           next == Failed(w, st)
<1>1. w \in Scanned /\ w.pc = "scanned" /\ Active(r)
  BY KindOf DEF TypeOK, HashFails, Active
<1>2. /\ run' = [run EXCEPT ![r] = next] /\ UNCHANGED <<disk, git, github, user, server, saved, lock>>
      /\ known \subseteq known' /\ (w.turned /\ w.st.lastFull => "toggled" \in known')
  BY DEF HashFails, Toggled
<1>3. TargetGood(w, Around) /\ ScannedGood(w, Around) /\ Clock(Around)
  BY <1>1 DEF GitHolds, RunGood
<1> HIDE DEF w
<1>4. /\ st \in State /\ st.lastFull = w.st.lastFull /\ Stamped(st, Around) /\ Facts(st, st, Around)
      /\ st.lastFull /\ ~ w.turned => Clear(st, st, Around)
  <2>1. done \ later \in SUBSET Present(w)
    OBVIOUS
  <2> DEFINE paths == done \ later
             seen == done
  <2> HIDE DEF paths, seen
  <2>2. LET nst == Refreshed(w, [q \in paths |-> Hashed(w, q)], seen)
        IN  /\ nst \in State /\ nst.lastFull = w.st.lastFull
            /\ Stamped(nst, Around) /\ Facts(nst, nst, Around)
            /\ nst.lastFull /\ ~ w.turned => Clear(nst, nst, Around)
    BY <1>1, <1>3, <2>1, PartlyGood DEF paths
  <2>3. QED  BY <2>2 DEF paths, seen
<1> HIDE DEF st
<1>5. RunGood(next, Around')
  BY <1>2, <1>3, <1>4, FailedGood
<1>6. next.pc = "save"
  BY DEF Failed
<1> HIDE DEF next
<1>7. Alone'
  BY <1>1, <1>2, <1>6, StaysAlone DEF GitHolds, Begun
<1>8. QED  BY <1>2, <1>5, <1>7, GitStep DEF GitHolds

LEMMA HashGit ==
    ASSUME TypeOK, TypeOK', GitHolds, NEW r \in Runs, NEW later \in SUBSET Paths, Hash(r, later)
    PROVE  GitHolds'
<1> DEFINE w == run[r]
           next == Queued(w, later, [p \in Present(w) \ later |-> Hashed(w, p)])
<1>1. w \in Scanned /\ w.pc = "scanned" /\ Active(r)
  BY KindOf DEF TypeOK, Hash, Active
<1>2. later \subseteq Read(w) /\ run' = [run EXCEPT ![r] = next]
      /\ UNCHANGED <<disk, git, github, user, server, saved, lock, known>>
  BY DEF Hash
<1>3. TargetGood(w, Around) /\ ScannedGood(w, Around) /\ Clock(Around)
  BY <1>1 DEF GitHolds, RunGood
<1> HIDE DEF w
<1>4. RunGood(next, Around)
  BY <1>1, <1>2, <1>3, HashGood
<1>5. next.pc = "queued" /\ ~ (next.pc = "commit")
  BY DEF Queued
<1> HIDE DEF next
<1>6. Alone'
  BY <1>1, <1>2, <1>5, StaysAlone DEF GitHolds, Begun
<1>7. QED  BY <1>2, <1>4, <1>6, GitStep DEF GitHolds

LEMMA UploadGit ==
    ASSUME TypeOK, TypeOK', GitHolds, NEW r \in Runs, NEW unsent \in SUBSET Stamps, Upload(r, unsent)
    PROVE  GitHolds'
<1> DEFINE w == run[r]
           sv == IF w.full THEN PutWorktree(server) ELSE server
           missing == MissingBlobs(sv, {w.file[p].sha : p \in w.read} \ {0})
           refused == (missing \ unsent) \cap TooLarge
<1>1. w \in Hashes /\ w.pc = "queued" /\ Active(r)
  BY KindOf DEF TypeOK, Upload, Active
<1>2. UNCHANGED <<disk, git, github, user, saved, lock, known>>
  BY DEF Upload
<1>3. TargetGood(w, Around) /\ HashedGood(w, Around) /\ w.t \in Target
  BY <1>1 DEF GitHolds, RunGood, Hashes
<1>4. sv.blobs = server.blobs /\ sv \in Store
  BY DEF TypeOK, PutWorktree, Store
<1>5. \A blobs : PutBlobs(sv, blobs).blobs = server.blobs \cup blobs
  BY <1>4 DEF PutBlobs, Store
<1>6. server'.blobs \cap TooLarge = {}
  <2>1. \E blobs : server' = PutBlobs(sv, blobs) /\ blobs \cap TooLarge = {}
    <3>1. \/ server' = PutBlobs(sv, missing \ (unsent \cup refused))
          \/ \E sent \in SUBSET (missing \ TooLarge) : server' = PutBlobs(sv, sent)
      BY DEF Upload
    <3>2. (missing \ (unsent \cup refused)) \cap TooLarge = {}
      OBVIOUS
    <3> HIDE DEF missing, refused, sv
    <3>3. QED  BY <3>1, <3>2
  <2>2. server.blobs \cap TooLarge = {}
    BY DEF GitHolds
  <2>3. QED  BY <1>5, <2>1, <2>2
<1>7. \A p \in w.read : w.file[p].sha \in TooLarge \ unsent => w.file[p].sha \in refused
  <2>1. 0 \notin TooLarge /\ server.blobs \cap TooLarge = {}
    BY CodeSyncAssumption DEF GitHolds
  <2>2. QED  BY <1>4, <2>1 DEF MissingBlobs
<1>8. run' = [run EXCEPT ![r] = Uploaded(w, unsent, refused)]
      \/ \E b \in BOOLEAN : run' = [run EXCEPT ![r] = Ended(w, [w.st EXCEPT !.backedOff = b])]
  BY DEF Upload
<1>9. refused \subseteq TooLarge
  OBVIOUS
<1>10. Around \in Surroundings
  BY AroundType
<1> HIDE DEF w, sv, missing, refused
<1>11. CASE run' = [run EXCEPT ![r] = Uploaded(w, unsent, refused)]
  <2> DEFINE next == Uploaded(w, unsent, refused)
  <2>1. RunGood(next, Around)
    BY <1>1, <1>3, <1>7, <1>9, <1>10, UploadGood
  <2>2. next.pc = "commit" /\ next.first
    BY DEF Uploaded
  <2> HIDE DEF next
  <2>3. Alone'
    BY <1>1, <1>2, <1>11, <2>2, StaysAlone DEF GitHolds, Begun, next
  <2>4. QED  BY <1>2, <1>6, <1>11, <2>1, <2>3, GitStep DEF GitHolds, next
<1>12. ASSUME NEW b \in BOOLEAN, run' = [run EXCEPT ![r] = Ended(w, [w.st EXCEPT !.backedOff = b])]
       PROVE  GitHolds'
  <2> DEFINE st == [w.st EXCEPT !.backedOff = b]
             next == Ended(w, st)
  <2>1. st.files = w.st.files /\ st.pending = w.st.pending /\ st.refused = w.st.refused /\ st.github = w.st.github
    BY <1>1 DEF Hashes, State
  <2>2. run' = [run EXCEPT ![r] = next]
    BY <1>12
  <2> HIDE DEF st
  <2>3. StateGood(st, w.t, Around)
    BY <1>3, <2>1, GoodOf DEF HashedGood
  <2>4. RunGood(next, Around)
    BY <1>3, <2>3, EndGood
  <2>5. next.pc = "save"
    BY DEF Ended
  <2> HIDE DEF next
  <2>6. Alone'
    BY <1>1, <1>2, <2>2, <2>5, StaysAlone DEF GitHolds, Begun
  <2>7. QED  BY <1>2, <1>6, <2>2, <2>4, <2>6, GitStep DEF GitHolds
<1>13. QED  BY <1>8, <1>11, <1>12

(* The tree after a batch of a full change of a run left in peace.          *)
LEMMA BegunOnward ==
    ASSUME NEW e, NEW w \in Change, NEW tree, NEW new, ChangeGood(w, e), Begun(w, tree), After(w, tree, new)
    PROVE  /\ Begun(Onward(w), new)
           /\ w.calm /\ w.full =>
                \A p \in Paths : new[p] = IF p \in DOMAIN w.file \ (w.todo \ Chunk(w)) THEN EntryOf(w.file[p]) ELSE None
<1>1. /\ Onward(w).calm = w.calm /\ Onward(w).full = w.full /\ Onward(w).file = w.file
      /\ Onward(w).todo = w.todo \ Chunk(w)
  BY DEF Onward, Change
<1>2. ASSUME w.calm, w.full, NEW p \in Paths
      PROVE  new[p] = IF p \in DOMAIN w.file \ (w.todo \ Chunk(w)) THEN EntryOf(w.file[p]) ELSE None
  <2>1. Chunk(w) \subseteq w.todo /\ w.todo \subseteq DOMAIN w.file /\ (w.first => w.todo = DOMAIN w.file)
    BY <1>2 DEF Chunk, ChangeGood
  <2>2. Deletes(w) = {}
    BY <2>1 DEF Deletes
  <2>3. new[p] = IF p \in Chunk(w) THEN EntryOf(w.file[p]) ELSE IF w.first THEN None ELSE tree[p]
    BY <1>2, <2>1, <2>2 DEF After
  <2>4. CASE w.first
    BY <2>1, <2>3, <2>4
  <2>5. CASE ~ w.first
    <3>1. tree[p] = IF p \in DOMAIN w.file \ w.todo THEN EntryOf(w.file[p]) ELSE None
      BY <1>2, <2>5 DEF Begun, Change
    <3>2. QED  BY <2>1, <2>3, <2>5, <3>1
  <2>6. QED  BY <2>4, <2>5
<1>3. QED  BY <1>1, <1>2 DEF Begun

LEMMA CommitGit ==
    ASSUME TypeOK, TypeOK', GitHolds, NEW r \in Runs, CommitBatch(r)
    PROVE  GitHolds'
<1> DEFINE w == run[r]
           tree == server.tree[w.t.ref]
<1>1. w \in Change /\ w.pc = "commit" /\ Active(r)
  BY KindOf DEF TypeOK, CommitBatch, Active
<1>2. Taken(r) \/ Conflict(r) \/ CallFails(r) \/ AnswerLost(r)
  BY <1>1, Outcomes
<1>3. UNCHANGED <<disk, git, github, user, saved, lock>>
  BY DEF CommitBatch
<1>4. known \subseteq known'
  BY <1>2 DEF Taken, Conflict, CallFails, AnswerLost, Cut
<1>5. server'.blobs \cap TooLarge = {}
  <2>1. server' \in {Committed(w), PutWorktree(server), server}
    BY <1>2 DEF Taken, Conflict, CallFails, AnswerLost
  <2>2. server \in Store
    BY DEF TypeOK
  <2>3. Committed(w).blobs = server.blobs /\ PutWorktree(server).blobs = server.blobs
    BY <2>2 DEF Committed, Commit, PutWorktree, Store
  <2>4. QED  BY <2>1, <2>3 DEF GitHolds
<1>6. TargetGood(w, Around) /\ ChangeGood(w, Around) /\ Around \in Surroundings
  BY <1>1, AroundType DEF GitHolds, RunGood
<1>7. w.st \in State /\ Recorded(w) \in State
  BY <1>1, RecordedType DEF Change
<1>8. ASSUME NEW st, StateGood(st, w.t, Around), run' = [run EXCEPT ![r] = Ended(w, st)]
      PROVE  GitHolds'
  <2> DEFINE next == Ended(w, st)
  <2>1. RunGood(next, Around)
    BY <1>6, <1>8, EndGood
  <2>2. next.pc = "save"
    BY DEF Ended
  <2>3. run' = [run EXCEPT ![r] = next]
    BY <1>8
  <2> HIDE DEF next
  <2>4. Alone'
    BY <1>1, <1>3, <1>4, <2>2, <2>3, StaysAlone DEF GitHolds, Begun
  <2>5. QED  BY <1>3, <1>4, <1>5, <2>1, <2>3, <2>4, GitStep DEF GitHolds
<1>9. StateGood(w.st, w.t, Around)
  BY <1>6 DEF ChangeGood
<1>10. CASE Conflict(r)
  <2>1. PICK lacking \in SUBSET Paths : run' = [run EXCEPT ![r] = Ended(w, Conflicted(w, lacking))]
    BY <1>10 DEF Conflict
  <2>2. StateGood(Conflicted(w, lacking), w.t, Around)
    BY <1>1, <1>6, <1>9, ConflictedGood
  <2>3. QED  BY <1>8, <2>1, <2>2
<1>11. CASE CallFails(r)
  <2>1. PICK b \in BOOLEAN : run' = [run EXCEPT ![r] = Ended(w, [w.st EXCEPT !.backedOff = b])]
    BY <1>11 DEF CallFails
  <2> DEFINE st == [w.st EXCEPT !.backedOff = b]
  <2>2. st.files = w.st.files /\ st.pending = w.st.pending /\ st.refused = w.st.refused /\ st.github = w.st.github
    BY <1>7 DEF State
  <2>3. run' = [run EXCEPT ![r] = Ended(w, st)]
    BY <2>1
  <2> HIDE DEF st
  <2>4. StateGood(st, w.t, Around)
    BY <1>9, <2>2, GoodOf
  <2>5. QED  BY <1>8, <2>3, <2>4
<1>12. CASE AnswerLost(r)
  BY <1>8, <1>9, <1>12 DEF AnswerLost
<1>13. CASE Taken(r)
  <2>1. After(w, tree, server'.tree[w.t.ref])
    BY <1>1, <1>13, CommittedTree DEF Taken, After
  <2>2. StateGood(Recorded(w), w.t, Around)
    BY <1>1, <1>6, RecordedGood
  <2>3. CASE run' = [run EXCEPT ![r] = Ended(w, Finished(w, Recorded(w)))]
    <3>1. StateGood(Finished(w, Recorded(w)), w.t, Around)
      BY <1>6, <1>7, <2>2, FinishedGood
    <3>2. QED  BY <1>8, <2>3, <3>1
  <2>4. CASE run' = [run EXCEPT ![r] = Onward(w)]
    <3> DEFINE next == Onward(w)
    <3>1. RunGood(next, Around)
      BY <1>1, <1>6, OnwardGood
    <3>2. next.pc = "commit" /\ next.t = w.t
      BY <1>1, OnwardIs
    <3>3. run' = [run EXCEPT ![r] = next]
      BY <2>4
    <3>4. ASSUME "overtaken" \notin known' PROVE Begun(next, server'.tree[next.t.ref])
      <4>1. Begun(w, tree)
        BY <1>4, <3>4 DEF GitHolds, Alone
      <4>2. QED  BY <1>1, <1>6, <2>1, <3>2, <4>1, BegunOnward
    <3> HIDE DEF next
    <3>5. Alone'
      BY <1>1, <1>3, <1>4, <3>2, <3>3, <3>4, StaysAlone DEF GitHolds
    <3>6. QED  BY <1>3, <1>4, <1>5, <3>1, <3>3, <3>5, GitStep DEF GitHolds
  <2>5. QED  BY <1>13, <2>3, <2>4 DEF Taken, Onward
<1>14. QED  BY <1>2, <1>10, <1>11, <1>12, <1>13

LEMMA NothingGit ==
    ASSUME TypeOK, TypeOK', GitHolds, NEW r \in Runs, NothingToCommit(r)
    PROVE  GitHolds'
<1> DEFINE w == run[r]
           next == Ended(w, w.st)
<1>1. w.pc = "commit" /\ Active(r)
  BY DEF NothingToCommit, Active
<1>2. UNCHANGED <<disk, git, github, user, server, saved, lock, known>> /\ run' = [run EXCEPT ![r] = next]
  BY DEF NothingToCommit
<1>3. RunGood(next, Around)
  BY <1>1, EndGood DEF GitHolds, RunGood, ChangeGood
<1>4. next.pc = "save"
  BY DEF Ended
<1> HIDE DEF next
<1>5. Alone'
  BY <1>1, <1>2, <1>4, StaysAlone DEF GitHolds, Begun
<1>6. QED  BY <1>2, <1>3, <1>5, GitStep DEF GitHolds

(* A run that ends leaves none under way.                                   *)
LEMMA LeavesNone ==
    ASSUME TypeOK, Alone, NEW r \in Runs, Active(r), run' = [run EXCEPT ![r] = Idle], known \subseteq known',
           lock' = None \/ lock' = IF lock = r THEN "dead" ELSE lock
    PROVE  Alone'
<1> SUFFICES ASSUME "overtaken" \notin known'
             PROVE  /\ \A q \in Runs : run'[q].pc # "commit"
                    /\ \A q \in Runs : Active(q)' <=> lock' = q
  BY NewlyAlone
<1>1. lock = r /\ \A q \in Runs : Active(q) => q = r
  BY DEF Alone, OneRun
<1>2. lock' \notin Runs
  BY <1>1, NoneIsNothingElse
<1>3. \A q \in Runs : ~ Active(q)' /\ run'[q].pc # "commit"
  BY <1>1 DEF TypeOK, Active, Idle
<1>4. QED  BY <1>2, <1>3

LEMMA SaveGit ==
    ASSUME TypeOK, TypeOK', GitHolds, NEW r \in Runs, Save(r)
    PROVE  GitHolds'
<1> DEFINE w == run[r]
<1>1. w \in Result /\ w.pc = "save" /\ Active(r)
  BY KindOf DEF TypeOK, Save, Active
<1>2. /\ UNCHANGED <<disk, git, github, user, server>> /\ lock' = None /\ run' = [run EXCEPT ![r] = Idle]
      /\ known \subseteq known' /\ (saved' = Identified(w) \/ saved' = saved)
  BY DEF Save
<1>3. ResultGood(w, Around)
  BY <1>1 DEF GitHolds, RunGood
<1>4. Sound(Identified(w), Identified(w), Around)
  <2> DEFINE id == IF w.queued THEN w.t ELSE w.st
             st == Identified(w)
  <2>1. w.st \in State /\ w.t \in Target
    BY <1>1 DEF Result
  <2>2. /\ st.files = w.st.files /\ st.pending = w.st.pending /\ st.refused = w.st.refused /\ st.github = w.st.github
        /\ st.ref = id.ref /\ st.head = id.head /\ st.up = id.up /\ st.lastFull = w.st.lastFull
    BY <2>1 DEF Identified, State
  <2>3. Sound(w.st, id, Around)
    BY <1>3 DEF ResultGood
  <2> HIDE DEF st, id
  <2>4. QED  BY <2>2, <2>3, GoodOf DEF st
<1> HIDE DEF w
<1>5. Sound(saved', saved', Around)
  BY <1>2, <1>4 DEF GitHolds
<1>6. RunGood(Idle, Around)
  BY DEF RunGood, Idle
<1>7. Alone'
  BY <1>1, <1>2, LeavesNone DEF GitHolds
<1>8. QED  BY <1>2, <1>5, <1>6, <1>7, GitStep DEF GitHolds

LEMMA CrashGit ==
    ASSUME TypeOK, TypeOK', GitHolds, NEW r \in Runs, Crash(r)
    PROVE  GitHolds'
<1>1. /\ UNCHANGED <<disk, git, github, user, server, saved>> /\ run' = [run EXCEPT ![r] = Idle] /\ Active(r)
      /\ lock' = IF lock = r THEN "dead" ELSE lock
  BY DEF Crash, Active
<1>2. known \subseteq known'
  BY DEF Crash, Cut
<1>3. RunGood(Idle, Around)
  BY DEF RunGood, Idle
<1>4. Alone'
  BY <1>1, <1>2, LeavesNone DEF GitHolds
<1>5. QED  BY <1>1, <1>2, <1>3, <1>4, GitStep DEF GitHolds

LEMMA BeforeGit ==
    ASSUME TypeOK, TypeOK', GitHolds, NEW r \in Runs, Skip(r) \/ \E req \in Requests : Resolve(r, req)
    PROVE  GitHolds'
<1>1. UNCHANGED <<disk, git, github, user, server, saved, lock, known>>
  BY DEF Skip, Resolve
<1>2. \E next : run' = [run EXCEPT ![r] = next] /\ next.pc \in {"idle", "resolved"} /\ RunGood(next, Around)
  <2>1. CASE Skip(r)
    <3>1. Idle.pc = "idle" /\ RunGood(Idle, Around)
      BY DEF Idle, RunGood
    <3>2. QED  BY <2>1, <3>1 DEF Skip
  <2>2. ASSUME NEW req \in Requests, Resolve(r, req)
        PROVE  \E next : run' = [run EXCEPT ![r] = next] /\ next.pc \in {"idle", "resolved"} /\ RunGood(next, Around)
    <3> DEFINE next == [pc |-> "resolved", req |-> req, calm |-> TRUE,
                        t |-> [ref |-> git.ref, head |-> Head, up |-> git.up[git.ref]]]
    <3>1. run' = [run EXCEPT ![r] = next] /\ next.pc = "resolved"
      BY <2>2 DEF Resolve
    <3>2. next.t = Now(Around) /\ next.t.ref = Around.git.ref
      BY DEF Now, HeadOf, Around, Head
    <3>3. next.t.head.at <= Around.user
      <4>1. git.ref \in Refs
        BY DEF TypeOK
      <4>2. QED  BY <4>1 DEF GitHolds, Clock, Around, Head
    <3> HIDE DEF next
    <3>4. TargetGood(next, Around)
      BY <3>2, <3>3 DEF TargetGood
    <3>5. QED  BY <3>1, <3>4 DEF RunGood
  <2>3. QED  BY <2>1, <2>2
<1>3. PICK next : run' = [run EXCEPT ![r] = next] /\ next.pc \in {"idle", "resolved"} /\ RunGood(next, Around)
  BY <1>2
<1>4. ~ Active(r) /\ run[r].pc # "commit"
  BY DEF Skip, Resolve, Active
<1>5. Alone'
  <2>1. run'[r] = next /\ \A q \in Runs : q # r => run'[q] = run[q]
    BY <1>3 DEF TypeOK
  <2>2. \A q \in Runs : Active(q)' <=> Active(q)
    BY <1>3, <1>4, <2>1 DEF Active
  <2>3. \A q \in Runs : Begun(run[q], server.tree[run[q].t.ref]) => Begun(run'[q], server'.tree[run'[q].t.ref])
    BY <1>1, <1>3, <2>1 DEF Begun
  <2>4. QED  BY <1>1, <2>2, <2>3 DEF GitHolds, Alone, OneRun
<1>6. QED  BY <1>1, <1>3, <1>5, GitStep DEF GitHolds

(* A step that takes no lock and disturbs the runs.                         *)
LEMMA DisturbAlone ==
    ASSUME TypeOK, Alone, Disturb \/ UNCHANGED <<run, server>>, lock' = lock, known \subseteq known'
    PROVE  Alone'
<1>1. CASE UNCHANGED <<run, server>>
  BY <1>1 DEF Alone, OneRun, Active
<1>2. CASE Disturb
  <2>1. ASSUME NEW q \in Runs PROVE run'[q].pc = run[q].pc /\ (run'[q].pc = "commit" => ~ run'[q].calm)
    <3>1. run[q] \in RunState
      BY DEF TypeOK
    <3>2. CASE run[q].pc = "idle"
      BY <1>2, <3>2 DEF Disturb
    <3>3. CASE run[q].pc # "idle"
      BY <1>2, <3>1, <3>3, CalmOnly, Uncalm DEF Disturb
    <3>4. QED  BY <3>2, <3>3
  <2>2. \A q \in Runs : Active(q)' <=> Active(q)
    BY <2>1 DEF Active
  <2>3. \A q \in Runs : Begun(run'[q], server'.tree[run'[q].t.ref])
    BY <2>1 DEF Begun
  <2>4. QED  BY <2>2, <2>3 DEF Alone, OneRun
<1>3. QED  BY <1>1, <1>2

LEMMA UserAdvance ==
    ASSUME TypeOK, UserStep
    PROVE  Advance(Around, Around') /\ \A r \in Runs : Noticed(run[r], Around, Around')
<1>1. user \in Nat /\ user' = user + 1 /\ known \subseteq known'
  BY CodeSyncAssumption DEF UserStep, TypeOK
<1>2. git.ref \in Refs /\ \A r \in Refs : git.head[r] \in Revision
  BY DEF TypeOK
<1>3. ASSUME NEW p \in Paths
      PROVE  disk'[p] = disk[p] \/ (disk'[p].c = 0 /\ disk'[p].s = 0) \/ (disk'[p].c # 0 /\ disk'[p].s = user + 2)
  <2>1. disk \in Disk
    BY DEF TypeOK
  <2>2. ASSUME NEW q \in Paths, NEW c, Written(q, c)
        PROVE  disk'[p] = disk[p] \/ (disk'[p].c = 0 /\ disk'[p].s = 0) \/ (disk'[p].c # 0 /\ disk'[p].s = user + 2)
    <3>1. disk'[p] = disk[p] \/ disk'[p] = [c |-> c, s |-> IF c = 0 THEN 0 ELSE user + 2]
      BY <2>1, <2>2 DEF Written, Disk
    <3>2. QED  BY <3>1
  <2>3. ASSUME NEW r \in Refs,
               disk' = [q \in Paths |-> IF git.head[r].tree[q] = disk[q].c THEN disk[q]
                                        ELSE [c |-> git.head[r].tree[q], s |-> IF git.head[r].tree[q] = 0 THEN 0 ELSE user + 2]]
        PROVE  disk'[p] = disk[p] \/ (disk'[p].c = 0 /\ disk'[p].s = 0) \/ (disk'[p].c # 0 /\ disk'[p].s = user + 2)
    BY <2>3
  <2>4. \/ disk' = disk
        \/ \E q \in Paths : \E c \in {user + 2, 0, HeadTree[q]} : Written(q, c)
        \/ \E r \in Refs :
               disk' = [q \in Paths |-> IF git.head[r].tree[q] = disk[q].c THEN disk[q]
                                        ELSE [c |-> git.head[r].tree[q], s |-> IF git.head[r].tree[q] = 0 THEN 0 ELSE user + 2]]
    BY DEF UserStep
  <2>5. QED  BY <2>2, <2>3, <2>4
<1>4. \/ git' = git
      \/ git' = [git EXCEPT !.head[git.ref] = [at |-> user + 1, tree |-> Contents]]
      \/ git' = [git EXCEPT !.up[git.ref] = Head]
      \/ \E r \in Refs \ {git.ref} : git' = [git EXCEPT !.ref = r]
  BY DEF UserStep
<1>5. git \in [ref : Refs, head : [Refs -> Revision], up : [Refs -> Revision \cup {None}]]
  BY DEF TypeOK
<1>6. \A r \in Refs : git'.head[r] = git.head[r] \/ git'.head[r].at = user + 1
  BY <1>4, <1>5
<1>7. Advance(Around, Around')
  BY <1>1, <1>3, <1>6 DEF Advance, Around
<1>8. git'.ref = git.ref /\ git'.head[git.ref] # git.head[git.ref] => git'.head[git.ref].tree = Contents
  BY <1>4, <1>5
<1>9. \A r \in Runs : /\ run[r].pc \in {"resolved", "listed", "scanned"} /\ git'.ref # git.ref => "switched" \in known'
                      /\ run[r].pc \in {"listed", "scanned"} /\ disk' # disk => "raced" \in known'
  BY DEF UserStep
<1>10. ASSUME NEW r \in Runs PROVE Noticed(run[r], Around, Around')
  BY <1>8, <1>9 DEF Noticed, Around, HeadOf, Contents
<1>11. QED  BY <1>7, <1>10

(* No file is written and nothing committed.                                *)
LEMMA StillAdvance ==
    ASSUME TypeOK, UNCHANGED <<disk, git>>, user' = user \/ user' = user + 1, known \subseteq known'
    PROVE  Advance(Around, Around') /\ \A r \in Runs : Noticed(run[r], Around, Around')
<1>1. user \in Nat
  BY CodeSyncAssumption DEF TypeOK
<1>2. Advance(Around, Around')
  BY <1>1 DEF Advance, Around
<1>3. QED  BY <1>2 DEF Noticed, Around, HeadOf

LEMMA NewStateGood == TypeOK /\ Clock(Around) => StateGood(ZeroState, ZeroState, Around)
<1> SUFFICES ASSUME TypeOK, Clock(Around) PROVE StateGood(ZeroState, ZeroState, Around)
  OBVIOUS
<1>1. /\ \A p \in Paths : ZeroState.files[p] = None /\ ZeroState.refused[p] = 0
      /\ ZeroState.head = None /\ ZeroState.pending = {}
  BY DEF ZeroState, NoTree
<1>2. Around \in Surroundings
  BY AroundType
<1>3. Stamped(ZeroState, Around)
  BY <1>1, <1>2, NumbersAround DEF Stamped, Clock
<1>4. Facts(ZeroState, ZeroState, Around) /\ Clear(ZeroState, ZeroState, Around)
  BY <1>1 DEF Facts, Clear
<1>5. QED  BY <1>3, <1>4 DEF StateGood

LEMMA WorldGit ==
    ASSUME TypeOK, TypeOK', GitHolds, UserStep \/ Later \/ Purge \/ ToggleGitHub \/ RemoveRun
    PROVE  GitHolds'
<1>1. CASE UserStep
  <2>1. UNCHANGED <<server, saved, lock>> /\ Disturb /\ known \subseteq known'
    BY <1>1 DEF UserStep
  <2>2. Alone'
    BY <2>1, DisturbAlone DEF GitHolds
  <2>3. QED  BY <1>1, <2>1, <2>2, UserAdvance, GitWorld DEF GitHolds
<1>2. CASE Later
  <2>1. UNCHANGED <<disk, git, server, user, lock, run, known>> /\ \A r \in Runs : run[r].pc = "idle"
    BY <1>2 DEF Later
  <2>2. Disturb
    BY <2>1 DEF Disturb, TypeOK
  <2>3. Sound(saved', saved', Around)
    <3>1. /\ ~ saved'.lastFull
          /\ saved'.files = saved.files /\ saved'.pending = saved.pending /\ saved'.refused = saved.refused
          /\ saved'.github = saved.github /\ saved'.ref = saved.ref /\ saved'.head = saved.head /\ saved'.up = saved.up
      <4>1. PICK b : saved' = [saved EXCEPT !.lastFull = FALSE, !.backedOff = b]
        BY <1>2 DEF Later
      <4>2. saved \in State
        BY DEF TypeOK
      <4>3. QED  BY <4>1, <4>2 DEF State
    <3>2. Sound(saved, saved, Around)
      BY DEF GitHolds
    <3>3. QED  BY <3>1, <3>2, GoodOf
  <2>4. Alone'
    BY <2>1, DisturbAlone DEF GitHolds
  <2>5. QED  BY <2>1, <2>2, <2>3, <2>4, StillAdvance, GitWorld DEF GitHolds
<1>3. CASE Purge
  <2>1. UNCHANGED <<disk, git, saved, user, lock>> /\ Disturb /\ known \subseteq known' /\ server' = EmptyStore
    BY <1>3 DEF Purge
  <2>2. server'.blobs \cap TooLarge = {}
    BY <2>1 DEF EmptyStore
  <2>3. Alone'
    BY <2>1, DisturbAlone DEF GitHolds
  <2>4. QED  BY <2>1, <2>2, <2>3, StillAdvance, GitWorld DEF GitHolds
<1>4. CASE ToggleGitHub
  <2>1. UNCHANGED <<disk, git, server, saved, lock, known>> /\ Disturb /\ user' = user + 1
    BY <1>4 DEF ToggleGitHub
  <2>2. Alone'
    BY <2>1, DisturbAlone DEF GitHolds
  <2>3. QED  BY <2>1, <2>2, StillAdvance, GitWorld DEF GitHolds
<1>5. CASE RemoveRun
  <2>1. /\ UNCHANGED <<disk, git, github>> /\ Disturb /\ user' = user + 1 /\ known \subseteq known'
        /\ lock' = None /\ server' \in {server, RemoveWorktree(server)} /\ saved' \in {saved, ZeroState}
    BY <1>5 DEF RemoveRun, Overtaken
  <2>2. server'.blobs \cap TooLarge = {}
    <3>1. RemoveWorktree(server).blobs = server.blobs
      BY DEF RemoveWorktree, TypeOK, Store
    <3>2. QED  BY <2>1, <3>1 DEF GitHolds
  <2>3. Sound(saved', saved', Around)
    BY <2>1, NewStateGood DEF GitHolds, StateGood, Sound
  <2>4. Alone'
    <3>1. ASSUME "overtaken" \notin known' PROVE lock \notin Runs /\ "overtaken" \notin known
      BY <1>5, <3>1 DEF RemoveRun, Overtaken
    <3>2. ASSUME "overtaken" \notin known', NEW q \in Runs PROVE ~ Active(q)' /\ run'[q].pc # "commit"
      <4>1. ~ Active(q) /\ run[q] \in RunState
        BY <3>1, <3>2, NoneActive DEF GitHolds, TypeOK
      <4>2. run'[q].pc = run[q].pc
        BY <2>1, <4>1, CalmOnly DEF Disturb
      <4>3. QED  BY <4>1, <4>2 DEF Active
    <3>3. None \notin Runs
      BY NoneIsNothingElse
    <3>4. QED  BY <2>1, <3>2, <3>3, NewlyAlone
  <2>5. QED  BY <2>1, <2>2, <2>3, <2>4, StillAdvance, GitWorld
<1>6. QED  BY <1>1, <1>2, <1>3, <1>4, <1>5

LEMMA GitNext == GitInv /\ [Next]_vars => GitInv'
<1> SUFFICES ASSUME TypeOK, GitHolds, [Next]_vars PROVE TypeOK' /\ GitHolds'
  BY DEF GitInv
<1>1. TypeOK'
  BY TypeNext
<1>2. CASE UNCHANGED vars
  <2>1. Around' = Around
    BY <1>2 DEF vars, Around
  <2>2. Alone'
    BY <1>2 DEF vars, GitHolds, Alone, OneRun, Active
  <2>3. QED  BY <1>1, <1>2, <2>1, <2>2 DEF vars, GitHolds
<1>3. CASE UserStep \/ Later \/ Purge \/ ToggleGitHub \/ RemoveRun
  BY <1>1, <1>3, WorldGit
<1>4. ASSUME NEW r \in Runs, Step(r) PROVE GitHolds'
  BY <1>1, <1>4, ScanGit, LookGit, HashGit, HashFailsGit, UploadGit, CommitGit, NothingGit, SaveGit, BeforeGit DEF Step
<1>5. ASSUME NEW r \in Runs, Crash(r) PROVE GitHolds'
  BY <1>1, <1>5, CrashGit
<1>6. ASSUME NEW r \in Runs, NEW req \in Requests, Resolve(r, req) PROVE GitHolds'
  BY <1>1, <1>6, BeforeGit
<1>7. QED  BY <1>1, <1>2, <1>3, <1>4, <1>5, <1>6 DEF Next

-----------------------------------------------------------------------------
(* The invariant behind the two properties about git: whatever a run looked *)
(* up at one time and used at another is either still so or marked as owed. *)
THEOREM GitInvariance == Spec => []GitInv
<1>1. Init => GitInv
  <2> SUFFICES ASSUME Init PROVE TypeOK /\ GitHolds
    BY DEF GitInv
  <2>1. TypeOK
    BY TypeInit
  <2>2. user = 0 /\ saved = ZeroState /\ server.blobs = {} /\ lock = None
    BY DEF Init, EmptyStore
  <2>3. \A r \in Runs : run[r] = Idle
    BY DEF Init
  <2>4. Clock(Around)
    <3>1. PICK first : /\ first = [p \in Paths |-> IF p = CHOOSE q \in Paths : \A o \in Paths : q <= o THEN 1 ELSE 0]
                       /\ disk = [p \in Paths |-> [c |-> first[p], s |-> first[p]]]
                       /\ LET rev == [at |-> 0, tree |-> first]
                          IN  git = [ref |-> Main, head |-> [r \in Refs |-> rev], up |-> [r \in Refs |-> IF r = Main THEN rev ELSE None]]
      BY DEF Init
    <3>2. \A p \in Paths : first[p] \in {0, 1}
      BY <3>1
    <3>3. \A p \in Paths : disk[p].s <= user + 1 /\ (disk[p].c = 0 <=> disk[p].s = 0)
      BY <2>2, <3>1, <3>2
    <3>4. \A r \in Refs : git.head[r].at <= user
      BY <2>2, <3>1
    <3>5. QED  BY <3>3, <3>4 DEF Clock, Around
  <2>5. Alone
    BY <2>2, <2>3, NoneIsNothingElse DEF Alone, OneRun, Active, Begun, Idle
  <2>6. Sound(saved, saved, Around)
    BY <2>1, <2>2, <2>4, NewStateGood DEF StateGood, Sound
  <2>7. \A r \in Runs : RunGood(run[r], Around)
    BY <2>3 DEF RunGood, Idle
  <2>8. QED  BY <2>1, <2>2, <2>4, <2>5, <2>6, <2>7 DEF GitHolds
<1>2. QED  BY <1>1, GitNext, PTL DEF Spec

(* A file that the state file calls clean and synced, at the HEAD and the   *)
(* upstream that git is at, is in the store as it should be.                *)
LEMMA CleanIsExpected ==
    ASSUME GitInv, known = {}, saved.lastFull, saved.ref = git.ref, saved.head = Head, saved.up = git.up[git.ref], saved.github = github,
           NEW p \in Paths, p \notin saved.pending, saved.files[p] # None, ~ saved.files[p].dirty, disk[p].c = HeadTree[p]
    PROVE  saved.files[p].synced /\ EntryOf(saved.files[p]) = Expected(p)
<1> DEFINE f == saved.files[p]
<1>1. Around.known = {} /\ Around.git = git /\ Around.disk = disk /\ HeadTree = Head.tree
  BY DEF Around, HeadTree
<1>2. f \in FileState
  BY DEF GitInv, TypeOK, State
<1>3. AtHead(saved, Around)
  <2>1. git.ref # None
    BY NoneIsNothingElse DEF GitInv, TypeOK
  <2>2. QED  BY <1>1, <2>1 DEF AtHead, Undisturbed, Head
<1>4. Sound(saved, saved, Around)
  BY DEF GitInv, GitHolds
<1>5. FactsOf(f, saved, p) /\ f.synced /\ CleanOf(f, github) /\ f.sha \notin TooLarge
  BY <1>1, <1>3, <1>4 DEF Sound, Stamped, Facts, Clear
<1>6. /\ f.oid = HeadTree[p] /\ f.oid # 0
      /\ f.unpushed <=> git.up[git.ref] = None \/ git.up[git.ref].tree[p] # HeadTree[p]
      /\ IF github /\ ~ f.unpushed THEN f.sha = 0 ELSE f.sha = f.oid \/ (f.sha = 0 /\ f.oid \in TooLarge)
  BY <1>1, <1>5 DEF FactsOf, CleanOf
<1> DEFINE unpushed == git.up[git.ref] = None \/ git.up[git.ref].tree[p] # HeadTree[p]
<1>7. f.unpushed = unpushed /\ f.dirty = FALSE
  <2>1. f.unpushed \in BOOLEAN /\ f.dirty \in BOOLEAN
    BY <1>2 DEF FileState
  <2>2. QED  BY <1>6, <2>1
<1>8. f.sha = IF disk[p].c \in TooLarge \/ (github /\ ~ unpushed) THEN 0 ELSE disk[p].c
  BY <1>5, <1>6
<1> HIDE DEF f
<1>9. Expected(p) = [sha |-> f.sha, oid |-> f.oid, dirty |-> FALSE, unpushed |-> unpushed]
  <2>1. disk[p].c # 0
    BY <1>6
  <2>2. (disk[p].c = HeadTree[p]) = TRUE
    OBVIOUS
  <2> HIDE DEF unpushed
  <2>3. Expected(p) = [sha |-> IF disk[p].c \in TooLarge \/ (github /\ disk[p].c = HeadTree[p] /\ ~ unpushed) THEN 0 ELSE disk[p].c,
                       oid |-> HeadTree[p], dirty |-> ~ (disk[p].c = HeadTree[p]), unpushed |-> unpushed]
    BY <2>1 DEF Expected, unpushed
  <2>4. QED  BY <1>6, <1>8, <2>2, <2>3
<1> HIDE DEF unpushed
<1>10. EntryOf(f) = Expected(p)
  BY <1>7, <1>9 DEF EntryOf
<1>11. QED  BY <1>5, <1>10 DEF f

(* No difference goes unseen (codesync sync, gitFactsOf, entry, Queue):     *)
(* whatever differs between the worktree and the store is looked at by the  *)
(* run of the next Stop, however edits, commits and pushes fell between and *)
(* into earlier runs; but for the three ways out that StopSeesDifference    *)
(* names: an edit inside a run's look ("raced"), a forced full run that     *)
(* fails after it recorded another capability ("toggled"), and a file       *)
(* deleted, left out by a run and then restored as git has it.              *)
THEOREM NothingGoesUnseen == Spec => []StopSeesDifference
<1>1. SyncInv /\ GitInv => StopSeesDifference
  <2> SUFFICES ASSUME SyncInv, GitInv, UpToDate, NEW p \in Unseen
               PROVE  saved.files[p] = None /\ disk[p].c = HeadTree[p]
    BY DEF StopSeesDifference
  <2>1. /\ known = {} /\ saved.ref = git.ref /\ saved.lastFull /\ saved.github = github /\ Quiet
        /\ p \in Paths /\ server.tree[git.ref][p] # Expected(p)
        /\ p \notin Candidates(saved, Current, StopRequest, FALSE)
    BY DEF UpToDate, Unseen
  <2>2. p \notin saved.pending /\ disk[p].c = HeadTree[p]
    BY <2>1 DEF Candidates, StatusPaths, StopRequest
  <2>3. ASSUME saved.files[p] # None PROVE FALSE
    <3>1. saved.head = Head /\ saved.up = git.up[git.ref] /\ ~ saved.files[p].dirty
      BY <2>1, <2>3 DEF Candidates, StopRequest, Current
    <3>2. saved.files[p].synced /\ EntryOf(saved.files[p]) = Expected(p)
      BY <2>1, <2>2, <2>3, <3>1, CleanIsExpected
    <3>3. TrueOf(saved, server.tree[git.ref])
      BY <2>1 DEF SyncInv, SavedHolds, Clean
    <3>4. QED  BY <2>1, <2>3, <3>2, <3>3 DEF TrueOf
  <2>4. QED  BY <2>2, <2>3
<1>2. QED  BY <1>1, CodeSyncInvariance, GitInvariance, PTL

(* A full change that is completed was taken by the store.                  *)
LEMMA CompletedTaken ==
    ASSUME TypeOK, Next, NEW r \in Runs, Completes(r)
    PROVE  /\ run[r] \in Change /\ run[r].todo \ Chunk(run[r]) = {}
           /\ server' = Committed(run[r]) /\ UNCHANGED <<disk, git, github>>
<1>1. /\ run[r].pc = "commit" /\ run[r].full /\ run[r].todo \subseteq Chunk(run[r]) /\ run'[r].pc = "save"
      /\ faults' = faults /\ CommitAllowed(PutWorktree(server), Upserts(run[r]))
  BY DEF Completes
<1>2. run[r] \in Change
  BY <1>1, KindOf DEF TypeOK
<1>3. ~ Disturb /\ run' # run
  <2>1. run[r] \in RunState
    BY DEF TypeOK
  <2>2. Disturb => run'[r].pc = "commit"
    BY <1>1, <2>1, CalmOnly DEF Disturb
  <2>3. QED  BY <1>1, <2>2
<1>4. \A q \in Runs : \A v : run' = [run EXCEPT ![q] = v] => q = r /\ v.pc = "save"
  BY <1>1 DEF TypeOK
<1>5. ~ (UserStep \/ Later \/ Purge \/ ToggleGitHub \/ RemoveRun)
  <2>1. ~ UserStep
    BY <1>3 DEF UserStep
  <2>2. ~ Later
    BY <1>3 DEF Later
  <2>3. ~ Purge
    BY <1>3 DEF Purge
  <2>4. ~ ToggleGitHub
    BY <1>3 DEF ToggleGitHub
  <2>5. ~ RemoveRun
    BY <1>3 DEF RemoveRun
  <2>6. QED  BY <2>1, <2>2, <2>3, <2>4, <2>5
<1>6. ASSUME NEW q \in Runs, Crash(q) \/ \E req \in Requests : Resolve(q, req) PROVE FALSE
  <2>1. CASE Crash(q)
    <3>1. run' = [run EXCEPT ![q] = Idle]
      BY <2>1 DEF Crash
    <3>2. Idle.pc = "save"
      BY <1>4, <3>1
    <3>3. QED  BY <3>2 DEF Idle
  <2>2. CASE \E req \in Requests : Resolve(q, req)
    <3>1. PICK req \in Requests : Resolve(q, req)
      BY <2>2
    <3>   DEFINE w == [pc |-> "resolved", req |-> req, calm |-> TRUE,
                       t |-> [ref |-> git.ref, head |-> Head, up |-> git.up[git.ref]]]
    <3>2. run' = [run EXCEPT ![q] = w]
      BY <3>1 DEF Resolve
    <3>3. w.pc = "resolved"
      OBVIOUS
    <3>   HIDE DEF w
    <3>4. w.pc = "save"
      BY <1>4, <3>2
    <3>5. QED  BY <3>3, <3>4
  <2>3. QED  BY <1>6, <2>1, <2>2
<1>7. ASSUME NEW q \in Runs, Step(q) PROVE CommitBatch(r)
  <2>1. q = r
    <3>1. \E v : run' = [run EXCEPT ![q] = v]
      <4>1. CASE CommitBatch(q)
        BY <4>1 DEF CommitBatch
      <4>2. CASE Scan(q)
        BY <4>2 DEF Scan
      <4>3. CASE \E unsent \in SUBSET Stamps : Upload(q, unsent)
        BY <4>3 DEF Upload
      <4>4. CASE \E later \in SUBSET Paths : \E p \in Paths : HashFails(q, p, later)
        BY <4>4 DEF HashFails
      <4>5. QED  BY <1>7, <4>1, <4>2, <4>3, <4>4 DEF Step, Skip, Look, NothingToCommit, Save, Hash
    <3>2. QED  BY <1>4, <3>1
  <2>2. QED  BY <1>1, <1>7, <2>1 DEF Step, Scan, Skip, Look, NothingToCommit, Save, Hash, HashFails, Upload
<1>8. CommitBatch(r)
  BY <1>5, <1>6, <1>7 DEF Next
<1>9. ~ Fault
  BY <1>1 DEF Fault, TypeOK
<1>10. server' = Committed(run[r]) /\ UNCHANGED <<disk, git, github>>
  BY <1>1, <1>8, <1>9 DEF CommitBatch
<1>11. QED  BY <1>1, <1>2, <1>10

(* A completed full change leaves exactly the worktree's files (codesync    *)
(* commit, with a full change): whatever crashes, purges, failed calls and  *)
(* interrupted changes came before it, for any files and batch size.        *)
THEOREM CompletedReconciles == Spec => FullReconciles
<1>1. ASSUME GitInv, [Next]_vars
      PROVE  [\A r \in Runs : Completes(r) /\ run[r].calm /\ known \cap {"switched", "overtaken"} = {} =>
                \A p \in Paths : server'.tree[git.ref][p] = Expected(p)]_vars
  <2> SUFFICES ASSUME Next, NEW r \in Runs, Completes(r), run[r].calm, known \cap {"switched", "overtaken"} = {},
                      NEW p \in Paths
               PROVE  server'.tree[git.ref][p] = Expected(p)
    BY <1>1
  <2> DEFINE w == run[r]
             f == w.file[p]
             tree == server.tree[w.t.ref]
  <2>1. /\ w \in Change /\ w.pc = "commit" /\ w.full /\ w.todo \ Chunk(w) = {} /\ server' = Committed(w)
    BY <1>1, CompletedTaken DEF GitInv, Completes
  <2>2. TargetGood(w, Around) /\ ChangeGood(w, Around) /\ Begun(w, tree)
    BY <1>1, <2>1 DEF GitInv, GitHolds, RunGood, Alone
  <2>3. /\ Around.disk = disk /\ Around.git = git /\ Around.github = github /\ HeadOf(Around) = Head /\ HeadTree = Head.tree
        /\ Undisturbed(Around)
    BY DEF Around, HeadOf, Head, HeadTree, Undisturbed
  <2>4. w.t = Now(Around) /\ w.t.ref = git.ref /\ w.t.head = Head /\ w.t.up = git.up[git.ref]
    BY <2>2, <2>3 DEF TargetGood, Now
  <2>5. After(w, tree, server'.tree[w.t.ref])
    BY <1>1, <2>1, CommittedTree DEF GitInv, After
  <2>6. server'.tree[git.ref][p] = IF p \in DOMAIN w.file THEN EntryOf(f) ELSE None
    BY <2>1, <2>2, <2>4, <2>5, BegunOnward
  <2>7. /\ w.st.github = github
        /\ p \in DOMAIN w.file <=> disk[p].c # 0
        /\ p \in DOMAIN w.file => f.stamp = disk[p].s /\ (f.dirty <=> disk[p].c # HeadTree[p])
    BY <2>1, <2>2, <2>3 DEF ChangeGood, Exact
  <2>8. CASE p \notin DOMAIN w.file
    BY <2>6, <2>7, <2>8 DEF Expected
  <2>9. CASE p \in DOMAIN w.file
    <3>1. f \in FileState /\ RecordGood(f, github, w.t, p, Around) /\ f.sha \notin TooLarge
      BY <2>1, <2>2, <2>7, <2>9 DEF ChangeGood, Records, Change, Files
    <3>2. AtHead(w.t, Around)
      <4>1. git.ref # None
        BY <1>1, NoneIsNothingElse DEF GitInv, TypeOK
      <4>2. QED  BY <2>3, <2>4, <4>1 DEF AtHead, Head
    <3> DEFINE unpushed == git.up[git.ref] = None \/ git.up[git.ref].tree[p] # HeadTree[p]
               clean == disk[p].c = HeadTree[p]
    <3>3. f.oid = HeadTree[p] /\ (f.unpushed <=> unpushed) /\ (f.dirty <=> ~ clean)
      BY <2>3, <2>4, <2>7, <2>9, <3>1, <3>2 DEF RecordGood, FactsOf
    <3>4. f.sha = disk[p].c \/ (f.sha = 0 /\ (disk[p].c \in TooLarge \/ (github /\ Omitted(f))))
      BY <2>3, <2>7, <2>9, <3>1 DEF RecordGood, ContentOf
    <3>5. github /\ f.oid # 0 /\ ~ f.dirty /\ ~ f.unpushed => f.sha = 0
      BY <3>1 DEF RecordGood
    <3>6. disk[p].c # 0
      BY <2>7, <2>9
    <3> HIDE DEF f, unpushed
    <3>7. f.sha = IF disk[p].c \in TooLarge \/ (github /\ clean /\ ~ unpushed) THEN 0 ELSE disk[p].c
      BY <3>1, <3>3, <3>4, <3>5, <3>6 DEF Omitted
    <3> HIDE DEF clean
    <3>8. f.unpushed = unpushed /\ f.dirty = ~ clean
      <4>1. f.unpushed \in BOOLEAN /\ f.dirty \in BOOLEAN
        BY <3>1 DEF FileState
      <4>2. unpushed \in BOOLEAN /\ clean \in BOOLEAN
        BY DEF unpushed, clean
      <4>3. QED  BY <3>3, <4>1, <4>2
    <3>9. Expected(p) = [sha |-> f.sha, oid |-> f.oid, dirty |-> ~ clean, unpushed |-> unpushed]
      <4>1. Expected(p) = [sha |-> IF disk[p].c \in TooLarge \/ (github /\ clean /\ ~ unpushed) THEN 0 ELSE disk[p].c,
                           oid |-> HeadTree[p], dirty |-> ~ clean, unpushed |-> unpushed]
        BY <3>6 DEF Expected, unpushed, clean
      <4>2. QED  BY <3>3, <3>7, <4>1
    <3>10. EntryOf(f) = Expected(p)
      BY <3>8, <3>9 DEF EntryOf
    <3>11. QED  BY <2>6, <2>9, <3>10 DEF f
  <2>10. QED  BY <2>8, <2>9
<1>2. QED  BY <1>1, GitInvariance, PTL DEF Spec, FullReconciles
=============================================================================
