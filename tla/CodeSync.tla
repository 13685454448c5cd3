------------------------------- MODULE CodeSync -------------------------------
(***************************************************************************)
(* Code sync (session/codesync): runs that bring one worktree's files to    *)
(* the server's code store.  A run reads git's refs, takes the worktree's   *)
(* lock, loads the state file, looks at git status and the files, hashes    *)
(* what changed, uploads blobs and commits entries in batches, and saves    *)
(* the state; the user goes on writing, committing, pushing and switching   *)
(* branches meanwhile.                                                      *)
(***************************************************************************)
EXTENDS CodeStore

CONSTANTS
    Main,       \* the branch checked out at first; it has an upstream
    Runs,       \* processes that may run a sync
    Batch,      \* entries of one commit
    TooLarge,   \* contents the server refuses
    LocksAge,   \* whether a lock may pass for stale while its run goes on
    UserDoes,   \* what the user may do
    MaxUser,    \* bound: steps of the user
    MaxFaults   \* bound: failed calls, crashes, purges

ASSUME CodeSyncAssumption ==
    /\ Paths \subseteq Nat /\ Main \in Refs /\ Batch \in Nat \ {0}
    /\ TooLarge \subseteq Nat \ {0} /\ LocksAge \in BOOLEAN /\ MaxUser \in Nat /\ MaxFaults \in Nat

VARIABLES
    disk,    \* content and stamp (mtime) of every path; content 0: no such file
    git,     \* the branch checked out, its heads and what their upstreams have
    server,  \* the code store
    github,  \* capabilities.github of the project
    saved,   \* the state file
    lock,    \* the run that created the lock file, or None
    run,     \* the runs under way
    user, faults,
    known    \* history: reasons for which the store may not be what the state file says

vars == <<disk, git, server, github, saved, lock, run, user, faults, known>>

Stamps == 0 .. MaxUser + 1

Tree == [Paths -> Stamps]

(* A git commit: what it holds, and an identity of its own.                 *)
Revision == [at : 0 .. MaxUser, tree : Tree]

FileState == [stamp : Stamps, sha : Stamps, oid : Stamps, dirty : BOOLEAN, unpushed : BOOLEAN, synced : BOOLEAN]

ASSUME NoneIsNothingElse == None \notin Refs \cup Runs /\ "dead" \notin Runs /\ None \notin Entry \cup FileState \cup Revision

(* State.  lastFull: the last full reconcile is less than six hours old.    *)
(* pending stands for both queues: a run treats their paths alike.          *)
ZeroState == [ref |-> None, head |-> None, up |-> None, files |-> NoTree, pending |-> {}, lastFull |-> FALSE,
              refused |-> [p \in Paths |-> 0], github |-> FALSE, backedOff |-> FALSE]

State ==
    [ref : Refs \cup {None}, head : Revision \cup {None}, up : Revision \cup {None},
     files : [Paths -> FileState \cup {None}], pending : SUBSET Paths, lastFull : BOOLEAN,
     refused : [Paths -> Stamps], github : BOOLEAN, backedOff : BOOLEAN]

Idle == [pc |-> "idle"]

(* What a run keeps from one step to the next: its target, then the state   *)
(* it has loaded, then the work it has queued.  calm (history): the         *)
(* worktree and the server were left alone since the run began.             *)
Target == [ref : Refs, head : Revision, up : Revision \cup {None}]

Disk == [Paths -> [c : Stamps, s : Stamps]]

Files == UNION {[ps -> FileState] : ps \in SUBSET Paths}

Resolved == [pc : {"resolved"}, calm : BOOLEAN, t : Target,
             req : [paths : SUBSET Paths, status : BOOLEAN, full : BOOLEAN]]

(* dirty and listed are what git status and git ls-files said; turned: the  *)
(* run recorded a change of the project's capability.                       *)
Listed == [pc : {"listed"}, calm : BOOLEAN, t : Target, st : State, full : BOOLEAN, cand : SUBSET Paths,
           dirty : SUBSET Paths, listed : SUBSET Paths, turned : BOOLEAN, headMoved : BOOLEAN, upMoved : BOOLEAN]

Scanned == [pc : {"scanned"}, calm : BOOLEAN, t : Target, st : State, full : BOOLEAN, cand : SUBSET Paths,
            dirty : SUBSET Paths, listed : SUBSET Paths, turned : BOOLEAN, headMoved : BOOLEAN, upMoved : BOOLEAN,
            stat : Disk]

Hashes ==
    {w \in [pc : {"queued"}, calm : BOOLEAN, t : Target, st : State, full : BOOLEAN, left : BOOLEAN,
             file : Files, ups : SUBSET Paths, dels : SUBSET Paths, read : SUBSET Paths] :
        w.ups \cup w.read \subseteq DOMAIN w.file}

Change ==
    {w \in [pc : {"commit"}, calm : BOOLEAN, t : Target, st : State, full : BOOLEAN, first : BOOLEAN,
             file : Files, ups : SUBSET Paths, dels : SUBSET Paths, todo : SUBSET Paths] :
        w.ups \subseteq DOMAIN w.file}

Result == [pc : {"save"}, calm : BOOLEAN, t : Target, st : State, queued : BOOLEAN]

RunState == {Idle} \cup Resolved \cup Listed \cup Scanned \cup Hashes \cup Change \cup Result

Reasons == {"crash", "purge", "cut", "raced", "switched", "toggled", "lost", "overtaken"}

TypeOK ==
    /\ disk \in Disk
    /\ git \in [ref : Refs, head : [Refs -> Revision], up : [Refs -> Revision \cup {None}]]
    /\ server \in Store
    /\ github \in BOOLEAN
    /\ saved \in State
    /\ lock \in Runs \cup {None, "dead"}
    /\ run \in [Runs -> RunState]
    /\ user \in 0 .. MaxUser /\ faults \in 0 .. MaxFaults
    /\ known \subseteq Reasons

(* One file, committed and pushed; nothing synced.                          *)
Init ==
    LET first == [p \in Paths |-> IF p = CHOOSE q \in Paths : \A o \in Paths : q <= o THEN 1 ELSE 0]
    IN  /\ disk = [p \in Paths |-> [c |-> first[p], s |-> first[p]]]
        /\ LET rev == [at |-> 0, tree |-> first]
           IN  git = [ref |-> Main, head |-> [r \in Refs |-> rev], up |-> [r \in Refs |-> IF r = Main THEN rev ELSE None]]
        /\ server = EmptyStore /\ github = FALSE
        /\ saved = ZeroState /\ lock = None
        /\ run = [r \in Runs |-> Idle]
        /\ user = 0 /\ faults = 0 /\ known = {}

-----------------------------------------------------------------------------
(* The user's side: an edit gets a content and a stamp of its own.          *)
Contents == [p \in Paths |-> disk[p].c]

Written(p, c) == disk' = [disk EXCEPT ![p] = [c |-> c, s |-> IF c = 0 THEN 0 ELSE user + 2]]

Head == git.head[git.ref]

HeadTree == Head.tree

(* History: the runs under way no longer see one state of the worktree.     *)
Disturb == run' = [r \in Runs |-> IF run[r].pc = "idle" THEN run[r] ELSE [run[r] EXCEPT !.calm = FALSE]]

UserStep ==
    /\ user < MaxUser /\ user' = user + 1
    /\ \/ /\ "write" \in UserDoes
          /\ \E p \in Paths : Written(p, user + 2)
          /\ UNCHANGED git
       \/ /\ "delete" \in UserDoes
          /\ \E p \in Paths : disk[p].c # 0 /\ Written(p, 0)
          /\ UNCHANGED git
       \/ /\ "revert" \in UserDoes
          /\ \E p \in Paths : disk[p].c # HeadTree[p] /\ HeadTree[p] # 0 /\ Written(p, HeadTree[p])
          /\ UNCHANGED git
       \/ /\ "commit" \in UserDoes /\ Contents # HeadTree
          /\ git' = [git EXCEPT !.head[git.ref] = [at |-> user + 1, tree |-> Contents]]
          /\ UNCHANGED disk
       \/ /\ "push" \in UserDoes /\ git.up[git.ref] # Head
          /\ git' = [git EXCEPT !.up[git.ref] = Head]
          /\ UNCHANGED disk
       \/ /\ "checkout" \in UserDoes /\ Contents = HeadTree
          /\ \E r \in Refs \ {git.ref} :
               /\ git' = [git EXCEPT !.ref = r]
               /\ disk' = [p \in Paths |-> IF git.head[r].tree[p] = disk[p].c THEN disk[p]
                                           ELSE [c |-> git.head[r].tree[p],
                                                 s |-> IF git.head[r].tree[p] = 0 THEN 0 ELSE user + 2]]
    /\ known' = known \cup {e \in {"raced"} : disk' # disk /\ \E r \in Runs : run[r].pc \in {"listed", "scanned"}}
                      \cup {e \in {"switched"} : git'.ref # git.ref /\ \E r \in Runs : run[r].pc \in {"resolved", "listed", "scanned"}}
    /\ Disturb
    /\ UNCHANGED <<server, github, saved, lock, faults>>

(* Six hours, or a day, go by between two runs.                             *)
Later ==
    /\ \A r \in Runs : run[r].pc = "idle"
    /\ \E day \in BOOLEAN :
         saved' = [saved EXCEPT !.lastFull = FALSE, !.backedOff = @ /\ ~ day]
    /\ saved' # saved
    /\ UNCHANGED <<disk, git, server, github, lock, run, user, faults, known>>

Fault == faults < MaxFaults /\ faults' = faults + 1

(* The project's code is purged on the server.                              *)
Purge ==
    /\ Fault
    /\ server' = EmptyStore /\ server' # server
    /\ known' = known \cup {"purge"}
    /\ Disturb
    /\ UNCHANGED <<disk, git, github, saved, lock, user>>

(* The GitHub app is installed for the project, or uninstalled.             *)
ToggleGitHub ==
    /\ "github" \in UserDoes
    /\ user < MaxUser /\ user' = user + 1
    /\ github' = ~ github
    /\ Disturb
    /\ UNCHANGED <<disk, git, server, saved, lock, faults, known>>

-----------------------------------------------------------------------------
(* What git says of a path: identity is HEAD and the upstream as resolve    *)
(* read them, changed what git status lists.                                *)
Changed == {p \in Paths : disk[p].c # 0 /\ disk[p].c # HeadTree[p]}

StatusPaths == {p \in Paths : disk[p].c # HeadTree[p]}

(* git ls-files: what is in the index, and what is there and not ignored.   *)
FileList == {p \in Paths : disk[p].c # 0 \/ HeadTree[p] # 0}

(* Requests: an edit names its path; Bash and Stop ask for the status;      *)
(* WorktreeCreate and --full force a reconcile; SessionStart does neither.  *)
Requests == {[paths |-> {p}, status |-> FALSE, full |-> FALSE] : p \in Paths}
              \cup {[paths |-> {}, status |-> s, full |-> f] : s, f \in BOOLEAN}

(* resolve reads the branch, HEAD and the upstream before the lock.         *)
Resolve(r, req) ==
    /\ run[r].pc = "idle"
    /\ run' = [run EXCEPT ![r] = [pc |-> "resolved", req |-> req, calm |-> TRUE,
                                  t |-> [ref |-> git.ref, head |-> Head, up |-> git.up[git.ref]]]]
    /\ UNCHANGED <<disk, git, server, github, saved, lock, user, faults, known>>

(* The paths a run looks at.                                                *)
Candidates(st, t, req, full) ==
    LET headMoved == st.ref # t.ref \/ st.head # t.head
        files     == {p \in Paths : st.files[p] # None}
    IN  st.pending \cup req.paths
          \cup (IF full \/ headMoved THEN FileList ELSE {})
          \cup (IF full \/ headMoved \/ st.up # t.up THEN files ELSE {})
          \cup (IF req.status THEN StatusPaths \cup {p \in files : st.files[p].dirty} ELSE {})

(* Sent without content because GitHub has it.                              *)
Omitted(f) == f.sha = 0 /\ f.oid # 0 /\ ~ f.dirty /\ ~ f.unpushed

(* setGitHub: what GitHub no longer supplies loses its stamp and its mark.  *)
SetGitHub(st, on) ==
    [st EXCEPT !.github = on,
               !.files = IF st.github /\ ~ on
                         THEN [p \in Paths |-> IF st.files[p] # None /\ Omitted(st.files[p])
                                               THEN [st.files[p] EXCEPT !.stamp = 0, !.synced = FALSE] ELSE st.files[p]]
                         ELSE st.files]

Full(st, t, req) == req.full \/ st.ref # t.ref \/ ~ st.lastFull

(* AcquireLock: an existing lock is taken when it is stale.                 *)
MayLock == lock = None \/ lock = "dead" \/ LocksAge

(* History: the lock was taken from a run that goes on.                     *)
Overtaken == IF lock \in Runs THEN known \cup {"overtaken"} ELSE known

(* A run that fails before its work is queued goes on to save the state.    *)
Failed(w, st) == [pc |-> "save", calm |-> w.calm, t |-> w.t, queued |-> FALSE, st |-> st]

(* History: such a run had recorded a changed capability, and no full       *)
(* reconcile is due.                                                        *)
Toggled(st, turned) == {e \in {"toggled"} : turned /\ st.lastFull}

(* Run up to the loop over the candidates: the lock, the state, the         *)
(* capabilities of a full run, then git status and git's list of files.     *)
Scan(r) ==
    LET t      == run[r].t
        full   == Full(saved, t, run[r].req)
        base   == IF saved.ref # t.ref THEN [saved EXCEPT !.lastFull = FALSE] ELSE saved
        st     == IF full THEN SetGitHub(base, github) ELSE base
        turned == st.github # base.github
    IN  /\ run[r].pc = "resolved" /\ MayLock
        /\ \/ /\ saved.backedOff
              /\ run' = [run EXCEPT ![r] = Idle] /\ lock' = None
              /\ known' = Overtaken /\ UNCHANGED faults
           \/ /\ ~ saved.backedOff
              /\ run' = [run EXCEPT ![r] =
                    [pc |-> "listed", calm |-> run[r].calm, t |-> t, st |-> st, full |-> full,
                     cand |-> Candidates(saved, t, run[r].req, full), dirty |-> Changed, listed |-> FileList,
                     turned |-> turned,
                     headMoved |-> saved.ref # t.ref \/ saved.head # t.head,
                     upMoved |-> saved.ref # t.ref \/ saved.head # t.head \/ saved.up # t.up]]
              /\ lock' = r
              /\ known' = Overtaken /\ UNCHANGED faults
           \* the store could not be opened, or it refused the request for the capabilities
           \/ /\ ~ saved.backedOff /\ Fault
              /\ \E refused \in BOOLEAN : run' = [run EXCEPT ![r] = Failed(run[r], [base EXCEPT !.backedOff = refused])]
              /\ lock' = r
              /\ known' = Overtaken
           \* git failed
           \/ /\ ~ saved.backedOff /\ Fault
              /\ run' = [run EXCEPT ![r] = Failed(run[r], st)]
              /\ lock' = r
              /\ known' = Overtaken \cup Toggled(st, turned)
        /\ UNCHANGED <<disk, git, server, github, saved, user>>

(* lstat of the candidates.                                                 *)
WithStat(w) ==
    [pc |-> "scanned", calm |-> w.calm, t |-> w.t, st |-> w.st, full |-> w.full, cand |-> w.cand, dirty |-> w.dirty,
     listed |-> w.listed, turned |-> w.turned, headMoved |-> w.headMoved, upMoved |-> w.upMoved, stat |-> disk]

Look(r) ==
    /\ run[r].pc = "listed"
    /\ run' = [run EXCEPT ![r] = WithStat(run[r])]
    /\ UNCHANGED <<disk, git, server, github, saved, lock, user, faults, known>>

(* Another run holds the lock: this one is skipped.                         *)
Skip(r) ==
    /\ run[r].pc = "resolved" /\ lock # None
    /\ run' = [run EXCEPT ![r] = Idle]
    /\ UNCHANGED <<disk, git, server, github, saved, lock, user, faults, known>>

(* gitFactsOf: the state's facts are kept while what they depend on has not *)
(* moved and the path was not queued.                                       *)
GitFacts(w, p) ==
    LET old      == w.st.files[p]
        cached   == old # None /\ p \notin w.st.pending
        oid      == IF cached /\ ~ w.headMoved THEN old.oid ELSE HeadTree[p]
    IN  [oid |-> oid,
         dirty |-> p \in w.dirty \/ oid = 0,
         unpushed |-> \/ w.t.up = None
                      \/ IF cached /\ ~ w.upMoved THEN old.unpushed ELSE w.t.up.tree[p] # HeadTree[p]]

FileOf(w, p, sha) ==
    LET facts == GitFacts(w, p)
    IN  [stamp |-> w.stat[p].s, sha |-> sha, oid |-> facts.oid,
         dirty |-> facts.dirty, unpushed |-> facts.unpushed, synced |-> FALSE]

(* entry: GitHub supplies the content.                                      *)
LeftToGitHub(w, p) == w.st.github /\ Omitted(FileOf(w, p, 0))

Refused(w, p) == w.st.refused[p] = w.stat[p].s

(* entry: the file has the stamp it had when it was hashed.                 *)
Reused(w, p) ==
    LET old == w.st.files[p]
    IN  /\ old # None /\ old.stamp = w.stat[p].s
        /\ old.synced \/ old.sha = 0
        /\ ~ (w.st.github /\ Omitted(old))

Reads(w, p) == ~ LeftToGitHub(w, p) /\ ~ Refused(w, p) /\ ~ Reused(w, p)

(* entry: read now, the content may be newer than the stamp.                *)
Hashed(w, p) ==
    FileOf(w, p, IF LeftToGitHub(w, p) \/ Refused(w, p) THEN 0
                 ELSE IF Reused(w, p) THEN w.st.files[p].sha ELSE disk[p].c)

EntryOf(f) == [sha |-> f.sha, oid |-> f.oid, dirty |-> f.dirty, unpushed |-> f.unpushed]

(* Mutant: the paths the budget left are only taken up by their next event. *)
Owed_Forgotten(later, ups, dels) == ups \cup dels

(* What a run owes the next one until it is committed.                      *)
Owed(later, ups, dels) == later \cup ups \cup dels

(* tracked: git listed the file, when the run asked for the list; else its  *)
(* status has it, or the state, or HEAD.                                    *)
Tracked(w, p) ==
    IF w.full \/ w.headMoved THEN p \in w.listed
    ELSE p \in w.dirty \/ w.st.files[p] # None \/ HeadTree[p] # 0

(* The candidates that are files, those of them whose content is read, and  *)
(* the ones that are gone.                                                  *)
Present(w) == {p \in w.cand : w.stat[p].c # 0 /\ Tracked(w, p)}

Read(w) == {p \in Present(w) : Reads(w, p)}

Gone(w) == {p \in w.cand \ Present(w) : w.st.files[p] # None \/ p \in w.st.pending}

(* Files as the server has them already.                                    *)
Same(w, file) ==
    {p \in DOMAIN file : /\ w.st.files[p] # None /\ w.st.files[p].synced
                         /\ EntryOf(w.st.files[p]) = EntryOf(file[p])}

(* The state after the loop has seen some of them.                          *)
Refreshed(w, file, seen) ==
    [w.st EXCEPT
       !.files = [p \in Paths |-> IF p \in Same(w, file) THEN [file[p] EXCEPT !.synced = TRUE] ELSE @[p]],
       !.refused = [p \in Paths |-> IF p \in seen /\ ~ LeftToGitHub(w, p) /\ ~ Refused(w, p) THEN 0 ELSE @[p]]]

(* The run with its work queued.                                            *)
Queued(w, later, file) ==
    LET ups == DOMAIN file \ Same(w, file)
    IN  [pc |-> "queued", calm |-> w.calm, t |-> w.t, full |-> w.full, left |-> later # {},
         file |-> file, ups |-> ups, dels |-> Gone(w), read |-> Read(w) \cap ups,
         st |-> [Refreshed(w, file, Present(w)) EXCEPT !.pending = (@ \ w.cand) \cup Owed(later, ups, Gone(w))]]

(* sync from the loop over the candidates until the work is queued.  later  *)
(* are the files the budget left, or that were gone when they were read.    *)
Hash(r, later) ==
    LET w == run[r]
    IN  /\ w.pc = "scanned"
        /\ later \subseteq Read(w) /\ {p \in Read(w) : disk[p].c = 0} \subseteq later
        /\ run' = [run EXCEPT ![r] = Queued(w, later, [p \in Present(w) \ later |-> Hashed(w, p)])]
        /\ UNCHANGED <<disk, git, server, github, saved, lock, user, faults, known>>

(* git fails in the loop, at the facts of p; those before p are done.       *)
HashFails(r, p, later) ==
    LET w    == run[r]
        done == {q \in Present(w) : q < p}
    IN  /\ w.pc = "scanned" /\ p \in w.cand /\ w.stat[p].c # 0
        /\ later \subseteq Read(w) \cap done /\ {q \in Read(w) \cap done : disk[q].c = 0} \subseteq later
        /\ Fault
        /\ run' = [run EXCEPT ![r] = Failed(w, Refreshed(w, [q \in done \ later |-> Hashed(w, q)], done))]
        /\ known' = known \cup Toggled(w.st, w.turned)
        /\ UNCHANGED <<disk, git, server, github, saved, lock, user>>

(* A run that ends early, with its work queued, goes on to save the state.  *)
Ended(w, st) == [pc |-> "save", calm |-> w.calm, t |-> w.t, queued |-> TRUE, st |-> st]

(* The run after its uploads: a refused content is committed without its    *)
(* hash, and a full change is one only when nothing was left out of it.     *)
Uploaded(w, unsent, refused) ==
    LET kept  == {p \in w.ups : w.file[p].sha \notin unsent}
        large == {p \in kept : w.file[p].sha \in refused}
        full  == w.full /\ ~ w.left /\ kept = w.ups
    IN  [pc |-> "commit", calm |-> w.calm, t |-> w.t, full |-> full, first |-> TRUE,
         file |-> [p \in DOMAIN w.file |-> IF p \in large THEN [w.file[p] EXCEPT !.sha = 0] ELSE w.file[p]],
         ups |-> kept, dels |-> w.dels,
         todo |-> IF full THEN DOMAIN w.file ELSE kept \cup w.dels,
         st |-> [w.st EXCEPT !.refused = [p \in Paths |-> IF p \in large THEN w.file[p].stamp ELSE @[p]]]]

(* upload, after PutWorktree on a full run; unsent are the contents the     *)
(* deadline left.                                                           *)
Upload(r, unsent) ==
    LET w       == run[r]
        sv      == IF w.full THEN PutWorktree(server) ELSE server
        missing == MissingBlobs(sv, {w.file[p].sha : p \in w.read} \ {0})
        refused == (missing \ unsent) \cap TooLarge
    IN  /\ w.pc = "queued" /\ unsent \subseteq missing
        /\ \/ /\ server' = PutBlobs(sv, missing \ (unsent \cup refused))
              /\ run' = [run EXCEPT ![r] = Uploaded(w, unsent, refused)]
              /\ UNCHANGED faults
           \* a call failed; blobs sent before it are there
           \/ /\ Fault
              /\ \E sent \in SUBSET (missing \ TooLarge) : server' = PutBlobs(sv, sent)
              /\ \E refusal \in BOOLEAN : run' = [run EXCEPT ![r] = Ended(w, [w.st EXCEPT !.backedOff = refusal])]
        /\ UNCHANGED <<disk, git, github, saved, lock, user, known>>

(* The next batch: of what is left to send, the upserts come before the     *)
(* deletes, and both go in the order of their paths.                        *)
Ahead(w, p) ==
    {q \in w.todo : IF p \in DOMAIN w.file THEN q \in DOMAIN w.file /\ q < p ELSE q \in DOMAIN w.file \/ q < p}

Chunk(w) == {p \in w.todo : Cardinality(Ahead(w, p)) < Batch}

Upserts(w) == [p \in Chunk(w) \cap DOMAIN w.file |-> EntryOf(w.file[p])]

Deletes(w) == Chunk(w) \ DOMAIN w.file

(* The store after a commit, which registers a worktree it does not know.   *)
Committed(w) == Commit(PutWorktree(server), w.t.ref, Upserts(w), Deletes(w), w.full /\ w.first)

(* Mutant: the first answer is taken for all batches.                       *)
Recorded_AllAtOnce(w) ==
    [w.st EXCEPT !.files = [p \in Paths |-> IF p \in w.ups THEN [w.file[p] EXCEPT !.synced = TRUE]
                                            ELSE IF p \in Deletes(w) THEN None ELSE @[p]],
                 !.pending = @ \ (w.ups \cup Deletes(w))]

(* What the state takes from an answered commit.                            *)
Recorded(w) ==
    [w.st EXCEPT !.files = [p \in Paths |-> IF p \in Chunk(w) \cap w.ups THEN [w.file[p] EXCEPT !.synced = TRUE]
                                            ELSE IF p \in Deletes(w) THEN None ELSE @[p]],
                 !.pending = @ \ ((Chunk(w) \cap w.ups) \cup Deletes(w))]

(* A complete full change dropped every path it did not list.               *)
Finished(w, st) ==
    IF ~ w.full THEN st
    ELSE [st EXCEPT !.files = [p \in Paths |-> IF p \in w.dels THEN None ELSE @[p]],
                    !.pending = @ \ w.dels,
                    !.lastFull = TRUE]

(* conflict: the paths whose blob the server lacks lose their mark.         *)
Conflicted(w, lacking) ==
    [w.st EXCEPT !.files = [p \in Paths |-> IF p \in lacking /\ @[p] # None THEN [@[p] EXCEPT !.synced = FALSE] ELSE @[p]],
                 !.pending = @ \cup lacking]

(* A full change that is not completed leaves the store without the entries *)
(* of the batches that were not sent.                                       *)
Cut(w, begun) == IF w.full /\ begun THEN known \cup {"cut"} ELSE known

NothingToCommit(r) ==
    /\ run[r].pc = "commit" /\ run[r].first /\ run[r].todo = {} /\ ~ run[r].full
    /\ run' = [run EXCEPT ![r] = Ended(run[r], run[r].st)]
    /\ UNCHANGED <<disk, git, server, github, saved, lock, user, faults, known>>

(* commit: one batch.                                                       *)
CommitBatch(r) ==
    LET w    == run[r]
        sv   == PutWorktree(server)
        rest == w.todo \ Chunk(w)
        with == {p \in DOMAIN Upserts(w) : Upserts(w)[p].sha # 0}
    IN  /\ w.pc = "commit"
        /\ w.todo # {} \/ (w.full /\ w.first)
        /\ \/ /\ CommitAllowed(sv, Upserts(w))
              /\ server' = Committed(w)
              /\ run' = [run EXCEPT ![r] = IF rest = {} THEN Ended(w, Finished(w, Recorded(w)))
                                          ELSE [w EXCEPT !.first = FALSE, !.todo = rest, !.st = Recorded(w)]]
              /\ UNCHANGED <<faults, known>>
           \/ /\ ~ CommitAllowed(sv, Upserts(w))
              /\ server' = sv
              /\ \/ /\ run' = [run EXCEPT ![r] = Ended(w, Conflicted(w, {p \in with : Upserts(w)[p].sha \notin sv.blobs}))]
                    /\ UNCHANGED faults
                 \/ Fault /\ run' = [run EXCEPT ![r] = Ended(w, Conflicted(w, with))]
              /\ known' = Cut(w, ~ w.first)
           \* the call failed, or its answer was lost after the store took the change
           \/ /\ Fault
              /\ \/ /\ \E refusal \in BOOLEAN : run' = [run EXCEPT ![r] = Ended(w, [w.st EXCEPT !.backedOff = refusal])]
                    /\ UNCHANGED server
                    /\ known' = Cut(w, ~ w.first)
                 \/ /\ CommitAllowed(sv, Upserts(w))
                    /\ run' = [run EXCEPT ![r] = Ended(w, w.st)]
                    /\ server' = Committed(w)
                    /\ known' = Cut(w, TRUE) \cup {"lost"}
        /\ UNCHANGED <<disk, git, github, saved, lock, user>>

(* Run: the next run starts from this run's identity once its work is       *)
(* queued.                                                                  *)
Identified(w) ==
    IF w.queued THEN [w.st EXCEPT !.ref = w.t.ref, !.head = w.t.head, !.up = w.t.up] ELSE w.st

(* SaveState, which may fail, and release, which removes whatever lock file *)
(* is there.                                                                *)
Save(r) ==
    /\ run[r].pc = "save"
    /\ \/ saved' = Identified(run[r]) /\ UNCHANGED <<faults, known>>
       \/ Fault /\ known' = known \cup {"crash"} /\ UNCHANGED saved
    /\ lock' = None
    /\ run' = [run EXCEPT ![r] = Idle]
    /\ UNCHANGED <<disk, git, server, github, user>>

(* The process dies; its lock file stays until it is stale.                 *)
Crash(r) ==
    /\ run[r].pc \notin {"idle", "resolved"}
    /\ Fault
    /\ known' = (IF run[r].pc = "commit" THEN Cut(run[r], ~ run[r].first) ELSE known) \cup {"crash"}
    /\ run' = [run EXCEPT ![r] = Idle]
    /\ lock' = IF lock = r THEN "dead" ELSE lock
    /\ UNCHANGED <<disk, git, server, github, saved, user>>

(* Remove (WorktreeRemove), under the lock; a server that does not support  *)
(* the call does not keep the state from being removed.                     *)
RemoveRun ==
    /\ "remove" \in UserDoes
    /\ user < MaxUser /\ user' = user + 1
    /\ MayLock
    /\ lock' = None
    /\ \/ /\ saved' = ZeroState
          /\ server' = IF saved.ref = None THEN server ELSE RemoveWorktree(server)
          /\ known' = Overtaken /\ UNCHANGED faults
       \/ /\ Fault /\ saved' = ZeroState /\ known' = Overtaken /\ UNCHANGED server
       \/ /\ Fault /\ saved.ref # None
          /\ server' = RemoveWorktree(server)
          /\ known' = Overtaken \cup {"crash"}
          /\ UNCHANGED saved
    /\ Disturb
    /\ UNCHANGED <<disk, git, github>>

Step(r) ==
    \/ Scan(r) \/ Skip(r) \/ Look(r) \/ NothingToCommit(r) \/ CommitBatch(r) \/ Save(r)
    \/ \E later \in SUBSET Paths : Hash(r, later) \/ \E p \in Paths : HashFails(r, p, later)
    \/ \E unsent \in SUBSET Stamps : Upload(r, unsent)

Next ==
    \/ UserStep \/ Later \/ Purge \/ ToggleGitHub \/ RemoveRun
    \/ \E r \in Runs : Step(r) \/ Crash(r) \/ \E req \in Requests : Resolve(r, req)

Spec == Init /\ [][Next]_vars

-----------------------------------------------------------------------------
Quiet == \A r \in Runs : run[r].pc \in {"idle", "resolved"}

(* A state file is true of a tree: what it marks synced is in the tree, and *)
(* what it neither lists nor has queued is not.                             *)
TrueOf(st, tree) ==
    \A p \in Paths :
        IF st.files[p] = None THEN p \in st.pending \/ tree[p] = None
        ELSE st.files[p].synced => tree[p] = EntryOf(st.files[p])

(* The state file tells the truth: while the last full reconcile is fresh,  *)
(* what it marks synced is what the store has, and what it neither lists    *)
(* nor has queued the store does not have, unless a crash, a purge, a lost  *)
(* answer, an interrupted full change or a second run came in between.      *)
SyncedIsStored ==
    Quiet /\ known \subseteq {"raced", "switched", "toggled"} /\ saved.lastFull => TrueOf(saved, server.tree[saved.ref])

(* What the store should have for a path.                                   *)
Expected(p) ==
    LET clean    == disk[p].c = HeadTree[p]
        unpushed == git.up[git.ref] = None \/ git.up[git.ref].tree[p] # HeadTree[p]
    IN  IF disk[p].c = 0 THEN None
        ELSE [sha |-> IF disk[p].c \in TooLarge \/ (github /\ clean /\ ~ unpushed) THEN 0 ELSE disk[p].c,
              oid |-> HeadTree[p], dirty |-> ~ clean, unpushed |-> unpushed]

Current == [ref |-> git.ref, head |-> Head, up |-> git.up[git.ref]]

StopRequest == [paths |-> {}, status |-> TRUE, full |-> FALSE]

Unseen ==
    {p \in Paths : /\ server.tree[git.ref][p] # Expected(p)
                   /\ p \notin Candidates(saved, Current, StopRequest, FALSE)}

UpToDate == Quiet /\ known = {} /\ saved.ref = git.ref /\ saved.lastFull /\ saved.github = github

(* No difference goes unseen: whatever differs between the worktree and the *)
(* store is looked at by the run of the next Stop, however edits, commits   *)
(* and pushes fell between earlier runs and into them.  Stated for every    *)
(* history but those of UpToDate's known: a fault of the server or of a     *)
(* process, a second run, a branch switched or a file edited between a      *)
(* run's git status and its reading of the files (the edit, undone later,   *)
(* escapes), and a forced full run that clears marks for a changed          *)
(* capability and then fails (those files escape).  A file that was         *)
(* deleted, left out by a run and restored as git has it escapes too.       *)
StopSeesDifference ==
    UpToDate => \A p \in Unseen : saved.files[p] = None /\ disk[p].c = HeadTree[p]

(* A full change that was completed, with nothing changed since the run     *)
(* began, leaves the store with exactly the worktree's files: whatever      *)
(* crashes, purges, failed calls and interrupted changes came before it.    *)
(* But not when an earlier run found the branch switched under it: git's    *)
(* facts of the other branch are kept, and a full run does not read them    *)
(* again before HEAD moves.                                                 *)
Completes(r) ==
    /\ run[r].pc = "commit" /\ run[r].full /\ run[r].todo \subseteq Chunk(run[r])
    /\ run'[r].pc = "save" /\ faults' = faults
    /\ CommitAllowed(PutWorktree(server), Upserts(run[r]))

FullReconciles ==
    [][\A r \in Runs : Completes(r) /\ run[r].calm /\ known \cap {"switched", "overtaken"} = {} =>
          \A p \in Paths : server'.tree[git.ref][p] = Expected(p)]_vars
=============================================================================
