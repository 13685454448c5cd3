------------------------------ MODULE CodeIndex ------------------------------
(***************************************************************************)
(* The indexer of one project (codeindex): turns that replay the code       *)
(* store's change log into the code graph batch by batch, the consistency   *)
(* check with repair, the rebuild and the purge, each under a lease kept    *)
(* with the cursor.  Checkouts are committed and removed meanwhile; a call  *)
(* may fail at any point of a batch, and a lease may lapse or be taken over *)
(* while its holder goes on writing.                                        *)
(***************************************************************************)
EXTENDS CodeLayers, Sequences

CONSTANTS
    None,
    Procs,      \* the loops and commands that work on the project
    Does,       \* [Procs -> SUBSET {"turn", "check", "rebuild", "purge"}]
    Checkouts,  \* [tree keys -> what a commit may make of the tree]
    Start,      \* the commits made before the project was ever indexed
    BatchSize,
    MaxEvents,  \* bound: commits, removals, idle spells, and checks, rebuilds and purges begun
    MaxFaults   \* bound: failed calls and lapsed leases

Keys == DOMAIN Checkouts

IsTree(t) == DOMAIN t \subseteq Paths /\ t \in [DOMAIN t -> Entry]

ASSUME CodeIndexAssumption ==
    /\ Keys \subseteq Worktrees \X Refs /\ 0 \notin Refs
    /\ \A k \in Keys : \A c \in Checkouts[k] : {c.up, c.head} \subseteq Nat /\ IsTree(c.entries)
    /\ None \notin Procs /\ \A p \in Procs : Does[p] \subseteq {"turn", "check", "rebuild", "purge"}
    /\ Len(Start) \in Nat /\ DOMAIN Start = 1 .. Len(Start)
    /\ \A n \in DOMAIN Start : Start[n].key \in Keys /\ {Start[n].up, Start[n].head} \subseteq Nat /\ IsTree(Start[n].entries)
    /\ BatchSize \in Nat \ {0} /\ {MaxEvents, MaxFaults} \subseteq Nat

(* The commit that a checkout was pushed to, and what it tells of it.       *)
CommitOf(k, c) == IF c.up # 0 THEN c.up ELSE IF IsGitHub(k) THEN c.head ELSE 0

Tells(c, p) == p \in DOMAIN c.entries /\ ~ c.entries[p].unpushed /\ c.entries[p].oid # 0

(* What git promises of checkouts: HEAD has a file that is neither dirty    *)
(* nor unpushed; trees that were pushed to one commit of a branch tell the  *)
(* same of a path, and GitHub's tells of all paths.                         *)
ASSUME CheckoutAssumption ==
    /\ Worktrees \subseteq Nat
    /\ \A m, n \in DOMAIN Start : Start[m].key = Start[n].key => m = n
    /\ \A n \in DOMAIN Start : \E c \in Checkouts[Start[n].key] :
          c.up = Start[n].up /\ c.head = Start[n].head /\ c.entries = Start[n].entries
    /\ \A k \in Keys : \A c \in Checkouts[k] : \A p \in DOMAIN c.entries :
          c.entries[p].oid # 0 \/ c.entries[p].dirty \/ c.entries[p].unpushed
    /\ \A j, k \in Keys : \A c \in Checkouts[j], d \in Checkouts[k] :
          j[2] = k[2] /\ CommitOf(j, c) = CommitOf(k, d) /\ CommitOf(k, d) # 0 =>
              \A p \in DOMAIN d.entries : Tells(d, p) =>
                  /\ Tells(c, p) => c.entries[p].oid = d.entries[p].oid
                  /\ IsGitHub(j) => Tells(c, p)

VARIABLES
    trees,    \* the code store: the entries of every tree
    removed,  \* worktrees marked removed
    idle,     \* worktrees without activity for OverlayIdle
    log,      \* the change log
    cursor,   \* seq and tree states, as saved
    lease,    \* the operation that holds the lease, or None
    graph,
    work,     \* the operations under way
    events, faults,
    drift,    \* history: the graph was written behind the cursor's back
    owed,     \* history: the selection that an interrupted batch was writing, if any
    spoiled   \* history: nothing recomputes what an interrupted batch left

vars == <<trees, removed, idle, log, cursor, lease, graph, work, events, faults, drift, owed, spoiled>>

NoCursor == [seq |-> 0, trees |-> NoPlan]

Idle == [pc |-> "idle"]

Active(p) == work[p].pc # "idle"

(* A worktree's tombstone has no ref.                                       *)
Change ==
    [wt : Worktrees, ref : {0}, up : {0}, head : {0}] \cup
    {c \in [wt : Worktrees, ref : Refs, up : Nat, head : Nat] : <<c.wt, c.ref>> \in Keys}

(* TreeState, by key.                                                       *)
IsState(s) ==
    /\ DOMAIN s \subseteq Keys
    /\ s \in [DOMAIN s -> [up : Nat, head : Nat, seq : Nat, upSeq : Nat]]

TypeOK ==
    /\ trees = [k \in Keys |-> trees[k]] /\ \A k \in Keys : IsTree(trees[k])
    /\ removed \subseteq Worktrees /\ idle \subseteq Worktrees
    /\ log \in Seq(Change) /\ cursor.seq \in 0 .. Len(log) /\ IsState(cursor.trees)
    /\ lease \in Procs \cup {None} /\ (lease # None => Active(lease))
    /\ work = [p \in Procs |-> work[p]]
    /\ \A p \in Procs : /\ work[p].pc \in {"idle", "fetch", "plan", "write"}
                        /\ Active(p) => /\ work[p].kind \in {"turn", "check", "rebuild", "purge"}
                                        /\ work[p].seq \in 0 .. Len(log) /\ IsState(work[p].state)
    /\ events \in 0 .. MaxEvents /\ faults \in 0 .. MaxFaults
    /\ {drift, spoiled} \subseteq BOOLEAN

ChangeOf(k, c) == [wt |-> k[1], ref |-> k[2], up |-> c.up, head |-> c.head]

Init ==
    /\ log = [n \in DOMAIN Start |-> ChangeOf(Start[n].key, Start[n])]
    /\ trees = [k \in Keys |-> IF \E n \in DOMAIN Start : Start[n].key = k
                               THEN Start[CHOOSE n \in DOMAIN Start : Start[n].key = k].entries ELSE NoFiles]
    /\ removed = {} /\ idle = {}
    /\ cursor = NoCursor /\ lease = None /\ graph = NoPlan
    /\ work = [p \in Procs |-> Idle]
    /\ events = 0 /\ faults = 0 /\ drift = FALSE /\ owed = {} /\ spoiled = FALSE

-----------------------------------------------------------------------------
(* The code store's side.                                                   *)
Event ==
    /\ events < MaxEvents /\ events' = events + 1
    /\ UNCHANGED <<cursor, lease, graph, work, faults, drift, owed, spoiled>>

(* A sync registers its worktree and commits what the checkout has.         *)
Commit(k, c) ==
    /\ Event
    /\ trees' = [trees EXCEPT ![k] = c.entries]
    /\ log' = Append(log, ChangeOf(k, c))
    /\ removed' = removed \ {k[1]} /\ idle' = idle \ {k[1]}

RemoveWorktree(w) ==
    /\ Event
    /\ w \notin removed /\ \E k \in Keys : k[1] = w /\ trees[k] # NoFiles
    /\ trees' = [k \in Keys |-> IF k[1] = w THEN NoFiles ELSE trees[k]]
    /\ log' = Append(log, [wt |-> w, ref |-> 0, up |-> 0, head |-> 0])
    /\ removed' = removed \cup {w} /\ idle' = idle \ {w}

(* A branch deleted on GitHub.                                              *)
RemoveRef(k) ==
    /\ Event
    /\ IsGitHub(k) /\ trees[k] # NoFiles
    /\ trees' = [trees EXCEPT ![k] = NoFiles]
    /\ log' = Append(log, [wt |-> k[1], ref |-> k[2], up |-> 0, head |-> 0])
    /\ idle' = idle \ {k[1]} /\ UNCHANGED removed

(* Two weeks without activity, and the next session.                        *)
GoIdle(w) == Event /\ idle' = (idle \cup {w}) /\ idle' # idle /\ UNCHANGED <<trees, log, removed>>

TouchSession(w) == Event /\ idle' = idle \ {w} /\ idle' # idle /\ UNCHANGED <<trees, log, removed>>

-----------------------------------------------------------------------------
(* The cursor and its lease.                                                *)
(* The service that names itself in the lease: Run and RunChecks are loops  *)
(* of one server; a rebuild is a command.                                   *)
Holder(p, kind) == IF kind \in {"turn", "check"} THEN "server" ELSE p

(* History: the lease was lost under a batch; if it moved no layer, the     *)
(* next batch owes what is left of it.                                      *)
Moved(w) ==
    \E l \in DOMAIN w.prev \cap DOMAIN w.next : Ancestors(w.prev, l) # Ancestors(w.next, l)

CutOff(p) ==
    LET w == work[p] IN
    IF w.pc # "write" THEN UNCHANGED <<owed, spoiled>>
    ELSE /\ owed' = {w.next}
         /\ spoiled' = (spoiled \/ w.kind # "turn" \/ ~ w.clean \/ Moved(w))

(* Acquire: the lease is free, lapsed, or the holder's own.                 *)
Acquire(p, kind) ==
    /\ ~ Active(p)
    /\ lease # None => Holder(lease, work[lease].kind) = Holder(p, kind)
    /\ IF kind = "turn" THEN UNCHANGED events ELSE events < MaxEvents /\ events' = events + 1
    /\ lease' = p
    /\ work' = [work EXCEPT ![p] = [pc |-> "fetch", kind |-> kind, seq |-> cursor.seq, state |-> cursor.trees,
                                    first |-> TRUE, clean |-> TRUE, prev |-> NoPlan, cache |-> NoPlan]]
    /\ IF lease = None THEN UNCHANGED <<owed, spoiled>> ELSE CutOff(lease)
    /\ UNCHANGED <<trees, removed, idle, log, cursor, graph, faults, drift>>

(* end: the lease is released if it is still the operation's own.           *)
End(p) ==
    /\ work' = [work EXCEPT ![p] = Idle]
    /\ lease' = IF lease = p THEN None ELSE lease

(* consume: one change folded into the tree states.                         *)
Consume(state, ch, seq) ==
    IF ch.ref = 0 THEN [k \in {j \in DOMAIN state : j[1] # ch.wt} |-> state[k]]
    ELSE LET key == <<ch.wt, ch.ref>>
             known == key \in DOMAIN state /\ state[key].up = ch.up
             new == [up |-> ch.up, head |-> ch.head, seq |-> seq, upSeq |-> IF known THEN state[key].upSeq ELSE seq]
         IN  [k \in DOMAIN state \cup {key} |-> IF k = key THEN new ELSE state[k]]

(* The states after the changes from from + 1 to to.                        *)
Replayed(state, from, to) ==
    LET after[n \in from .. to] == IF n = from THEN state ELSE Consume(after[n - 1], log[n], n)
    IN  after[to]

Touches(ch, k) == ch.wt = k[1] /\ ch.ref \in {0, k[2]}

(* Mutant: a tree that was read is not read again in the same turn.         *)
Kept_All(w, to) == w.cache

(* The trees of earlier batches that no change of this one touches.         *)
Kept(w, to) ==
    [k \in {j \in DOMAIN w.cache : \A n \in w.seq + 1 .. to : ~ Touches(log[n], j)} |-> w.cache[k]]

(* A turn reads a batch of changes, a rebuild all of them; a check stops    *)
(* when there are any.  The first batch compares with the graph.            *)
Fetch(p) ==
    LET w     == work[p]
        to    == IF w.kind = "turn" /\ w.seq + BatchSize < Len(log) THEN w.seq + BatchSize ELSE Len(log)
        done  == (w.kind = "turn" /\ w.seq = Len(log)) \/ (w.kind = "check" /\ w.seq < Len(log))
    IN  /\ w.pc = "fetch"
        /\ IF done THEN End(p)
           ELSE /\ work' = [work EXCEPT ![p] =
                     IF w.kind = "purge" THEN [pc |-> "write", kind |-> "purge", clean |-> TRUE, seq |-> 0, state |-> NoPlan,
                                               prev |-> NoPlan, next |-> NoPlan, ops |-> {<<"wipe">>}, more |-> FALSE]
                     ELSE [pc |-> "plan", kind |-> w.kind, clean |-> w.clean, more |-> w.kind = "turn" /\ to = w.seq + BatchSize,
                           seq |-> to, state |-> Replayed(w.state, w.seq, to), cache |-> Kept(w, to),
                           prev |-> IF w.kind = "turn" /\ w.first THEN PlanFromGraph(graph) ELSE w.prev]]
                /\ UNCHANGED lease
        /\ UNCHANGED <<trees, removed, idle, log, cursor, graph, events, faults, drift, owed, spoiled>>

(* The writes of a batch (write, FileApplier.Apply): layer nodes, hiddenBy, *)
(* files, dropped layers.                                                   *)
FileOps(prev, next, l) ==
    {<<"remove", l, p>> : p \in Removes(prev, next, l)} \cup {<<"put", l, p>> : p \in Puts(prev, next, l)}

WriteOps(prev, next) ==
    {<<"layer", l>> : l \in Changed(prev, next)}
      \cup {<<"hide", ap[1], ap[2]>> : ap \in Hides(prev, next)}
      \cup (UNION {FileOps(prev, next, l) : l \in Changed(prev, next)})
      \cup {<<"drop", l>> : l \in DOMAIN prev \ DOMAIN next}

Phase(o) ==
    CASE o[1] = "wipe" -> 0 [] o[1] = "layer" -> 1 [] o[1] = "hide" -> 2 [] o[1] \in {"remove", "put"} -> 3 [] OTHER -> 4

(* sortLayers                                                               *)
Rank(l) == IF l = Base THEN 0 ELSE IF l[1] = "branch" THEN 1 ELSE 2

Lower(l, m) ==
    \/ Rank(l) < Rank(m)
    \/ Rank(l) = Rank(m) /\ l # m /\ (l[2] < m[2] \/ (l[2] = m[2] /\ l[3] < m[3]))

Before(o, q) ==
    \/ Phase(o) < Phase(q)
    \/ /\ Phase(o) = Phase(q)
       /\ \/ IF o[1] = "drop" THEN Lower(q[2], o[2]) ELSE Lower(o[2], q[2])
          \/ o[2] = q[2] /\ o[1] = "remove" /\ q[1] = "put"
          \/ o[2] = q[2] /\ o[1] = q[1] /\ o[3] < q[3]

(* The trees of worktrees that are not removed, with their entries.         *)
Reading(state, entries) ==
    [k \in {j \in DOMAIN state : j[1] \notin removed} |->
        [up |-> state[k].up, head |-> state[k].head, upSeq |-> state[k].upSeq, seq |-> state[k].seq, entries |-> entries[k]]]

(* selectPlan: trees that the turn has read are not read again until a      *)
(* change touches them.                                                     *)
Plan(p) ==
    LET w     == work[p]
        keys  == {k \in DOMAIN w.state : k[1] \notin removed}
        cache == [k \in DOMAIN w.cache \cup keys |-> IF k \in DOMAIN w.cache THEN w.cache[k] ELSE trees[k]]
        next  == DropIdleOverlays(Select(Reading(w.state, cache)), idle)
        prev  == IF w.kind = "check" THEN PlanFromGraph(graph) ELSE w.prev
    IN  /\ w.pc = "plan"
        /\ IF w.kind = "check" /\ prev = next THEN End(p)
           ELSE /\ work' = [work EXCEPT ![p] =
                     [pc |-> "write", kind |-> w.kind, clean |-> w.clean \/ w.kind # "turn", more |-> w.more,
                      seq |-> w.seq, state |-> w.state, cache |-> cache, prev |-> prev, next |-> next,
                      ops |-> WriteOps(prev, next) \cup (IF w.kind = "rebuild" THEN {<<"wipe">>} ELSE {})]]
                /\ UNCHANGED lease
        /\ spoiled' = (spoiled \/ (owed \ {next} # {} /\ w.kind # "rebuild"))
        /\ UNCHANGED <<trees, removed, idle, log, cursor, graph, events, faults, drift, owed>>

-----------------------------------------------------------------------------
(* The graph's calls.                                                       *)
DropLayer(l) ==
    [m \in DOMAIN graph \ {l} |->
        [graph[m] EXCEPT !.files = [p \in DOMAIN graph[m].files |-> [graph[m].files[p] EXCEPT !.by = @ \ {l}]]]]

(* The call, as the batch makes it: what a file becomes is computed from    *)
(* the whole selection.                                                     *)
Possible(o) ==
    /\ o[1] = "put" => o[2] \in DOMAIN graph
    /\ o[1] = "hide" => o[2] \in DOMAIN graph /\ o[3] \in DOMAIN graph[o[2]].files

Put(next, l, p) ==
    LET f == next[l].files[p]
        file == [sha |-> f.sha, oid |-> f.oid, del |-> f.del, by |-> HiddenBy(next, l, p)]
    IN  [graph EXCEPT ![l].files = [q \in DOMAIN @ \cup {p} |-> IF q = p THEN file ELSE @[q]]]

PutLayer(next, l) ==
    [m \in DOMAIN graph \cup {l} |->
        IF m = l THEN [parent |-> next[l].parent, ref |-> next[l].ref, commit |-> next[l].commit, files |-> FilesIn(graph, l)]
        ELSE graph[m]]

Called(next, o) ==
    CASE o[1] = "wipe" -> NoPlan
      [] o[1] = "layer" -> PutLayer(next, o[2])
      [] o[1] = "hide" -> [graph EXCEPT ![o[2]].files[o[3]].by = HiddenBy(next, o[2], o[3])]
      [] o[1] = "put" -> Put(next, o[2], o[3])
      [] o[1] = "remove" /\ o[2] \in DOMAIN graph ->
           [graph EXCEPT ![o[2]].files = [q \in DOMAIN @ \ {o[3]} |-> @[q]]]
      [] o[1] = "drop" -> DropLayer(o[2])
      [] OTHER -> graph

First(w) == {o \in w.ops : \A q \in w.ops \ {o} : Before(o, q)}

Write(p) ==
    /\ work[p].pc = "write"
    /\ \E o \in First(work[p]) :
         /\ Possible(o)
         /\ graph' = Called(work[p].next, o)
         /\ work' = [q \in Procs |-> IF q = p THEN [work[p] EXCEPT !.ops = @ \ {o}]
                                     ELSE IF Active(q) THEN [work[q] EXCEPT !.clean = FALSE] ELSE work[q]]
    /\ drift' = (drift \/ lease # p)
    /\ spoiled' = (spoiled \/ lease # p)
    /\ UNCHANGED <<trees, removed, idle, log, cursor, lease, events, faults, owed>>

(* History: what was written other than by a turn is behind the cursor's    *)
(* back until the operation ends.                                           *)
Interrupted(p) ==
    /\ drift' = (drift \/ (work[p].pc = "write" /\ work[p].kind # "turn"))
    /\ IF lease = p THEN CutOff(p) ELSE UNCHANGED <<owed, spoiled>>

Fault == faults < MaxFaults /\ faults' = faults + 1

(* A call failed, or the process died.                                      *)
Fail(p) ==
    /\ Active(p) /\ Fault
    /\ End(p) /\ Interrupted(p)
    /\ UNCHANGED <<trees, removed, idle, log, cursor, graph, events>>

(* The lease lapsed under a stalled operation.                              *)
Lapse ==
    /\ lease # None /\ Fault
    /\ lease' = None /\ CutOff(lease)
    /\ UNCHANGED <<trees, removed, idle, log, cursor, graph, work, events, drift>>

(* The keep-alive noticed that the lease is gone, or a call met a graph     *)
(* that another operation changed.                                          *)
Stop(p) ==
    /\ Active(p)
    /\ lease # p \/ (work[p].pc = "write" /\ \E o \in First(work[p]) : ~ Possible(o))
    /\ End(p) /\ Interrupted(p)
    /\ UNCHANGED <<trees, removed, idle, log, cursor, graph, events, faults>>

(* Mutant: the cursor is saved whoever holds the lease.                     *)
MaySave_Always(p) == TRUE

(* Save needs the lease; a check saves nothing.                             *)
MaySave(p) == lease = p

(* History: a batch that compared with the graph as it was settles it.      *)
Settled(p) ==
    LET w == work[p]
        clean == w.clean /\ lease = p
    IN
    /\ drift' = ~ clean
    /\ owed' = {}
    /\ spoiled' = (~ clean \/ (spoiled /\ w.kind \notin {"rebuild", "purge"}))

(* The end of a batch.  A turn goes on while its batches are full and its   *)
(* quota lasts.                                                             *)
Save(p) ==
    LET w == work[p] IN
    /\ w.pc = "write" /\ w.ops = {} /\ w.kind \in {"turn", "rebuild"} /\ MaySave(p)
    /\ cursor' = [seq |-> w.seq, trees |-> w.state]
    /\ \/ End(p)
       \/ /\ w.more
          /\ work' = [work EXCEPT ![p] = [pc |-> "fetch", kind |-> "turn", seq |-> w.seq, state |-> w.state, first |-> FALSE,
                                          clean |-> w.clean, prev |-> w.next, cache |-> w.cache]]
          /\ UNCHANGED lease
    /\ Settled(p)
    /\ UNCHANGED <<trees, removed, idle, log, graph, events, faults>>

Repaired(p) ==
    /\ work[p].pc = "write" /\ work[p].ops = {} /\ work[p].kind = "check"
    /\ End(p) /\ Settled(p)
    /\ UNCHANGED <<trees, removed, idle, log, cursor, graph, events, faults>>

(* Delete forgets the cursor and the lease, whoever holds it.               *)
Purged(p) ==
    /\ work[p].pc = "write" /\ work[p].ops = {} /\ work[p].kind = "purge"
    /\ cursor' = NoCursor /\ lease' = None
    /\ work' = [work EXCEPT ![p] = Idle]
    /\ Settled(p)
    /\ UNCHANGED <<trees, removed, idle, log, graph, events, faults>>

Step(p) ==
    \/ \E kind \in Does[p] : Acquire(p, kind)
    \/ Fetch(p) \/ Plan(p) \/ Write(p) \/ Save(p) \/ Repaired(p) \/ Purged(p)
    \/ Fail(p) \/ Stop(p)

Next ==
    \/ \E k \in Keys : \/ RemoveRef(k)
                       \/ \E c \in Checkouts[k] : Commit(k, c)
    \/ \E w \in Worktrees : RemoveWorktree(w) \/ GoIdle(w) \/ TouchSession(w)
    \/ \E p \in Procs : Step(p)
    \/ Lapse

Spec == Init /\ [][Next]_vars

-----------------------------------------------------------------------------
(* The log is consumed, and nothing was written behind the cursor's back.   *)
AtRest == cursor.seq = Len(log) /\ ~ drift /\ \A p \in Procs : ~ Active(p)

WantOf(state) == Select(Reading(state, trees))

Want == WantOf(cursor.trees)

(* An overlay without files comes and goes with the activity of its         *)
(* worktree.                                                                *)
Solid(plan) == [l \in {m \in DOMAIN plan : m[1] # "wt" \/ plan[m].files # NoFiles} |-> plan[l]]

(* However batches, failures, retries, checks and rebuilds fell, a graph    *)
(* whose cursor is at the end of the log holds the selection of the trees   *)
(* as they are.                                                             *)
GraphIsSelection == AtRest => Solid(PlanFromGraph(graph)) = Solid(Want)

HiddenExact ==
    \A l \in DOMAIN graph : \A p \in DOMAIN graph[l].files : graph[l].files[p].by = HiddenBy(PlanFromGraph(graph), l, p)

(* Every file is hidden by exactly the layers above that hold its path,     *)
(* also after a batch that was interrupted and retried, unless the          *)
(* selection had changed by then or the batch moved a layer.                *)
HiddenIsExact == AtRest /\ ~ spoiled => HiddenExact

(* "hiddenBy is a function of the selection alone", "a batch interrupted    *)
(* half-way leaves its remaining puts and removes in the next batch's       *)
(* delta, which recomputes the same paths again" (apply.go): the same       *)
(* whatever was interrupted.                                                *)
HiddenThroughInterruptions == AtRest => HiddenExact

(* A checkout's view shows its files, each once and no other, if the layer  *)
(* below is at the commit it was pushed to.                                 *)
SeesOwnFiles(k) ==
    LET l == WorktreeLayerID(k)
        Shown(p) == Visible(graph, View(graph, l), p)
        Shows(p) == \E m \in Shown(p) :
                        /\ Shown(p) = {m}
                        /\ graph[m].files[p].oid = trees[k][p].oid
                        /\ m = l => graph[m].files[p].sha = trees[k][p].sha
    IN  \A p \in Paths : IF p \in DOMAIN trees[k] THEN Shows(p) ELSE Shown(p) = {}

OnItsCommit(k) ==
    LET parent == graph[WorktreeLayerID(k)].parent
    IN  parent # <<>> /\ graph[parent].commit = cursor.trees[k].up

SessionSeesCheckout ==
    AtRest /\ ~ spoiled =>
        \A k \in Keys : WorktreeLayerID(k) \in DOMAIN graph /\ OnItsCommit(k) => SeesOwnFiles(k)

(* Only a purge moves the cursor back, whoever held the lease meanwhile.    *)
CursorForward ==
    [][cursor'.seq < cursor.seq => \E p \in Procs : Active(p) /\ work[p].kind = "purge" /\ work'[p] = Idle]_vars
=============================================================================
