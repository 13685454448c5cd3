---------------------------- MODULE CodeIndexProofs ----------------------------
(***************************************************************************)
(* Proofs about CodeIndex: its types, that the cursor goes back with a      *)
(* purge only, that a graph at rest is the selection of the trees, that its *)
(* files are hidden by exactly the layers above, and that the view of a     *)
(* checkout shows its files, for any trees, batch size and number of        *)
(* operations, failed calls and lapsed leases.                              *)
(***************************************************************************)
EXTENDS CodeIndex, WellFoundedInduction, TLAPS

IsFunction(f) == f = [x \in DOMAIN f |-> f[x]]

Bare(f) == [sha |-> f.sha, oid |-> f.oid, del |-> f.del]

IsLayer(l) ==
    /\ l = [parent |-> l.parent, ref |-> l.ref, commit |-> l.commit, files |-> l.files]
    /\ DOMAIN l.files \subseteq Paths /\ IsFunction(l.files)

IsPlan(plan) ==
    /\ IsFunction(plan)
    /\ \A l \in DOMAIN plan : IsLayer(plan[l]) /\ \A p \in DOMAIN plan[l].files : plan[l].files[p] = Bare(plan[l].files[p])

IsGraph(g) ==
    /\ IsFunction(g)
    /\ \A l \in DOMAIN g : /\ IsLayer(g[l])
                           /\ \A p \in DOMAIN g[l].files :
                                 LET f == g[l].files[p] IN f = [sha |-> f.sha, oid |-> f.oid, del |-> f.del, by |-> f.by]

(* Two plans agree on a path of a layer.                                    *)
Agree(a, b, l, p) ==
    /\ Holds(a, l, p) <=> Holds(b, l, p)
    /\ Holds(a, l, p) => a[l].files[p] = b[l].files[p]

(* A batch's calls come by phase: none of a later phase has been made.      *)
Ordered(w) ==
    /\ w.ops \subseteq WriteOps(w.prev, w.next) \cup {<<"wipe">>}
    /\ \A o \in w.ops, q \in WriteOps(w.prev, w.next) : Phase(o) < Phase(q) => q \in w.ops
    /\ <<"wipe">> \in w.ops => w.kind \in {"rebuild", "purge"}

(* What the calls that a batch has made have done to the graph, and what    *)
(* those that it has not made have left.                                    *)
Written(g, w) ==
    <<"wipe">> \notin w.ops =>
        LET plan == PlanFromGraph(g) IN
        /\ \A l \in DOMAIN w.next : <<"layer", l>> \notin w.ops => l \in DOMAIN g /\ Node(g[l]) = Node(w.next[l])
        /\ \A l \in DOMAIN g : l \in DOMAIN w.next \/ <<"drop", l>> \in w.ops
        /\ \A l \in DOMAIN w.next, p \in Paths :
             IF <<"put", l, p>> \in w.ops \/ <<"remove", l, p>> \in w.ops
             THEN Agree(plan, w.prev, l, p) ELSE Agree(plan, w.next, l, p)

Bound(g) == \A l \in DOMAIN g : \A p \in DOMAIN g[l].files : g[l].files[p].by \subseteq DOMAIN g

Exact(g) ==
    \A l \in DOMAIN g : \A p \in DOMAIN g[l].files : g[l].files[p].by = HiddenBy(PlanFromGraph(g), l, p)

(* The files that a batch towards next would leave alone are hidden as they *)
(* should be after it.                                                      *)
Retry(g, next) ==
    \A l \in DOMAIN g \cap DOMAIN next : \A p \in DOMAIN g[l].files \cap DOMAIN next[l].files :
        Bare(g[l].files[p]) = next[l].files[p] /\ <<l, p>> \notin Affected(PlanFromGraph(g), next) =>
            g[l].files[p].by \cap DOMAIN next = HiddenBy(next, l, p)

(* The files that a batch has dealt with, or need not, are hidden as they   *)
(* should be after it.                                                      *)
Hidden(g, w) ==
    \A l \in DOMAIN g \cap DOMAIN w.next : \A p \in DOMAIN g[l].files \cap DOMAIN w.next[l].files :
        <<"hide", l, p>> \notin w.ops /\ <<"put", l, p>> \notin w.ops =>
            g[l].files[p].by \cap DOMAIN w.next = HiddenBy(w.next, l, p)

-----------------------------------------------------------------------------
(* What an operation keeps in each of its states.                           *)
Shape(w) ==
    /\ w.pc = "fetch" =>
         w = [pc |-> w.pc, kind |-> w.kind, seq |-> w.seq, state |-> w.state, first |-> w.first, clean |-> w.clean,
              prev |-> w.prev, cache |-> w.cache]
    /\ w.pc = "plan" =>
         w = [pc |-> w.pc, kind |-> w.kind, clean |-> w.clean, more |-> w.more, seq |-> w.seq, state |-> w.state,
              cache |-> w.cache, prev |-> w.prev]
    /\ w.pc = "write" =>
         \/ w.kind # "purge" /\ w = [pc |-> w.pc, kind |-> w.kind, clean |-> w.clean, more |-> w.more, seq |-> w.seq,
                                    state |-> w.state, cache |-> w.cache, prev |-> w.prev, next |-> w.next, ops |-> w.ops]
         \/ w.kind = "purge" /\ w = [pc |-> w.pc, kind |-> w.kind, clean |-> w.clean, seq |-> w.seq, state |-> w.state,
                                    prev |-> w.prev, next |-> w.next, ops |-> w.ops, more |-> w.more]

(* What an operation knows of the graph as long as no other has written.    *)
Batch(w, g) ==
    /\ w.pc = "fetch" => /\ w.kind # "turn" => w.first
                         /\ IF w.first THEN w.prev = NoPlan
                            ELSE IsPlan(w.prev) /\ (w.clean => w.prev = PlanFromGraph(g))
    /\ w.pc = "plan" => /\ w.kind # "purge" /\ IsPlan(w.prev)
                        /\ w.kind = "turn" /\ w.clean => w.prev = PlanFromGraph(g)
                        /\ w.kind = "rebuild" => w.prev = NoPlan
    /\ w.pc = "write" => /\ IsPlan(w.prev) /\ IsPlan(w.next) /\ Ordered(w)
                         /\ w.kind \in {"rebuild", "purge"} => w.prev = NoPlan
                         /\ w.kind = "purge" => w.next = NoPlan
                         /\ w.clean => Written(g, w)

(* The holder of the lease goes on from the cursor.                         *)
Leased(w, cur, spoilt) ==
    w.pc # "idle" =>
        /\ w.pc = "fetch" \/ w.kind = "check" => w.seq = cur.seq /\ w.state = cur.trees
        /\ w.pc \in {"plan", "write"} /\ w.kind = "turn" => cur.seq < w.seq
        /\ w.pc \in {"plan", "write"} /\ w.kind = "rebuild" => cur.seq <= w.seq
        /\ ~ spoilt => w.clean

Caching(w) == w.pc \in {"fetch", "plan"} \/ (w.pc = "write" /\ w.kind # "purge")

(* A tree that was read is as it is now, or a change of it is still to come.*)
Cached(w, ts, lg) ==
    Caching(w) => DOMAIN w.cache \subseteq Keys /\ \A k \in DOMAIN w.cache :
        /\ IsTree(w.cache[k])
        /\ w.cache[k] = ts[k] \/ \E n \in w.seq + 1 .. Len(lg) : Touches(lg[n], k)

(* The selection of the trees, without the empty overlays of some worktrees.*)
ReadingOf(state, ts, gone) ==
    [k \in {j \in DOMAIN state : j[1] \notin gone} |->
        [up |-> state[k].up, head |-> state[k].head, upSeq |-> state[k].upSeq, seq |-> state[k].seq, entries |-> ts[k]]]

Selected(plan, state, ts, gone) ==
    \E I \in SUBSET Worktrees : plan = DropIdleOverlays(Select(ReadingOf(state, ts, gone)), I)

(* A batch at the end of the log writes the selection of the trees.         *)
Wanted(w, ts, gone, lg) ==
    w.pc = "write" /\ w.kind # "purge" /\ w.seq = Len(lg) => Selected(w.next, w.state, ts, gone)

Aside(w) == w.pc = "write" /\ w.kind # "turn"

Resting(g, cur, ts, gone) == Selected(PlanFromGraph(g), cur.trees, ts, gone)

Batches == \A p \in Procs : Batch(work[p], graph)

Leasing == \A p \in Procs : lease = p => Leased(work[p], cursor, spoiled)

Caches == \A p \in Procs : Cached(work[p], trees, log)

Wants == \A p \in Procs : Wanted(work[p], trees, removed, log)

Rests ==
    ~ drift /\ cursor.seq = Len(log) => Resting(graph, cursor, trees, removed) \/ \E p \in Procs : Aside(work[p])

GraphInv ==
    /\ TypeOK /\ \A p \in Procs : Shape(work[p])
    /\ IsGraph(graph) /\ Batches /\ Leasing /\ Caches /\ Wants /\ Rests

(* Who may be writing under the lease.                                      *)
Writing(p) == lease = p /\ work[p].pc = "write"

NoneWriting == \A p \in Procs : ~ Writing(p)

HidesWell(g, w, spoilt) ==
    w.clean /\ (~ spoilt \/ w.kind \in {"rebuild", "purge"}) /\ <<"wipe">> \notin w.ops => Bound(g) /\ Hidden(g, w)

Hiding == \A p \in Procs : Writing(p) => HidesWell(graph, work[p], spoiled)

(* What an interrupted batch left, the next one finds.                      *)
LeftWell(g, left) == Bound(g) /\ (left = {} => Exact(g)) /\ \A x \in left : Retry(g, x)

Owing ==
    /\ ~ spoiled /\ NoneWriting => LeftWell(graph, owed)
    /\ ~ spoiled /\ owed # {} => cursor.seq < Len(log)

HiddenInv == Hiding /\ Owing

-----------------------------------------------------------------------------
(* Replaying the log.                                                       *)
LEMMA LeastNat ==
    ASSUME NEW T, T \subseteq Nat, T # {}
    PROVE  \E x \in T : \A y \in T : x <= y
<1>1. PICK x \in T : \A y \in T : ~ (<<y, x>> \in OpToRel(<, Nat))
  BY WFMin, NatLessThanWellFounded, Zenon
<1>2. ASSUME NEW y \in T, ~ (x <= y) PROVE FALSE
  <2>1. y < x /\ x \in Nat /\ y \in Nat
    BY <1>2
  <2>2. <<y, x>> \in OpToRel(<, Nat)
    BY <2>1 DEF OpToRel
  <2>3. QED  BY <1>1, <2>2
<1>3. QED  BY <1>2

(* The states after every change from one on, as far as another.            *)
IsReplay(f, state, from, to) ==
    f = [n \in from .. to |-> IF n = from THEN state ELSE Consume(f[n - 1], log[n], n)]

LEMMA ReplayExists ==
    ASSUME NEW state, NEW from \in Nat, NEW to \in Nat, from <= to
    PROVE  \E f : IsReplay(f, state, from, to)
<1>   DEFINE T == {m \in from .. to : ~ \E f : IsReplay(f, state, from, m)}
<1>1. SUFFICES ASSUME T # {} PROVE FALSE
  OBVIOUS
<1>2. PICK m \in T : \A y \in T : m <= y
  <2>1. T \subseteq Nat
    OBVIOUS
  <2>2. QED  BY <1>1, <2>1, LeastNat
<1>3. m \in from .. to /\ ~ \E f : IsReplay(f, state, from, m)
  OBVIOUS
<1>4. CASE m = from
  <2>   DEFINE f == [n \in from .. from |-> state]
  <2>1. IsReplay(f, state, from, from)
    BY DEF IsReplay
  <2>2. QED  BY <1>3, <1>4, <2>1
<1>5. CASE m # from
  <2>1. m - 1 \in from .. to /\ m - 1 \notin T
    BY <1>2, <1>3, <1>5
  <2>2. PICK g : IsReplay(g, state, from, m - 1)
    BY <2>1
  <2>   DEFINE f == [n \in from .. m |-> IF n = m THEN Consume(g[m - 1], log[m], m) ELSE g[n]]
  <2>3. \A n \in from .. m : f[n] = IF n = from THEN state ELSE Consume(f[n - 1], log[n], n)
    <3>1. SUFFICES ASSUME NEW n \in from .. m PROVE f[n] = IF n = from THEN state ELSE Consume(f[n - 1], log[n], n)
      OBVIOUS
    <3>2. CASE n = m
      BY <1>3, <1>5, <3>2
    <3>3. CASE n # m
      <4>1. n \in from .. m - 1 /\ f[n] = g[n]
        BY <1>3, <3>3
      <4>2. n # from => n - 1 \in from .. m /\ n - 1 # m /\ f[n - 1] = g[n - 1]
        BY <1>3, <3>3
      <4>   HIDE DEF f
      <4>3. g[n] = IF n = from THEN state ELSE Consume(g[n - 1], log[n], n)
        BY <2>2, <4>1 DEF IsReplay
      <4>4. QED  BY <4>1, <4>2, <4>3
    <3>4. QED  BY <3>2, <3>3
  <2>4. f = [n \in from .. m |-> f[n]]
    OBVIOUS
  <2>   HIDE DEF f
  <2>5. IsReplay(f, state, from, m)
    BY <2>3, <2>4 DEF IsReplay
  <2>6. QED  BY <1>3, <2>5
<1>6. QED  BY <1>4, <1>5

LEMMA ReplayedIs ==
    ASSUME NEW state, NEW from \in Nat, NEW to \in Nat, from <= to
    PROVE  \E f : IsReplay(f, state, from, to) /\ Replayed(state, from, to) = f[to]
<1>   DEFINE f == CHOOSE g : IsReplay(g, state, from, to)
<1>1. IsReplay(f, state, from, to)
  BY ReplayExists
<1>2. Replayed(state, from, to) = f[to]
  BY DEF Replayed, IsReplay
<1>3. QED  BY <1>1, <1>2

LEMMA ConsumeTyped ==
    ASSUME NEW state, IsState(state), NEW ch \in Change, NEW seq \in Nat
    PROVE  IsState(Consume(state, ch, seq))
<1>1. CASE ch.ref = 0
  BY <1>1 DEF Consume, IsState
<1>2. CASE ch.ref # 0
  <2>   DEFINE key == <<ch.wt, ch.ref>>
               new == [up |-> ch.up, head |-> ch.head, seq |-> seq,
                       upSeq |-> IF key \in DOMAIN state /\ state[key].up = ch.up THEN state[key].upSeq ELSE seq]
  <2>1. key \in Keys /\ ch.up \in Nat /\ ch.head \in Nat
    BY <1>2 DEF Change
  <2>2. new \in [up : Nat, head : Nat, seq : Nat, upSeq : Nat]
    BY <2>1 DEF IsState
  <2>3. Consume(state, ch, seq) = [k \in DOMAIN state \cup {key} |-> IF k = key THEN new ELSE state[k]]
    BY <1>2 DEF Consume
  <2>   HIDE DEF key, new
  <2>4. QED  BY <2>1, <2>2, <2>3 DEF IsState
<1>3. QED  BY <1>1, <1>2

LEMMA ReplayedTyped ==
    ASSUME NEW state, IsState(state), log \in Seq(Change), NEW from \in Nat, NEW to \in Nat, from <= to, to <= Len(log)
    PROVE  IsState(Replayed(state, from, to))
<1>1. PICK f : IsReplay(f, state, from, to) /\ Replayed(state, from, to) = f[to]
  BY ReplayedIs
<1>   DEFINE T == {m \in from .. to : ~ IsState(f[m])}
<1>2. CASE T = {}
  BY <1>1, <1>2
<1>3. CASE T # {}
  <2>1. PICK m \in T : \A y \in T : m <= y
    <3>1. T \subseteq Nat
      OBVIOUS
    <3>2. QED  BY <1>3, <3>1, LeastNat
  <2>2. m \in from .. to /\ ~ IsState(f[m])
    OBVIOUS
  <2>3. f[m] = IF m = from THEN state ELSE Consume(f[m - 1], log[m], m)
    BY <1>1, <2>2 DEF IsReplay
  <2>4. m # from
    BY <2>2, <2>3
  <2>5. m - 1 \in from .. to /\ m - 1 \notin T
    BY <2>1, <2>2, <2>4
  <2>6. log[m] \in Change /\ m \in Nat
    BY <2>2, <2>4
  <2>7. IsState(f[m - 1])
    BY <2>5
  <2>8. QED  BY <2>2, <2>3, <2>4, <2>6, <2>7, ConsumeTyped
<1>4. QED  BY <1>2, <1>3

(* Nothing replayed is nothing changed.                                     *)
LEMMA ReplayedNone ==
    ASSUME NEW state, NEW from \in Nat
    PROVE  Replayed(state, from, from) = state
<1>1. PICK f : IsReplay(f, state, from, from) /\ Replayed(state, from, from) = f[from]
  BY ReplayedIs
<1>2. QED  BY <1>1 DEF IsReplay

-----------------------------------------------------------------------------
(* The parts of a selection.                                                *)
Live(t) == {k \in DOMAIN t : DOMAIN t[k].entries # {}}

DefaultOf(t) == DefaultBranch(Live(t))

Sources(t) == BaseSources(t, Live(t), DefaultOf(t))

BaseOf(t) == BaseFiles(t, Sources(t))

On(t, k) == BranchLayerID(k[2], PushedCommit(t, k))

Pushed(t) == {k \in Live(t) : ~ (DefaultOf(t) # 0 /\ k[2] = DefaultOf(t)) /\ PushedCommit(t, k) # 0}

Branches(t) == {On(t, k) : k \in Pushed(t)}

Group(t, l) ==
    LET ts == {k \in Pushed(t) : On(t, k) = l}
        gh == {k \in ts : IsGitHub(k)}
    IN  IF gh # {} THEN gh ELSE ts

BranchOf(t, l) == BranchFiles(t, Group(t, l), BaseOf(t))

Clients(t) == {k \in Live(t) : ~ IsGitHub(k)}

Below(t, k) == IF k \in Pushed(t) THEN Stack(BaseOf(t), BranchOf(t, On(t, k))) ELSE BaseOf(t)

Bottom(t) == IF Sources(t) = {} THEN <<>> ELSE Base

Layers(t) ==
    (IF Sources(t) = {} THEN {} ELSE {Base}) \cup Branches(t) \cup {WorktreeLayerID(k) : k \in Clients(t)}

BaseLayer(t) ==
    [parent |-> <<>>, ref |-> DefaultOf(t), files |-> BaseOf(t), commit |-> PushedCommit(t, CHOOSE k \in Sources(t) : TRUE)]

BranchLayer(t, l) == [parent |-> Bottom(t), ref |-> l[2], commit |-> l[3], files |-> BranchOf(t, l)]

Overlay(t, k, l) ==
    [parent |-> IF k \in Pushed(t) THEN On(t, k) ELSE Bottom(t), ref |-> l[3],
     commit |-> t[k].head, files |-> OverlayFiles(t, k, Below(t, k))]

LEMMA SelectIs ==
    ASSUME NEW t
    PROVE  Select(t) = [l \in Layers(t) |->
                          IF l = Base THEN BaseLayer(t)
                          ELSE IF l[1] = "branch" THEN BranchLayer(t, l) ELSE Overlay(t, <<l[2], l[3]>>, l)]
BY DEF Select, Layers, BaseLayer, BranchLayer, Overlay, Bottom, Below, Clients, BranchOf, Group, Branches, Pushed, On,
       BaseOf, Sources, DefaultOf, Live

(* What a selection is made of: the trees of known keys.                    *)
IsReading(t) == DOMAIN t \subseteq Keys /\ \A k \in DOMAIN t : IsTree(t[k].entries)

IsFiles(f) ==
    DOMAIN f \subseteq Paths /\ IsFunction(f) /\ \A p \in DOMAIN f : f[p] = Bare(f[p])

LEMMA BaseFilesOK ==
    ASSUME NEW t, NEW src
    PROVE  IsFiles(BaseFiles(t, src))
<1>1. \A p : PushedFile(t, src, p) = Bare(PushedFile(t, src, p))
  BY DEF PushedFile, Bare
<1>2. QED  BY <1>1 DEF BaseFiles, IsFiles, IsFunction

LEMMA BranchFilesOK ==
    ASSUME NEW t, NEW src, NEW base, DOMAIN base \subseteq Paths
    PROVE  IsFiles(BranchFiles(t, src, base))
<1>   DEFINE new  == {p \in Paths : /\ PushedState(t, src, p) = "present"
                                    /\ p \in DOMAIN base => base[p].oid # PushedFile(t, src, p).oid}
             gone == {p \in DOMAIN base : PushedState(t, src, p) = "absent"}
<1>1. BranchFiles(t, src, base) = [p \in new \cup gone |-> IF p \in new THEN PushedFile(t, src, p) ELSE Tomb]
  BY DEF BranchFiles
<1>2. \A p : PushedFile(t, src, p) = Bare(PushedFile(t, src, p))
  BY DEF PushedFile, Bare
<1>3. Tomb = Bare(Tomb)
  BY DEF Tomb, Bare
<1>4. new \cup gone \subseteq Paths
  OBVIOUS
<1>   HIDE DEF new, gone
<1>5. QED  BY <1>1, <1>2, <1>3, <1>4 DEF IsFiles, IsFunction

LEMMA OverlayFilesOK ==
    ASSUME NEW t, NEW k, NEW below, IsTree(t[k].entries), DOMAIN below \subseteq Paths
    PROVE  IsFiles(OverlayFiles(t, k, below))
<1>   DEFINE e    == t[k].entries
             own  == {p \in DOMAIN e : e[p].dirty \/ e[p].unpushed}
             gone == DOMAIN below \ DOMAIN e
             file(p) == [sha |-> e[p].sha, oid |-> e[p].oid, del |-> FALSE]
<1>1. OverlayFiles(t, k, below) = [p \in own \cup gone |-> IF p \in gone THEN Tomb ELSE file(p)]
  BY DEF OverlayFiles
<1>2. \A p : file(p) = Bare(file(p))
  BY DEF Bare
<1>3. Tomb = Bare(Tomb)
  BY DEF Tomb, Bare
<1>4. own \cup gone \subseteq Paths
  BY DEF IsTree
<1>   HIDE DEF own, gone, file
<1>5. QED  BY <1>1, <1>2, <1>3, <1>4 DEF IsFiles, IsFunction

LEMMA BelowOK ==
    ASSUME NEW t, NEW k
    PROVE  IsFiles(BaseOf(t)) /\ DOMAIN Below(t, k) \subseteq Paths
<1>1. IsFiles(BaseOf(t))
  BY BaseFilesOK DEF BaseOf
<1>2. \A l : IsFiles(BranchOf(t, l))
  BY <1>1, BranchFilesOK DEF BranchOf, IsFiles
<1>3. \A l : DOMAIN Stack(BaseOf(t), BranchOf(t, l)) \subseteq DOMAIN BaseOf(t) \cup DOMAIN BranchOf(t, l)
  BY DEF Stack
<1>4. QED  BY <1>1, <1>2, <1>3 DEF Below, IsFiles

(* The layer of a name, by the kind of the name.                            *)
LEMMA LayerKinds ==
    ASSUME NEW t, DOMAIN t \subseteq Keys, NEW l \in Layers(t)
    PROVE  \/ l = Base /\ Sources(t) # {} /\ Select(t)[l] = BaseLayer(t)
           \/ /\ l \in Branches(t) /\ l # Base /\ l[1] = "branch"
              /\ Select(t)[l] = BranchLayer(t, l)
           \/ \E k \in Clients(t) : /\ l = WorktreeLayerID(k) /\ l # Base /\ l[1] = "wt" /\ k = <<l[2], l[3]>>
                                    /\ Select(t)[l] = Overlay(t, k, l)
<1>1. CASE l = Base
  <2>1. Sources(t) # {}
    BY <1>1 DEF Layers, Branches, On, BranchLayerID, WorktreeLayerID, Base
  <2>2. QED  BY <1>1, <2>1, SelectIs
<1>2. CASE l \in Branches(t)
  <2>1. l[1] = "branch" /\ l # Base
    BY <1>2 DEF Branches, On, BranchLayerID, Base
  <2>2. QED  BY <1>2, <2>1, SelectIs
<1>3. CASE \E k \in Clients(t) : l = WorktreeLayerID(k)
  <2>1. PICK k \in Clients(t) : l = WorktreeLayerID(k)
    BY <1>3
  <2>2. l[1] = "wt" /\ l # Base /\ l[2] = k[1] /\ l[3] = k[2]
    BY <2>1 DEF WorktreeLayerID, Base
  <2>3. k \in Worktrees \X Refs
    BY CodeIndexAssumption DEF Clients, Live
  <2>4. k = <<l[2], l[3]>>
    BY <2>2, <2>3
  <2>5. QED  BY <2>1, <2>2, <2>4, SelectIs
<1>4. QED  BY <1>1, <1>2, <1>3 DEF Layers

LEMMA SelectOK ==
    ASSUME NEW t, IsReading(t)
    PROVE  IsPlan(Select(t)) /\ DOMAIN Select(t) = Layers(t)
<1>1. DOMAIN Select(t) = Layers(t) /\ IsFunction(Select(t))
  BY SelectIs DEF IsFunction
<1>2. ASSUME NEW l \in Layers(t)
      PROVE  /\ IsLayer(Select(t)[l])
             /\ \A p \in DOMAIN Select(t)[l].files : Select(t)[l].files[p] = Bare(Select(t)[l].files[p])
  <2>1. CASE Select(t)[l] = BaseLayer(t)
    BY <2>1, BelowOK DEF BaseLayer, IsLayer, IsFiles
  <2>2. CASE Select(t)[l] = BranchLayer(t, l)
    <3>1. IsFiles(BranchOf(t, l))
      BY BelowOK, BranchFilesOK DEF BranchOf, IsFiles
    <3>2. QED  BY <2>2, <3>1 DEF BranchLayer, IsLayer, IsFiles
  <2>3. ASSUME NEW k \in Clients(t), Select(t)[l] = Overlay(t, k, l)
        PROVE  /\ IsLayer(Select(t)[l])
               /\ \A p \in DOMAIN Select(t)[l].files : Select(t)[l].files[p] = Bare(Select(t)[l].files[p])
    <3>1. IsFiles(OverlayFiles(t, k, Below(t, k)))
      BY BelowOK, OverlayFilesOK DEF IsReading, Clients, Live
    <3>2. QED  BY <2>3, <3>1 DEF Overlay, IsLayer, IsFiles
  <2>4. QED  BY <2>1, <2>2, <2>3, LayerKinds DEF IsReading
<1>3. QED  BY <1>1, <1>2 DEF IsPlan

LEMMA IdleDropped ==
    ASSUME NEW plan, IsPlan(plan), NEW I
    PROVE  IsPlan(DropIdleOverlays(plan, I))
BY DEF DropIdleOverlays, IsPlan, IsFunction

(* Nothing is selected from no trees.                                       *)
LEMMA NothingSelected ==
    ASSUME NEW ts, NEW gone
    PROVE  Selected(NoPlan, NoPlan, ts, gone)
<1>   DEFINE t == ReadingOf(NoPlan, ts, gone)
<1>1. DOMAIN t = {}
  BY DEF ReadingOf, NoPlan
<1>   HIDE DEF t
<1>2. Live(t) = {}
  BY <1>1 DEF Live
<1>3. Sources(t) = {} /\ Pushed(t) = {} /\ Clients(t) = {}
  BY <1>2 DEF Sources, BaseSources, Pushed, Clients
<1>4. Layers(t) = {}
  BY <1>3 DEF Layers, Branches
<1>5. Select(t) = NoPlan
  BY <1>4, SelectIs DEF NoPlan
<1>6. NoPlan = DropIdleOverlays(NoPlan, {})
  BY DEF NoPlan, DropIdleOverlays
<1>7. QED  BY <1>5, <1>6 DEF Selected, t

(* What a graph says of the plan.                                           *)
LEMMA GraphPlan ==
    ASSUME NEW g, IsGraph(g)
    PROVE  /\ IsPlan(PlanFromGraph(g)) /\ DOMAIN PlanFromGraph(g) = DOMAIN g
           /\ \A l \in DOMAIN g : /\ Node(PlanFromGraph(g)[l]) = Node(g[l])
                                  /\ DOMAIN PlanFromGraph(g)[l].files = DOMAIN g[l].files
                                  /\ \A p \in DOMAIN g[l].files : PlanFromGraph(g)[l].files[p] = Bare(g[l].files[p])
           /\ \A l, p : Holds(PlanFromGraph(g), l, p) <=> Holds(g, l, p)
<1>   DEFINE plan == PlanFromGraph(g)
             files(l) == [p \in DOMAIN g[l].files |-> Bare(g[l].files[p])]
<1>1. plan = [l \in DOMAIN g |-> [parent |-> g[l].parent, ref |-> g[l].ref, commit |-> g[l].commit, files |-> files(l)]]
  BY DEF PlanFromGraph, Bare
<1>2. \A l : DOMAIN files(l) = DOMAIN g[l].files /\ \A p \in DOMAIN g[l].files : files(l)[p] = Bare(g[l].files[p])
  OBVIOUS
<1>3. \A l \in DOMAIN g : DOMAIN files(l) \subseteq Paths
  BY DEF IsGraph, IsLayer
<1>4. \A l : IsFunction(files(l))
  BY DEF IsFunction
<1>5. \A x : Bare(Bare(x)) = Bare(x)
  BY DEF Bare
<1>   HIDE DEF files, plan
<1>6. DOMAIN plan = DOMAIN g /\ IsFunction(plan)
  BY <1>1 DEF IsFunction
<1>7. \A l \in DOMAIN g : IsLayer(plan[l]) /\ plan[l].files = files(l) /\ Node(plan[l]) = Node(g[l])
  BY <1>1, <1>2, <1>3, <1>4 DEF IsLayer, Node
<1>8. \A l, p : Holds(plan, l, p) <=> Holds(g, l, p)
  BY <1>2, <1>6, <1>7 DEF Holds, FilesIn, NoFiles
<1>9. IsPlan(plan)
  BY <1>2, <1>5, <1>6, <1>7 DEF IsPlan
<1>10. QED  BY <1>2, <1>6, <1>7, <1>8, <1>9 DEF plan

(* The calls of a batch.                                                    *)
LEMMA Calls ==
    ASSUME NEW prev, NEW next
    PROVE  /\ \A l : <<"layer", l>> \in WriteOps(prev, next) <=> l \in Changed(prev, next)
           /\ \A l, p : <<"hide", l, p>> \in WriteOps(prev, next) <=> <<l, p>> \in Hides(prev, next)
           /\ \A l, p : <<"remove", l, p>> \in WriteOps(prev, next) <=> l \in DOMAIN next /\ p \in Removes(prev, next, l)
           /\ \A l, p : <<"put", l, p>> \in WriteOps(prev, next) <=> l \in DOMAIN next /\ p \in Puts(prev, next, l)
           /\ \A l : <<"drop", l>> \in WriteOps(prev, next) <=> l \in DOMAIN prev \ DOMAIN next
           /\ <<"wipe">> \notin WriteOps(prev, next)
           /\ \A o \in WriteOps(prev, next) :
                 \/ \E l : o = <<"layer", l>> \/ o = <<"drop", l>>
                 \/ \E l, p : o \in {<<"hide", l, p>>, <<"remove", l, p>>, <<"put", l, p>>}
<1>   DEFINE layers  == {<<"layer", l>> : l \in Changed(prev, next)}
             hides   == {<<"hide", ap[1], ap[2]>> : ap \in Hides(prev, next)}
             files   == UNION {FileOps(prev, next, l) : l \in Changed(prev, next)}
             drops   == {<<"drop", l>> : l \in DOMAIN prev \ DOMAIN next}
<1>1. WriteOps(prev, next) = layers \cup hides \cup files \cup drops
  BY DEF WriteOps
<1>2. \A o \in layers : \E l : l \in Changed(prev, next) /\ o = <<"layer", l>>
  OBVIOUS
<1>3. \A o \in hides : \E l, p : <<l, p>> \in Hides(prev, next) /\ o = <<"hide", l, p>>
  BY DEF Hides, Affected
<1>   DEFINE Removing(o, l, p) == l \in Changed(prev, next) /\ p \in Removes(prev, next, l) /\ o = <<"remove", l, p>>
             Putting(o, l, p)  == l \in Changed(prev, next) /\ p \in Puts(prev, next, l) /\ o = <<"put", l, p>>
<1>4. ASSUME NEW o \in files
      PROVE  \E l, p : Removing(o, l, p) \/ Putting(o, l, p)
  <2>1. PICK l \in Changed(prev, next) : o \in FileOps(prev, next, l)
    OBVIOUS
  <2>2. PICK p : Removing(o, l, p) \/ Putting(o, l, p)
    BY <2>1 DEF FileOps
  <2>   HIDE DEF Removing, Putting
  <2>3. QED  BY <2>2
<1>6. \A o \in drops : \E l : l \in DOMAIN prev \ DOMAIN next /\ o = <<"drop", l>>
  OBVIOUS
<1>7. /\ \A l \in Changed(prev, next) : <<"layer", l>> \in layers
      /\ \A l, p : <<l, p>> \in Hides(prev, next) => <<"hide", l, p>> \in hides
      /\ \A l \in DOMAIN prev \ DOMAIN next : <<"drop", l>> \in drops
  OBVIOUS
<1>8. /\ \A l \in Changed(prev, next) : \A p \in Removes(prev, next, l) : <<"remove", l, p>> \in files
      /\ \A l \in Changed(prev, next) : \A p \in Puts(prev, next, l) : <<"put", l, p>> \in files
  BY DEF FileOps
<1>9. \A l \in DOMAIN next : Puts(prev, next, l) # {} \/ Removes(prev, next, l) # {} => l \in Changed(prev, next)
  BY DEF Changed
<1>10. Changed(prev, next) \subseteq DOMAIN next
  BY DEF Changed
<1>   HIDE DEF layers, hides, files, drops
<1>11. \A l : <<"layer", l>> \in WriteOps(prev, next) <=> l \in Changed(prev, next)
  BY <1>1, <1>2, <1>3, <1>4, <1>6, <1>7
<1>12. \A l, p : <<"hide", l, p>> \in WriteOps(prev, next) <=> <<l, p>> \in Hides(prev, next)
  BY <1>1, <1>2, <1>3, <1>4, <1>6, <1>7
<1>13. \A l, p : <<"remove", l, p>> \in WriteOps(prev, next) <=> l \in DOMAIN next /\ p \in Removes(prev, next, l)
  BY <1>1, <1>2, <1>3, <1>4, <1>6, <1>8, <1>9, <1>10
<1>14. \A l, p : <<"put", l, p>> \in WriteOps(prev, next) <=> l \in DOMAIN next /\ p \in Puts(prev, next, l)
  BY <1>1, <1>2, <1>3, <1>4, <1>6, <1>8, <1>9, <1>10
<1>15. \A l : <<"drop", l>> \in WriteOps(prev, next) <=> l \in DOMAIN prev \ DOMAIN next
  BY <1>1, <1>2, <1>3, <1>4, <1>6, <1>7
<1>16. <<"wipe">> \notin WriteOps(prev, next)
  BY <1>1, <1>2, <1>3, <1>4, <1>6
<1>17. ASSUME NEW o \in WriteOps(prev, next)
       PROVE  \/ \E l : o = <<"layer", l>> \/ o = <<"drop", l>>
              \/ \E l, p : o \in {<<"hide", l, p>>, <<"remove", l, p>>, <<"put", l, p>>}
  <2>1. CASE o \in layers
    BY <1>2, <2>1
  <2>2. CASE o \in drops
    BY <1>6, <2>2
  <2>3. CASE o \in hides
    BY <1>3, <2>3
  <2>4. CASE o \in files
    BY <1>4, <2>4
  <2>5. QED  BY <1>1, <2>1, <2>2, <2>3, <2>4
<1>18. QED  BY <1>11, <1>12, <1>13, <1>14, <1>15, <1>16, <1>17

-----------------------------------------------------------------------------
(* What each call does to the graph.                                        *)
IsFile(f) == f = [sha |-> f.sha, oid |-> f.oid, del |-> f.del, by |-> f.by]

LEMMA GraphParts ==
    ASSUME NEW g
    PROVE  IsGraph(g) <=> IsFunction(g) /\ \A l \in DOMAIN g : IsLayer(g[l]) /\ \A p \in DOMAIN g[l].files : IsFile(g[l].files[p])
BY DEF IsGraph, IsFile

LEMMA LayerCalled ==
    ASSUME IsGraph(graph), NEW next, NEW l \in DOMAIN next
    PROVE  LET c == Called(next, <<"layer", l>>) IN
           /\ IsGraph(c) /\ DOMAIN c = DOMAIN graph \cup {l}
           /\ Node(c[l]) = Node(next[l]) /\ c[l].files = FilesIn(graph, l)
           /\ \A m \in DOMAIN graph \ {l} : c[m] = graph[m]
<1>   DEFINE c == Called(next, <<"layer", l>>)
             new == [parent |-> next[l].parent, ref |-> next[l].ref, commit |-> next[l].commit, files |-> FilesIn(graph, l)]
<1>1. c = [m \in DOMAIN graph \cup {l} |-> IF m = l THEN new ELSE graph[m]]
  BY DEF Called, PutLayer
<1>2. Node(new) = Node(next[l]) /\ new.files = FilesIn(graph, l)
  BY DEF Node
<1>3. IsLayer(new) /\ \A p \in DOMAIN new.files : IsFile(new.files[p])
  BY GraphParts DEF IsLayer, FilesIn, NoFiles, IsFunction
<1>   HIDE DEF c, new
<1>4. DOMAIN c = DOMAIN graph \cup {l} /\ IsFunction(c)
  BY <1>1 DEF IsFunction
<1>5. c[l] = new /\ \A m \in DOMAIN graph \ {l} : c[m] = graph[m]
  BY <1>1
<1>6. IsGraph(c)
  BY <1>3, <1>4, <1>5, GraphParts
<1>7. QED  BY <1>2, <1>4, <1>5, <1>6 DEF c

LEMMA HideCalled ==
    ASSUME IsGraph(graph), NEW next, NEW l \in DOMAIN graph, NEW p \in DOMAIN graph[l].files,
           NEW c, c = Called(next, <<"hide", l, p>>)
    PROVE  /\ IsGraph(c) /\ DOMAIN c = DOMAIN graph
           /\ \A m \in DOMAIN graph : Node(c[m]) = Node(graph[m]) /\ DOMAIN c[m].files = DOMAIN graph[m].files
           /\ \A m \in DOMAIN graph : \A q \in DOMAIN graph[m].files :
                IF m = l /\ q = p THEN Bare(c[m].files[q]) = Bare(graph[m].files[q]) /\ c[m].files[q].by = HiddenBy(next, l, p)
                ELSE c[m].files[q] = graph[m].files[q]
<1>   DEFINE hid == HiddenBy(next, l, p)
             file == [graph[l].files[p] EXCEPT !.by = hid]
             files == [graph[l].files EXCEPT ![p] = file]
             layer == [graph[l] EXCEPT !.files = files]
<1>1. c = [graph EXCEPT ![l] = layer]
  BY DEF Called
<1>2. IsLayer(graph[l]) /\ IsFile(graph[l].files[p]) /\ IsFunction(graph)
  BY GraphParts
<1>   HIDE DEF hid
<1>3. IsFile(file) /\ file.by = hid /\ Bare(file) = Bare(graph[l].files[p])
  BY <1>2 DEF IsFile, Bare
<1>   HIDE DEF file
<1>4. /\ DOMAIN files = DOMAIN graph[l].files /\ IsFunction(files) /\ files[p] = file
      /\ \A q \in DOMAIN files \ {p} : files[q] = graph[l].files[q]
  BY DEF IsFunction
<1>   HIDE DEF files
<1>5. layer.files = files /\ Node(layer) = Node(graph[l]) /\ IsLayer(layer)
  BY <1>2, <1>4 DEF IsLayer, Node
<1>   HIDE DEF layer
<1>6. /\ DOMAIN c = DOMAIN graph /\ IsFunction(c) /\ c[l] = layer
      /\ \A m \in DOMAIN c \ {l} : c[m] = graph[m]
  BY <1>1 DEF IsFunction
<1>7. \A q \in DOMAIN files : IsFile(files[q])
  BY <1>3, <1>4, GraphParts
<1>8. IsGraph(c)
  BY <1>5, <1>6, <1>7, GraphParts
<1>9. \A m \in DOMAIN graph : Node(c[m]) = Node(graph[m]) /\ DOMAIN c[m].files = DOMAIN graph[m].files
  BY <1>4, <1>5, <1>6
<1>10. \A m \in DOMAIN graph : \A q \in DOMAIN graph[m].files :
                IF m = l /\ q = p THEN Bare(c[m].files[q]) = Bare(graph[m].files[q]) /\ c[m].files[q].by = hid
                ELSE c[m].files[q] = graph[m].files[q]
  BY <1>3, <1>4, <1>5, <1>6
<1>11. QED  BY <1>6, <1>8, <1>9, <1>10 DEF hid

LEMMA PutCalled ==
    ASSUME IsGraph(graph), NEW next, IsPlan(next), NEW l \in DOMAIN graph \cap DOMAIN next, NEW p \in DOMAIN next[l].files
    PROVE  LET c == Called(next, <<"put", l, p>>) IN
           /\ IsGraph(c) /\ DOMAIN c = DOMAIN graph
           /\ \A m \in DOMAIN graph : Node(c[m]) = Node(graph[m])
           /\ \A m \in DOMAIN graph \ {l} : c[m] = graph[m]
           /\ DOMAIN c[l].files = DOMAIN graph[l].files \cup {p}
           /\ Bare(c[l].files[p]) = next[l].files[p] /\ c[l].files[p].by = HiddenBy(next, l, p)
           /\ \A q \in DOMAIN graph[l].files \ {p} : c[l].files[q] = graph[l].files[q]
<1>   DEFINE c == Called(next, <<"put", l, p>>)
             hid == HiddenBy(next, l, p)
             f == next[l].files[p]
             file == [sha |-> f.sha, oid |-> f.oid, del |-> f.del, by |-> hid]
             files == [q \in DOMAIN graph[l].files \cup {p} |-> IF q = p THEN file ELSE graph[l].files[q]]
             layer == [graph[l] EXCEPT !.files = files]
<1>1. c = [graph EXCEPT ![l] = layer]
  BY DEF Called, Put
<1>2. IsLayer(graph[l]) /\ IsFunction(graph) /\ f = Bare(f) /\ p \in Paths
  BY GraphParts DEF IsPlan, IsLayer
<1>   HIDE DEF hid, c, f
<1>3. IsFile(file) /\ file.by = hid /\ Bare(file) = f
  BY <1>2 DEF IsFile, Bare
<1>   HIDE DEF file
<1>4. /\ DOMAIN files = DOMAIN graph[l].files \cup {p} /\ IsFunction(files) /\ files[p] = file
      /\ \A q \in DOMAIN graph[l].files \ {p} : files[q] = graph[l].files[q]
  BY DEF IsFunction
<1>   HIDE DEF files
<1>5. layer.files = files /\ Node(layer) = Node(graph[l]) /\ IsLayer(layer)
  BY <1>2, <1>4 DEF IsLayer, Node
<1>   HIDE DEF layer
<1>6. /\ DOMAIN c = DOMAIN graph /\ IsFunction(c) /\ c[l] = layer
      /\ \A m \in DOMAIN c \ {l} : c[m] = graph[m]
  BY <1>1 DEF IsFunction
<1>7. \A q \in DOMAIN files : IsFile(files[q])
  BY <1>3, <1>4, GraphParts
<1>8. IsGraph(c)
  BY <1>5, <1>6, <1>7, GraphParts
<1>9. \A m \in DOMAIN graph : Node(c[m]) = Node(graph[m])
  BY <1>5, <1>6
<1>10. QED  BY <1>3, <1>4, <1>5, <1>6, <1>8, <1>9 DEF c, hid, f

LEMMA RemoveCalled ==
    ASSUME IsGraph(graph), NEW next, NEW l, NEW p
    PROVE  LET c == Called(next, <<"remove", l, p>>) IN
           /\ IsGraph(c) /\ DOMAIN c = DOMAIN graph
           /\ \A m \in DOMAIN graph : Node(c[m]) = Node(graph[m])
           /\ \A m \in DOMAIN graph \ {l} : c[m] = graph[m]
           /\ l \in DOMAIN graph => /\ DOMAIN c[l].files = DOMAIN graph[l].files \ {p}
                                    /\ \A q \in DOMAIN c[l].files : c[l].files[q] = graph[l].files[q]
<1>   DEFINE c == Called(next, <<"remove", l, p>>)
             files == [q \in DOMAIN graph[l].files \ {p} |-> graph[l].files[q]]
             layer == [graph[l] EXCEPT !.files = files]
<1>1. CASE l \notin DOMAIN graph
  <2>1. c = graph
    BY <1>1 DEF Called
  <2>2. QED  BY <1>1, <2>1
<1>2. CASE l \in DOMAIN graph
  <2>1. c = [graph EXCEPT ![l] = layer]
    BY <1>2 DEF Called
  <2>2. IsLayer(graph[l]) /\ IsFunction(graph)
    BY <1>2, GraphParts
  <2>   HIDE DEF c
  <2>3. /\ DOMAIN files = DOMAIN graph[l].files \ {p} /\ IsFunction(files)
        /\ \A q \in DOMAIN files : files[q] = graph[l].files[q]
    BY DEF IsFunction
  <2>   HIDE DEF files
  <2>4. layer.files = files /\ Node(layer) = Node(graph[l]) /\ IsLayer(layer)
    BY <2>2, <2>3 DEF IsLayer, Node
  <2>   HIDE DEF layer
  <2>5. /\ DOMAIN c = DOMAIN graph /\ IsFunction(c) /\ c[l] = layer
        /\ \A m \in DOMAIN c \ {l} : c[m] = graph[m]
    BY <1>2, <2>1 DEF IsFunction
  <2>6. \A q \in DOMAIN files : IsFile(files[q])
    BY <1>2, <2>3, GraphParts
  <2>7. IsGraph(c)
    BY <2>4, <2>5, <2>6, GraphParts
  <2>8. QED  BY <2>3, <2>4, <2>5, <2>7 DEF c
<1>3. QED  BY <1>1, <1>2

DropEffect(g, l, c) ==
    /\ DOMAIN c = DOMAIN g \ {l}
    /\ \A m \in DOMAIN c : Node(c[m]) = Node(g[m]) /\ DOMAIN c[m].files = DOMAIN g[m].files
    /\ \A m \in DOMAIN c : \A q \in DOMAIN c[m].files :
         Bare(c[m].files[q]) = Bare(g[m].files[q]) /\ c[m].files[q].by = g[m].files[q].by \ {l}

LEMMA DropCalled ==
    ASSUME IsGraph(graph), NEW next, NEW l
    PROVE  IsGraph(Called(next, <<"drop", l>>)) /\ DropEffect(graph, l, Called(next, <<"drop", l>>))
<1>   DEFINE c == Called(next, <<"drop", l>>)
             file(m, q) == [graph[m].files[q] EXCEPT !.by = @ \ {l}]
             files(m) == [q \in DOMAIN graph[m].files |-> file(m, q)]
             layer(m) == [graph[m] EXCEPT !.files = files(m)]
<1>1. c = [m \in DOMAIN graph \ {l} |-> layer(m)]
  BY DEF Called, DropLayer
<1>   HIDE DEF c
<1>2. ASSUME NEW m \in DOMAIN graph, NEW q \in DOMAIN graph[m].files
      PROVE  IsFile(file(m, q)) /\ Bare(file(m, q)) = Bare(graph[m].files[q]) /\ file(m, q).by = graph[m].files[q].by \ {l}
  <2>1. IsFile(graph[m].files[q])
    BY GraphParts
  <2>2. QED  BY <2>1 DEF IsFile, Bare
<1>   HIDE DEF file
<1>3. \A m : DOMAIN files(m) = DOMAIN graph[m].files /\ IsFunction(files(m)) /\ \A q \in DOMAIN files(m) : files(m)[q] = file(m, q)
  BY DEF IsFunction
<1>   HIDE DEF files
<1>4. ASSUME NEW m \in DOMAIN graph
      PROVE  IsLayer(layer(m)) /\ Node(layer(m)) = Node(graph[m]) /\ layer(m).files = files(m)
  <2>1. IsLayer(graph[m])
    BY GraphParts
  <2>2. QED  BY <1>3, <2>1 DEF IsLayer, Node
<1>   HIDE DEF layer
<1>5. DOMAIN c = DOMAIN graph \ {l} /\ IsFunction(c) /\ \A m \in DOMAIN c : c[m] = layer(m)
  BY <1>1 DEF IsFunction
<1>6. IsGraph(c)
  BY <1>2, <1>3, <1>4, <1>5, GraphParts
<1>7. DropEffect(graph, l, c)
  BY <1>2, <1>3, <1>4, <1>5 DEF DropEffect
<1>8. QED  BY <1>6, <1>7 DEF c

-----------------------------------------------------------------------------
(* A batch's calls in their order.                                          *)
LEMMA Phases ==
    /\ Phase(<<"wipe">>) = 0
    /\ \A l : Phase(<<"layer", l>>) = 1 /\ Phase(<<"drop", l>>) = 4
    /\ \A l, p : Phase(<<"hide", l, p>>) = 2 /\ Phase(<<"remove", l, p>>) = 3 /\ Phase(<<"put", l, p>>) = 3
BY DEF Phase

LEMMA PhaseTyped ==
    ASSUME NEW prev, NEW next, NEW o \in WriteOps(prev, next) \cup {<<"wipe">>}
    PROVE  Phase(o) \in Nat
BY Calls, Phases

LEMMA OrderedKept ==
    ASSUME NEW v, NEW w, Ordered(v), NEW o \in First(v),
           w.kind = v.kind, w.prev = v.prev, w.next = v.next, w.ops = v.ops \ {o}
    PROVE  Ordered(w)
<1>1. o \in v.ops /\ \A x \in v.ops \ {o} : Before(o, x)
  BY DEF First
<1>2. \A x \in v.ops \ {o} : Phase(o) < Phase(x) \/ Phase(o) = Phase(x)
  BY <1>1 DEF Before
<1>3. v.ops \subseteq WriteOps(v.prev, v.next) \cup {<<"wipe">>}
  BY DEF Ordered
<1>4. ASSUME NEW x \in w.ops, NEW q \in WriteOps(w.prev, w.next), Phase(x) < Phase(q) PROVE q \in w.ops
  <2>1. q \in v.ops
    BY <1>4 DEF Ordered
  <2>2. Phase(x) \in Nat /\ Phase(q) \in Nat /\ Phase(o) \in Nat
    BY <1>1, <1>3, PhaseTyped
  <2>3. q # o
    BY <1>2, <1>4, <2>2
  <2>4. QED  BY <2>1, <2>3
<1>5. QED  BY <1>3, <1>4 DEF Ordered

(* Agreement of a graph with a plan.                                        *)
Matches(g, b, l, p) ==
    /\ Holds(g, l, p) <=> Holds(b, l, p)
    /\ Holds(g, l, p) => Bare(g[l].files[p]) = b[l].files[p]

LEMMA AgreeMatches ==
    ASSUME NEW g, IsGraph(g), NEW b, NEW l, NEW p
    PROVE  Agree(PlanFromGraph(g), b, l, p) <=> Matches(g, b, l, p)
<1>1. Holds(PlanFromGraph(g), l, p) <=> Holds(g, l, p)
  BY GraphPlan
<1>2. Holds(g, l, p) => PlanFromGraph(g)[l].files[p] = Bare(g[l].files[p])
  BY GraphPlan DEF Holds, FilesIn, NoFiles
<1>3. QED  BY <1>1, <1>2 DEF Agree, Matches

LEMMA HoldsIs ==
    ASSUME NEW b, NEW l, NEW p
    PROVE  Holds(b, l, p) <=> l \in DOMAIN b /\ p \in DOMAIN b[l].files
BY DEF Holds, FilesIn, NoFiles

LEMMA WrittenIs ==
    ASSUME NEW g, IsGraph(g), NEW w
    PROVE  Written(g, w) <=>
             (<<"wipe">> \notin w.ops =>
               /\ \A l \in DOMAIN w.next : <<"layer", l>> \notin w.ops => l \in DOMAIN g /\ Node(g[l]) = Node(w.next[l])
               /\ \A l \in DOMAIN g : l \in DOMAIN w.next \/ <<"drop", l>> \in w.ops
               /\ \A l \in DOMAIN w.next, p \in Paths :
                    Matches(g, IF <<"put", l, p>> \in w.ops \/ <<"remove", l, p>> \in w.ops THEN w.prev ELSE w.next, l, p))
BY AgreeMatches DEF Written

LEMMA WrittenStart ==
    ASSUME NEW g, IsGraph(g), NEW w, IsPlan(w.next), w.prev = PlanFromGraph(g), w.ops = WriteOps(w.prev, w.next)
    PROVE  Written(g, w)
<1>1. ASSUME NEW l \in DOMAIN w.next, <<"layer", l>> \notin w.ops PROVE l \in DOMAIN g /\ Node(g[l]) = Node(w.next[l])
  BY <1>1, Calls, GraphPlan DEF Changed
<1>2. ASSUME NEW l \in DOMAIN g PROVE l \in DOMAIN w.next \/ <<"drop", l>> \in w.ops
  BY <1>2, Calls, GraphPlan
<1>3. ASSUME NEW l \in DOMAIN w.next, NEW p \in Paths
      PROVE Agree(PlanFromGraph(g), IF <<"put", l, p>> \in w.ops \/ <<"remove", l, p>> \in w.ops THEN w.prev ELSE w.next, l, p)
  <2>1. CASE <<"put", l, p>> \in w.ops \/ <<"remove", l, p>> \in w.ops
    BY <2>1 DEF Agree
  <2>2. CASE ~ (<<"put", l, p>> \in w.ops \/ <<"remove", l, p>> \in w.ops)
    <3>1. p \notin Puts(w.prev, w.next, l) /\ p \notin Removes(w.prev, w.next, l)
      BY <2>2, Calls
    <3>2. Holds(w.next, l, p) <=> p \in DOMAIN w.next[l].files
      BY HoldsIs
    <3>3. Agree(w.prev, w.next, l, p)
      BY <3>1, <3>2 DEF Agree, Puts, Removes, Holds, FilesIn, NoFiles
    <3>4. QED  BY <2>2, <3>3
  <2>3. QED  BY <2>1, <2>2
<1>4. QED  BY <1>1, <1>2, <1>3, AgreeMatches, WrittenIs

LEMMA SamePlan ==
    ASSUME NEW a, NEW b, IsPlan(a), IsPlan(b), DOMAIN a = DOMAIN b,
           \A l \in DOMAIN a : /\ Node(a[l]) = Node(b[l]) /\ DOMAIN a[l].files = DOMAIN b[l].files
                               /\ \A p \in DOMAIN a[l].files : a[l].files[p] = b[l].files[p]
    PROVE  a = b
<1>1. ASSUME NEW l \in DOMAIN a PROVE a[l] = b[l]
  <2>1. IsLayer(a[l]) /\ IsLayer(b[l])
    BY DEF IsPlan
  <2>2. a[l].files = b[l].files
    BY <2>1 DEF IsLayer, IsFunction
  <2>3. a[l].parent = b[l].parent /\ a[l].ref = b[l].ref /\ a[l].commit = b[l].commit
    BY DEF Node
  <2>4. QED  BY <2>1, <2>2, <2>3 DEF IsLayer
<1>2. QED  BY <1>1 DEF IsPlan, IsFunction

(* A batch that has made all its calls has written its selection.           *)
LEMMA WrittenDone ==
    ASSUME NEW g, IsGraph(g), NEW w, IsPlan(w.next), Written(g, w), w.ops = {}
    PROVE  PlanFromGraph(g) = w.next
<1>1. /\ \A l \in DOMAIN w.next : l \in DOMAIN g /\ Node(g[l]) = Node(w.next[l])
      /\ \A l \in DOMAIN g : l \in DOMAIN w.next
      /\ \A l \in DOMAIN w.next, p \in Paths : Matches(g, w.next, l, p)
  BY WrittenIs
<1>2. DOMAIN g = DOMAIN w.next
  BY <1>1
<1>3. ASSUME NEW l \in DOMAIN g
      PROVE  /\ DOMAIN g[l].files = DOMAIN w.next[l].files
             /\ \A p \in DOMAIN g[l].files : Bare(g[l].files[p]) = w.next[l].files[p]
  <2>1. DOMAIN g[l].files \subseteq Paths /\ DOMAIN w.next[l].files \subseteq Paths
    BY <1>2 DEF IsGraph, IsPlan, IsLayer
  <2>2. \A p \in Paths : Matches(g, w.next, l, p)
    BY <1>1, <1>2
  <2>3. QED  BY <1>2, <2>1, <2>2, HoldsIs DEF Matches
<1>4. QED  BY <1>1, <1>2, <1>3, GraphPlan, SamePlan

(* The kinds of call, and what a call needs.                                *)
LEMMA CallKinds ==
    ASSUME NEW v, Ordered(v), NEW o \in First(v), Possible(o)
    PROVE  \/ o = <<"wipe">> /\ v.kind \in {"rebuild", "purge"} /\ WriteOps(v.prev, v.next) \subseteq v.ops
           \/ /\ <<"wipe">> \notin v.ops /\ o \in WriteOps(v.prev, v.next)
              /\ \/ \E l \in DOMAIN v.next : o = <<"layer", l>>
                 \/ \E l : o = <<"drop", l>> /\ l \notin DOMAIN v.next
                 \/ \E l \in DOMAIN graph : \E p \in DOMAIN graph[l].files : o = <<"hide", l, p>>
                 \/ \E l \in DOMAIN v.next : \E p \in Removes(v.prev, v.next, l) : o = <<"remove", l, p>>
                 \/ \E l \in DOMAIN graph \cap DOMAIN v.next : \E p \in Puts(v.prev, v.next, l) : o = <<"put", l, p>>
<1>1. o \in v.ops /\ \A x \in v.ops \ {o} : Phase(o) < Phase(x) \/ Phase(o) = Phase(x)
  BY DEF First, Before
<1>2. o \in WriteOps(v.prev, v.next) \cup {<<"wipe">>}
  BY <1>1 DEF Ordered
<1>3. CASE o = <<"wipe">>
  <2>1. \A q \in WriteOps(v.prev, v.next) : Phase(o) < Phase(q)
    BY <1>3, Calls, Phases
  <2>2. QED  BY <1>1, <1>3, <2>1 DEF Ordered
<1>4. CASE o \in WriteOps(v.prev, v.next)
  <2>1. Phase(o) \in Nat /\ Phase(o) > 0
    BY <1>4, Calls, Phases
  <2>2. o # <<"wipe">>
    BY <2>1, Phases
  <2>3. <<"wipe">> \notin v.ops
    BY <1>1, <2>1, <2>2, Phases
  <2>4. ASSUME NEW l, o = <<"layer", l>> PROVE l \in DOMAIN v.next
    BY <1>4, <2>4, Calls DEF Changed
  <2>5. ASSUME NEW l, o = <<"drop", l>> PROVE l \notin DOMAIN v.next
    BY <1>4, <2>5, Calls
  <2>6. ASSUME NEW l, NEW p, o = <<"hide", l, p>> PROVE l \in DOMAIN graph /\ p \in DOMAIN graph[l].files
    BY <2>6 DEF Possible
  <2>7. ASSUME NEW l, NEW p, o = <<"remove", l, p>> PROVE l \in DOMAIN v.next /\ p \in Removes(v.prev, v.next, l)
    BY <1>4, <2>7, Calls
  <2>8. ASSUME NEW l, NEW p, o = <<"put", l, p>> PROVE l \in DOMAIN graph \cap DOMAIN v.next /\ p \in Puts(v.prev, v.next, l)
    BY <1>4, <2>8, Calls DEF Possible
  <2>9. CASE \E l : o = <<"layer", l>> \/ o = <<"drop", l>>
    BY <1>4, <2>3, <2>4, <2>5, <2>9
  <2>10. CASE \E l, p : o = <<"hide", l, p>>
    BY <1>4, <2>3, <2>6, <2>10
  <2>11. CASE \E l, p : o = <<"remove", l, p>>
    BY <1>4, <2>3, <2>7, <2>11
  <2>12. CASE \E l, p : o = <<"put", l, p>>
    BY <1>4, <2>3, <2>8, <2>12
  <2>13. QED  BY <1>4, <2>9, <2>10, <2>11, <2>12, Calls
<1>5. QED  BY <1>2, <1>3, <1>4

LEMMA WipeCalled ==
    ASSUME NEW next
    PROVE  Called(next, <<"wipe">>) = NoPlan /\ IsGraph(NoPlan) /\ DOMAIN NoPlan = {}
<1>1. Called(next, <<"wipe">>) = NoPlan
  BY DEF Called
<1>2. DOMAIN NoPlan = {} /\ IsFunction(NoPlan)
  BY DEF NoPlan, IsFunction
<1>3. QED  BY <1>1, <1>2, GraphParts

LEMMA CalledGraph ==
    ASSUME IsGraph(graph), NEW v, Ordered(v), IsPlan(v.next), NEW o \in First(v), Possible(o)
    PROVE  IsGraph(Called(v.next, o))
<1>1. CASE o = <<"wipe">>
  BY <1>1, WipeCalled
<1>2. CASE \E l \in DOMAIN v.next : o = <<"layer", l>>
  BY <1>2, LayerCalled
<1>3. CASE \E l : o = <<"drop", l>> /\ l \notin DOMAIN v.next
  BY <1>3, DropCalled
<1>4. CASE \E l \in DOMAIN graph : \E p \in DOMAIN graph[l].files : o = <<"hide", l, p>>
  <2>1. PICK l \in DOMAIN graph : \E p \in DOMAIN graph[l].files : o = <<"hide", l, p>>
    BY <1>4
  <2>2. PICK p \in DOMAIN graph[l].files : o = <<"hide", l, p>>
    BY <2>1
  <2>3. QED  BY <2>2, HideCalled
<1>5. CASE \E l \in DOMAIN v.next : \E p \in Removes(v.prev, v.next, l) : o = <<"remove", l, p>>
  BY <1>5, RemoveCalled
<1>6. CASE \E l \in DOMAIN graph \cap DOMAIN v.next : \E p \in Puts(v.prev, v.next, l) : o = <<"put", l, p>>
  <2>1. PICK l \in DOMAIN graph \cap DOMAIN v.next : \E p \in DOMAIN v.next[l].files : o = <<"put", l, p>>
    BY <1>6 DEF Puts
  <2>2. QED  BY <2>1, PutCalled
<1>7. QED  BY <1>1, <1>2, <1>3, <1>4, <1>5, <1>6, CallKinds

(* A call of a batch keeps what the batch's calls have done, and what those *)
(* to come will find.                                                       *)
LEMMA WrittenKept ==
    ASSUME IsGraph(graph), NEW v, Ordered(v), IsPlan(v.prev), IsPlan(v.next), Written(graph, v),
           v.kind \in {"rebuild", "purge"} => v.prev = NoPlan,
           NEW o \in First(v), Possible(o),
           NEW w, w.prev = v.prev, w.next = v.next, w.ops = v.ops \ {o}
    PROVE  Written(Called(v.next, o), w)
<1>   DEFINE c == Called(v.next, o)
             Due(x, l, p) == <<"put", l, p>> \in x.ops \/ <<"remove", l, p>> \in x.ops
             Planned(x, l, p) == IF Due(x, l, p) THEN v.prev ELSE v.next
<1>1. IsGraph(c)
  BY CalledGraph
<1>2. CASE o = <<"wipe">>
  <2>1. v.prev = NoPlan /\ WriteOps(v.prev, v.next) \subseteq v.ops
    BY <1>2, CallKinds, Calls
  <2>2. DOMAIN c = {} /\ c = NoPlan
    BY <1>2, WipeCalled
  <2>3. \A l : DOMAIN FilesIn(v.prev, l) = {}
    BY <2>1, WipeCalled DEF FilesIn, NoFiles
  <2>4. ASSUME NEW l \in DOMAIN w.next PROVE <<"layer", l>> \in w.ops
    BY <1>2, <2>1, Calls, WipeCalled DEF Changed
  <2>5. ASSUME NEW l \in DOMAIN w.next, NEW p \in Paths PROVE Matches(c, Planned(w, l, p), l, p)
    <3>1. ~ Holds(c, l, p) /\ ~ Holds(v.prev, l, p)
      BY <2>2, <2>3 DEF Holds, FilesIn, NoFiles
    <3>2. CASE Due(w, l, p)
      BY <3>1, <3>2 DEF Matches
    <3>3. CASE ~ Due(w, l, p)
      <4>1. p \notin Puts(v.prev, v.next, l)
        BY <1>2, <2>1, <3>3, Calls
      <4>2. ~ Holds(v.next, l, p)
        BY <2>3, <4>1, HoldsIs DEF Puts
      <4>3. QED  BY <3>1, <3>3, <4>2 DEF Matches
    <3>4. QED  BY <3>2, <3>3
  <2>   HIDE DEF c
  <2>6. QED  BY <1>1, <2>2, <2>4, <2>5, WrittenIs DEF c
<1>3. CASE o # <<"wipe">>
  <2>1. <<"wipe">> \notin v.ops /\ o \in WriteOps(v.prev, v.next)
    BY <1>3, CallKinds
  <2>2. /\ \A l \in DOMAIN v.next : <<"layer", l>> \notin v.ops => l \in DOMAIN graph /\ Node(graph[l]) = Node(v.next[l])
        /\ \A l \in DOMAIN graph : l \in DOMAIN v.next \/ <<"drop", l>> \in v.ops
        /\ \A l \in DOMAIN v.next, p \in Paths : Matches(graph, Planned(v, l, p), l, p)
    BY <2>1, WrittenIs
  <2>   DEFINE Nodes == \A l \in DOMAIN v.next : <<"layer", l>> \notin w.ops => l \in DOMAIN c /\ Node(c[l]) = Node(v.next[l])
               Drops == \A l \in DOMAIN c : l \in DOMAIN v.next \/ <<"drop", l>> \in w.ops
               Files == \A l \in DOMAIN v.next, p \in Paths : Matches(c, Planned(w, l, p), l, p)
  <2>3. SUFFICES Nodes /\ Drops /\ Files
    <3>   HIDE DEF c
    <3>1. QED  BY <1>1, WrittenIs DEF c
  <2>4. CASE \E l \in DOMAIN v.next : o = <<"layer", l>>
    <3>1. PICK l \in DOMAIN v.next : o = <<"layer", l>>
      BY <2>4
    <3>2. /\ DOMAIN c = DOMAIN graph \cup {l}
          /\ Node(c[l]) = Node(v.next[l]) /\ c[l].files = FilesIn(graph, l)
          /\ \A m \in DOMAIN graph \ {l} : c[m] = graph[m]
      BY <3>1, LayerCalled
    <3>   HIDE DEF c
    <3>3. Nodes
      BY <2>2, <3>1, <3>2
    <3>4. Drops
      BY <2>2, <3>1, <3>2
    <3>5. \A m, p : Due(w, m, p) <=> Due(v, m, p)
      BY <3>1
    <3>6. \A b, m, p : Matches(c, b, m, p) <=> Matches(graph, b, m, p)
      BY <3>2 DEF Matches, Holds, FilesIn, NoFiles
    <3>   HIDE DEF Due
    <3>7. Files
      BY <2>2, <3>5, <3>6
    <3>8. QED  BY <3>3, <3>4, <3>7
  <2>5. CASE \E l : o = <<"drop", l>> /\ l \notin DOMAIN v.next
    <3>1. PICK l : o = <<"drop", l>> /\ l \notin DOMAIN v.next
      BY <2>5
    <3>2. /\ DOMAIN c = DOMAIN graph \ {l}
          /\ \A m \in DOMAIN c : Node(c[m]) = Node(graph[m]) /\ DOMAIN c[m].files = DOMAIN graph[m].files
          /\ \A m \in DOMAIN c : \A q \in DOMAIN c[m].files : Bare(c[m].files[q]) = Bare(graph[m].files[q])
      <4>1. c = Called(v.next, <<"drop", l>>)
        BY <3>1
      <4>   HIDE DEF c
      <4>2. DropEffect(graph, l, c)
        BY <4>1, DropCalled
      <4>3. QED  BY <4>2 DEF DropEffect
    <3>   HIDE DEF c
    <3>3. Nodes
      BY <2>2, <3>1, <3>2
    <3>4. Drops
      BY <2>2, <3>1, <3>2
    <3>5. \A m, p : Due(w, m, p) <=> Due(v, m, p)
      BY <3>1
    <3>6. \A b, p : \A m \in DOMAIN v.next : Matches(c, b, m, p) <=> Matches(graph, b, m, p)
      BY <3>1, <3>2 DEF Matches, Holds, FilesIn, NoFiles
    <3>   HIDE DEF Due
    <3>7. Files
      BY <2>2, <3>5, <3>6
    <3>8. QED  BY <3>3, <3>4, <3>7
  <2>6. CASE \E l \in DOMAIN graph : \E p \in DOMAIN graph[l].files : o = <<"hide", l, p>>
    <3>1. PICK l \in DOMAIN graph : \E p \in DOMAIN graph[l].files : o = <<"hide", l, p>>
      BY <2>6
    <3>2. PICK p \in DOMAIN graph[l].files : o = <<"hide", l, p>>
      BY <3>1
    <3>3. /\ DOMAIN c = DOMAIN graph
          /\ \A m \in DOMAIN graph : Node(c[m]) = Node(graph[m]) /\ DOMAIN c[m].files = DOMAIN graph[m].files
          /\ \A m \in DOMAIN graph : \A q \in DOMAIN graph[m].files :
                IF m = l /\ q = p THEN Bare(c[m].files[q]) = Bare(graph[m].files[q]) /\ c[m].files[q].by = HiddenBy(v.next, l, p)
                ELSE c[m].files[q] = graph[m].files[q]
      <4>1. c = Called(v.next, <<"hide", l, p>>)
        BY <3>2
      <4>   HIDE DEF c
      <4>2. QED  BY <4>1, HideCalled
    <3>4. \A m \in DOMAIN graph : \A q \in DOMAIN graph[m].files : Bare(c[m].files[q]) = Bare(graph[m].files[q])
      BY <3>3
    <3>   HIDE DEF c
    <3>5. Nodes
      BY <2>2, <3>2, <3>3
    <3>6. Drops
      BY <2>2, <3>2, <3>3
    <3>7. \A m, q : Due(w, m, q) <=> Due(v, m, q)
      BY <3>2
    <3>8. \A b, m, q : Matches(c, b, m, q) <=> Matches(graph, b, m, q)
      BY <3>3, <3>4 DEF Matches, Holds, FilesIn, NoFiles
    <3>   HIDE DEF Due
    <3>9. Files
      BY <2>2, <3>7, <3>8
    <3>10. QED  BY <3>5, <3>6, <3>9
  <2>7. CASE \E l \in DOMAIN v.next : \E p \in Removes(v.prev, v.next, l) : o = <<"remove", l, p>>
    <3>1. PICK l \in DOMAIN v.next : \E p \in Removes(v.prev, v.next, l) : o = <<"remove", l, p>>
      BY <2>7
    <3>2. PICK p \in Removes(v.prev, v.next, l) : o = <<"remove", l, p>>
      BY <3>1
    <3>3. /\ DOMAIN c = DOMAIN graph
          /\ \A m \in DOMAIN graph : Node(c[m]) = Node(graph[m])
          /\ \A m \in DOMAIN graph \ {l} : c[m] = graph[m]
          /\ l \in DOMAIN graph => /\ DOMAIN c[l].files = DOMAIN graph[l].files \ {p}
                                   /\ \A q \in DOMAIN c[l].files : c[l].files[q] = graph[l].files[q]
      BY <3>2, RemoveCalled
    <3>   HIDE DEF c
    <3>4. Nodes
      BY <2>2, <3>2, <3>3
    <3>5. Drops
      BY <2>2, <3>2, <3>3
    <3>6. \A m, q : m # l \/ q # p => (Due(w, m, q) <=> Due(v, m, q))
      BY <3>2
    <3>7. \A b, m, q : m # l \/ q # p => (Matches(c, b, m, q) <=> Matches(graph, b, m, q))
      BY <3>3 DEF Matches, Holds, FilesIn, NoFiles
    <3>8. p \notin Puts(v.prev, v.next, l) /\ p \notin DOMAIN v.next[l].files
      BY <3>2 DEF Puts, Removes
    <3>9. ~ Due(w, l, p)
      BY <3>2, <3>8, Calls DEF Ordered
    <3>10. ~ Holds(c, l, p) /\ ~ Holds(v.next, l, p)
      BY <3>3, <3>8, HoldsIs
    <3>11. Matches(c, v.next, l, p)
      BY <3>10 DEF Matches
    <3>   HIDE DEF Due
    <3>12. Files
      BY <2>2, <3>6, <3>7, <3>9, <3>11
    <3>13. QED  BY <3>4, <3>5, <3>12
  <2>8. CASE \E l \in DOMAIN graph \cap DOMAIN v.next : \E p \in Puts(v.prev, v.next, l) : o = <<"put", l, p>>
    <3>1. PICK l \in DOMAIN graph \cap DOMAIN v.next : \E p \in Puts(v.prev, v.next, l) : o = <<"put", l, p>>
      BY <2>8
    <3>2. PICK p \in Puts(v.prev, v.next, l) : o = <<"put", l, p>>
      BY <3>1
    <3>3. p \in DOMAIN v.next[l].files /\ p \notin Removes(v.prev, v.next, l)
      BY <3>2 DEF Puts, Removes
    <3>4. /\ DOMAIN c = DOMAIN graph
          /\ \A m \in DOMAIN graph : Node(c[m]) = Node(graph[m])
          /\ \A m \in DOMAIN graph \ {l} : c[m] = graph[m]
          /\ DOMAIN c[l].files = DOMAIN graph[l].files \cup {p}
          /\ Bare(c[l].files[p]) = v.next[l].files[p]
          /\ \A q \in DOMAIN graph[l].files \ {p} : c[l].files[q] = graph[l].files[q]
      BY <3>2, <3>3, PutCalled
    <3>   HIDE DEF c
    <3>5. Nodes
      BY <2>2, <3>2, <3>4
    <3>6. Drops
      BY <2>2, <3>2, <3>4
    <3>7. \A m, q : m # l \/ q # p => (Due(w, m, q) <=> Due(v, m, q))
      BY <3>2
    <3>8. \A b, m, q : m # l \/ q # p => (Matches(c, b, m, q) <=> Matches(graph, b, m, q))
      BY <3>4 DEF Matches, Holds, FilesIn, NoFiles
    <3>9. ~ Due(w, l, p)
      BY <3>2, <3>3, Calls DEF Ordered
    <3>10. Matches(c, v.next, l, p)
      BY <3>3, <3>4, HoldsIs DEF Matches
    <3>   HIDE DEF Due
    <3>11. Files
      BY <2>2, <3>7, <3>8, <3>9, <3>10
    <3>12. QED  BY <3>5, <3>6, <3>11
  <2>9. QED  BY <1>3, <2>4, <2>5, <2>6, <2>7, <2>8, CallKinds
<1>4. QED  BY <1>2, <1>3

-----------------------------------------------------------------------------
(* Types.                                                                   *)
StoreTyped(ts, gone, asleep, lg) ==
    /\ ts = [k \in Keys |-> ts[k]] /\ \A k \in Keys : IsTree(ts[k])
    /\ gone \subseteq Worktrees /\ asleep \subseteq Worktrees /\ lg \in Seq(Change)

CursorTyped(cur, len) == cur.seq \in 0 .. len /\ IsState(cur.trees)

WorkTyped(w, len) ==
    /\ w.pc \in {"idle", "fetch", "plan", "write"}
    /\ w.pc # "idle" => w.kind \in {"turn", "check", "rebuild", "purge"} /\ w.seq \in 0 .. len /\ IsState(w.state)
    /\ Shape(w)

Types ==
    /\ StoreTyped(trees, removed, idle, log) /\ CursorTyped(cursor, Len(log))
    /\ lease \in Procs \cup {None} /\ (lease # None => work[lease].pc # "idle")
    /\ work = [p \in Procs |-> work[p]] /\ \A p \in Procs : WorkTyped(work[p], Len(log))
    /\ events \in 0 .. MaxEvents /\ faults \in 0 .. MaxFaults
    /\ drift \in BOOLEAN /\ spoiled \in BOOLEAN

LEMMA TypesIs == Types <=> TypeOK /\ \A p \in Procs : Shape(work[p])
<1>1. {drift, spoiled} \subseteq BOOLEAN <=> drift \in BOOLEAN /\ spoiled \in BOOLEAN
  OBVIOUS
<1>2. QED  BY <1>1 DEF Types, TypeOK, StoreTyped, CursorTyped, WorkTyped, Active

LEMMA StateOfNothing == IsState(NoPlan) /\ IsTree(NoFiles)
BY DEF IsState, NoPlan, IsTree, NoFiles

LEMMA ChangeTyped ==
    ASSUME NEW k \in Keys, NEW c, {c.up, c.head} \subseteq Nat
    PROVE  ChangeOf(k, c) \in Change
<1>1. k[1] \in Worktrees /\ k[2] \in Refs /\ k = <<k[1], k[2]>>
  BY CodeIndexAssumption
<1>2. QED  BY <1>1 DEF ChangeOf, Change

LEMMA RemovalTyped ==
    ASSUME NEW k \in Keys
    PROVE  /\ [wt |-> k[1], ref |-> k[2], up |-> 0, head |-> 0] \in Change
           /\ [wt |-> k[1], ref |-> 0, up |-> 0, head |-> 0] \in Change
<1>1. k[1] \in Worktrees /\ k[2] \in Refs /\ k = <<k[1], k[2]>>
  BY CodeIndexAssumption
<1>2. QED  BY <1>1 DEF Change

LEMMA WorkTypedLater ==
    ASSUME NEW w, NEW m \in Nat, NEW n \in Nat, m <= n, WorkTyped(w, m)
    PROVE  WorkTyped(w, n)
BY DEF WorkTyped

(* What a change of one field leaves.                                       *)
LEMMA Uncleaned ==
    ASSUME NEW w, NEW len, WorkTyped(w, len), w.pc # "idle", NEW v, v = [w EXCEPT !.clean = FALSE]
    PROVE  /\ WorkTyped(v, len) /\ v.clean = FALSE
           /\ v.pc = w.pc /\ v.kind = w.kind /\ v.seq = w.seq /\ v.state = w.state /\ v.prev = w.prev
           /\ w.pc = "fetch" => v.first = w.first
           /\ w.pc = "write" => v.next = w.next /\ v.ops = w.ops
           /\ Caching(w) => v.cache = w.cache
<1>1. CASE w.pc = "fetch"
  BY <1>1 DEF WorkTyped, Shape, Caching
<1>2. CASE w.pc = "plan"
  BY <1>2 DEF WorkTyped, Shape, Caching
<1>3. CASE w.pc = "write"
  BY <1>3 DEF WorkTyped, Shape, Caching
<1>4. QED  BY <1>1, <1>2, <1>3 DEF WorkTyped

LEMMA CallDone ==
    ASSUME NEW w, NEW len, WorkTyped(w, len), w.pc = "write", NEW left, NEW v, v = [w EXCEPT !.ops = left]
    PROVE  /\ WorkTyped(v, len) /\ v.ops = left
           /\ v.pc = w.pc /\ v.kind = w.kind /\ v.seq = w.seq /\ v.state = w.state /\ v.prev = w.prev
           /\ v.next = w.next /\ v.clean = w.clean
           /\ Caching(w) => v.cache = w.cache
<1>1. CASE w.kind # "purge"
  BY <1>1 DEF WorkTyped, Shape, Caching
<1>2. CASE w.kind = "purge"
  BY <1>2 DEF WorkTyped, Shape, Caching
<1>3. QED  BY <1>1, <1>2

LEMMA IdleTyped ==
    ASSUME NEW len
    PROVE  WorkTyped(Idle, len) /\ Idle.pc = "idle"
BY DEF WorkTyped, Shape, Idle

LEMMA TypesInit ==
    ASSUME Init
    PROVE  Types
<1>1. DOMAIN log = 1 .. Len(Start) /\ Len(Start) \in Nat
  BY CodeIndexAssumption DEF Init
<1>2. \A n \in 1 .. Len(Start) : log[n] \in Change
  BY <1>1, ChangeTyped, CodeIndexAssumption DEF Init
<1>3. log = [n \in 1 .. Len(Start) |-> log[n]]
  BY CodeIndexAssumption DEF Init
<1>4. log \in Seq(Change) /\ Len(log) \in Nat
  BY <1>1, <1>2, <1>3
<1>5. \A k \in Keys : IsTree(trees[k])
  <2>1. SUFFICES ASSUME NEW k \in Keys PROVE IsTree(trees[k])
    OBVIOUS
  <2>2. CASE \E n \in DOMAIN Start : Start[n].key = k
    <3>1. PICK n \in DOMAIN Start : trees[k] = Start[n].entries
      BY <2>2 DEF Init
    <3>2. QED  BY <3>1, CodeIndexAssumption
  <2>3. CASE ~ \E n \in DOMAIN Start : Start[n].key = k
    BY <2>3, StateOfNothing DEF Init
  <2>4. QED  BY <2>2, <2>3
<1>6. StoreTyped(trees, removed, idle, log)
  BY <1>4, <1>5 DEF StoreTyped, Init
<1>7. CursorTyped(cursor, Len(log))
  BY <1>4, StateOfNothing DEF CursorTyped, NoCursor, Init
<1>8. \A p \in Procs : WorkTyped(work[p], Len(log))
  BY IdleTyped DEF Init
<1>9. work = [p \in Procs |-> work[p]] /\ lease = None
  BY DEF Init
<1>10. events \in 0 .. MaxEvents /\ faults \in 0 .. MaxFaults
  BY CodeIndexAssumption DEF Init
<1>11. drift \in BOOLEAN /\ spoiled \in BOOLEAN
  BY DEF Init
<1>12. QED  BY <1>6, <1>7, <1>8, <1>9, <1>10, <1>11 DEF Types

(* One operation went on, or ended.                                         *)
LEMMA WorkSet ==
    ASSUME Types, NEW p \in Procs, NEW x, work' = [work EXCEPT ![p] = x]
    PROVE  /\ work' = [q \in Procs |-> work'[q]]
           /\ work'[p] = x /\ \A q \in Procs \ {p} : work'[q] = work[q]
           /\ WorkTyped(x, Len(log)) => \A q \in Procs : WorkTyped(work'[q], Len(log))
<1>1. DOMAIN work = Procs /\ \A q \in Procs : WorkTyped(work[q], Len(log))
  BY DEF Types
<1>2. work' = [q \in Procs |-> IF q = p THEN x ELSE work[q]]
  BY <1>1
<1>3. QED  BY <1>1, <1>2

LEMMA EndTyped ==
    ASSUME Types, NEW p \in Procs, End(p)
    PROVE  /\ work' = [q \in Procs |-> work'[q]] /\ \A q \in Procs : WorkTyped(work'[q], Len(log))
           /\ work'[p] = Idle /\ \A q \in Procs \ {p} : work'[q] = work[q]
           /\ lease' \in Procs \cup {None} /\ (lease' # None => lease' = lease /\ lease' # p /\ work'[lease'].pc # "idle")
<1>1. /\ work' = [q \in Procs |-> work'[q]] /\ \A q \in Procs : WorkTyped(work'[q], Len(log))
      /\ work'[p] = Idle /\ \A q \in Procs \ {p} : work'[q] = work[q]
  BY WorkSet, IdleTyped DEF End
<1>2. lease \in Procs \cup {None} /\ (lease # None => work[lease].pc # "idle")
  BY DEF Types
<1>3. lease' = IF lease = p THEN None ELSE lease
  BY DEF End
<1>4. QED  BY <1>1, <1>2, <1>3

LEMMA TypesOnEvent ==
    ASSUME Types, Event, StoreTyped(trees', removed', idle', log'), Len(log') >= Len(log)
    PROVE  Types'
<1>1. Len(log) \in Nat /\ Len(log') \in Nat
  BY DEF Types, StoreTyped
<1>2. CursorTyped(cursor', Len(log'))
  BY <1>1 DEF Types, CursorTyped, Event
<1>3. \A p \in Procs : WorkTyped(work'[p], Len(log'))
  BY <1>1, WorkTypedLater DEF Types, Event
<1>4. work' = [p \in Procs |-> work'[p]] /\ lease' \in Procs \cup {None} /\ (lease' # None => work'[lease'].pc # "idle")
  BY DEF Types, Event
<1>5. events' \in 0 .. MaxEvents /\ faults' \in 0 .. MaxFaults
  BY CodeIndexAssumption DEF Types, Event
<1>6. drift' \in BOOLEAN /\ spoiled' \in BOOLEAN
  BY DEF Types, Event
<1>7. QED  BY <1>2, <1>3, <1>4, <1>5, <1>6 DEF Types

LEMMA TypesStore ==
    ASSUME Types,
           \/ \E k \in Keys : RemoveRef(k) \/ \E c \in Checkouts[k] : Commit(k, c)
           \/ \E w \in Worktrees : RemoveWorktree(w) \/ GoIdle(w) \/ TouchSession(w)
    PROVE  Types'
<1>1. StoreTyped(trees, removed, idle, log)
  BY DEF Types
<1>2. ASSUME NEW k \in Keys, NEW c \in Checkouts[k], Commit(k, c) PROVE Types'
  <2>1. IsTree(c.entries) /\ ChangeOf(k, c) \in Change
    BY CodeIndexAssumption, ChangeTyped
  <2>2. log' \in Seq(Change) /\ Len(log') >= Len(log)
    BY <1>1, <1>2, <2>1 DEF StoreTyped, Commit
  <2>3. trees' = [j \in Keys |-> trees'[j]] /\ \A j \in Keys : IsTree(trees'[j])
    BY <1>1, <1>2, <2>1 DEF StoreTyped, Commit
  <2>4. removed' \subseteq Worktrees /\ idle' \subseteq Worktrees
    BY <1>1, <1>2 DEF StoreTyped, Commit
  <2>5. QED  BY <1>2, <2>2, <2>3, <2>4, TypesOnEvent DEF StoreTyped, Commit
<1>3. ASSUME NEW k \in Keys, RemoveRef(k) PROVE Types'
  <2>1. log' \in Seq(Change) /\ Len(log') >= Len(log)
    <3>   DEFINE ch == [wt |-> k[1], ref |-> k[2], up |-> 0, head |-> 0]
    <3>1. log' = Append(log, ch)
      BY <1>3 DEF RemoveRef
    <3>2. ch \in Change
      BY RemovalTyped
    <3>   HIDE DEF ch
    <3>3. QED  BY <1>1, <3>1, <3>2 DEF StoreTyped
  <2>2. trees' = [j \in Keys |-> trees'[j]] /\ \A j \in Keys : IsTree(trees'[j])
    BY <1>1, <1>3, StateOfNothing DEF StoreTyped, RemoveRef
  <2>3. removed' \subseteq Worktrees /\ idle' \subseteq Worktrees
    BY <1>1, <1>3 DEF StoreTyped, RemoveRef
  <2>4. QED  BY <1>3, <2>1, <2>2, <2>3, TypesOnEvent DEF StoreTyped, RemoveRef
<1>4. ASSUME NEW w \in Worktrees, RemoveWorktree(w) PROVE Types'
  <2>1. PICK k \in Keys : k[1] = w
    BY <1>4 DEF RemoveWorktree
  <2>2. log' \in Seq(Change) /\ Len(log') >= Len(log)
    <3>   DEFINE ch == [wt |-> k[1], ref |-> 0, up |-> 0, head |-> 0]
    <3>1. log' = Append(log, ch)
      BY <1>4, <2>1 DEF RemoveWorktree
    <3>2. ch \in Change
      BY RemovalTyped
    <3>   HIDE DEF ch
    <3>3. QED  BY <1>1, <3>1, <3>2 DEF StoreTyped
  <2>3. trees' = [j \in Keys |-> trees'[j]] /\ \A j \in Keys : IsTree(trees'[j])
    BY <1>1, <1>4, StateOfNothing DEF StoreTyped, RemoveWorktree
  <2>4. removed' \subseteq Worktrees /\ idle' \subseteq Worktrees
    BY <1>1, <1>4 DEF StoreTyped, RemoveWorktree
  <2>5. QED  BY <1>4, <2>2, <2>3, <2>4, TypesOnEvent DEF StoreTyped, RemoveWorktree
<1>5. ASSUME NEW w \in Worktrees, GoIdle(w) \/ TouchSession(w) PROVE Types'
  <2>1. StoreTyped(trees', removed', idle', log') /\ Len(log') >= Len(log) /\ Event
    BY <1>1, <1>5 DEF StoreTyped, GoIdle, TouchSession
  <2>2. QED  BY <2>1, TypesOnEvent
<1>6. QED  BY <1>2, <1>3, <1>4, <1>5

LEMMA CutOffTyped ==
    ASSUME Types, NEW p, CutOff(p)
    PROVE  spoiled' \in BOOLEAN
BY DEF Types, CutOff

LEMMA InterruptedTyped ==
    ASSUME Types, NEW p, Interrupted(p)
    PROVE  drift' \in BOOLEAN /\ spoiled' \in BOOLEAN
BY CutOffTyped DEF Types, Interrupted

LEMMA SettledTyped ==
    ASSUME NEW p, Settled(p)
    PROVE  drift' \in BOOLEAN /\ spoiled' \in BOOLEAN
BY DEF Settled

LEMMA TypesOnStep ==
    ASSUME Types, UNCHANGED <<trees, removed, idle, log>>, CursorTyped(cursor', Len(log)),
           work' = [q \in Procs |-> work'[q]], \A q \in Procs : WorkTyped(work'[q], Len(log)),
           lease' \in Procs \cup {None}, lease' # None => work'[lease'].pc # "idle",
           events' \in 0 .. MaxEvents, faults' \in 0 .. MaxFaults, drift' \in BOOLEAN, spoiled' \in BOOLEAN
    PROVE  Types'
BY DEF Types, StoreTyped

LEMMA TypesAcquire ==
    ASSUME Types, NEW p \in Procs, NEW kind \in Does[p], Acquire(p, kind)
    PROVE  Types'
<1>   DEFINE x == [pc |-> "fetch", kind |-> kind, seq |-> cursor.seq, state |-> cursor.trees,
                   first |-> TRUE, clean |-> TRUE, prev |-> NoPlan, cache |-> NoPlan]
<1>1. work' = [work EXCEPT ![p] = x] /\ lease' = p
  BY DEF Acquire
<1>2. kind \in {"turn", "check", "rebuild", "purge"}
  BY CodeIndexAssumption
<1>3. WorkTyped(x, Len(log)) /\ x.pc # "idle"
  BY <1>2 DEF Types, CursorTyped, WorkTyped, Shape
<1>   HIDE DEF x
<1>4. events' \in 0 .. MaxEvents
  BY CodeIndexAssumption DEF Types, Acquire
<1>5. spoiled' \in BOOLEAN
  BY CutOffTyped DEF Types, Acquire
<1>6. UNCHANGED <<trees, removed, idle, log, cursor, faults, drift>>
  BY DEF Acquire
<1>7. CursorTyped(cursor', Len(log)) /\ faults' \in 0 .. MaxFaults /\ drift' \in BOOLEAN
  BY <1>6 DEF Types
<1>8. QED  BY <1>1, <1>3, <1>4, <1>5, <1>6, <1>7, WorkSet, TypesOnStep

LEMMA TypesEnd ==
    ASSUME Types, NEW p \in Procs, End(p), UNCHANGED <<trees, removed, idle, log>>, CursorTyped(cursor', Len(log)),
           events' \in 0 .. MaxEvents, faults' \in 0 .. MaxFaults, drift' \in BOOLEAN, spoiled' \in BOOLEAN
    PROVE  Types'
BY EndTyped, TypesOnStep

LEMMA TypesGo ==
    ASSUME Types, NEW p \in Procs, NEW x, work' = [work EXCEPT ![p] = x], WorkTyped(x, Len(log)), x.pc # "idle",
           UNCHANGED <<trees, removed, idle, log, lease, events, faults>>, CursorTyped(cursor', Len(log)),
           drift' \in BOOLEAN, spoiled' \in BOOLEAN
    PROVE  Types'
<1>1. lease' \in Procs \cup {None} /\ (lease' # None => work'[lease'].pc # "idle")
  BY WorkSet DEF Types
<1>2. events' \in 0 .. MaxEvents /\ faults' \in 0 .. MaxFaults
  BY DEF Types
<1>3. QED  BY <1>1, <1>2, WorkSet, TypesOnStep

(* What a turn, a rebuild or a check reads.                                 *)
To(w) == IF w.kind = "turn" /\ w.seq + BatchSize < Len(log) THEN w.seq + BatchSize ELSE Len(log)

LEMMA ToTyped ==
    ASSUME Types, NEW w, w.seq \in 0 .. Len(log)
    PROVE  To(w) \in 0 .. Len(log) /\ w.seq <= To(w) /\ Len(log) \in Nat
BY CodeIndexAssumption DEF To, Types, StoreTyped

PurgeWork ==
    [pc |-> "write", kind |-> "purge", clean |-> TRUE, seq |-> 0, state |-> NoPlan,
     prev |-> NoPlan, next |-> NoPlan, ops |-> {<<"wipe">>}, more |-> FALSE]

PlanWork(w) ==
    [pc |-> "plan", kind |-> w.kind, clean |-> w.clean, more |-> w.kind = "turn" /\ To(w) = w.seq + BatchSize,
     seq |-> To(w), state |-> Replayed(w.state, w.seq, To(w)), cache |-> Kept(w, To(w)),
     prev |-> IF w.kind = "turn" /\ w.first THEN PlanFromGraph(graph) ELSE w.prev]

LEMMA FetchIs ==
    ASSUME NEW p, Fetch(p)
    PROVE  /\ work[p].pc = "fetch"
           /\ \/ End(p)
              \/ work[p].kind = "purge" /\ work' = [work EXCEPT ![p] = PurgeWork] /\ lease' = lease
              \/ /\ work[p].kind # "purge" /\ work' = [work EXCEPT ![p] = PlanWork(work[p])] /\ lease' = lease
                 /\ ~ (work[p].kind = "turn" /\ work[p].seq = Len(log)) /\ ~ (work[p].kind = "check" /\ work[p].seq < Len(log))
           /\ UNCHANGED <<trees, removed, idle, log, cursor, graph, events, faults, drift, owed, spoiled>>
BY DEF Fetch, PurgeWork, PlanWork, To

LEMMA TypesFetch ==
    ASSUME Types, NEW p \in Procs, Fetch(p)
    PROVE  Types'
<1>   DEFINE w == work[p]
<1>1. WorkTyped(w, Len(log)) /\ log \in Seq(Change) /\ Len(log) \in Nat
  BY DEF Types, StoreTyped
<1>2. w.pc = "fetch" /\ w.seq \in 0 .. Len(log) /\ IsState(w.state)
  BY <1>1, FetchIs DEF WorkTyped
<1>3. WorkTyped(PurgeWork, Len(log)) /\ PurgeWork.pc # "idle"
  BY <1>1, StateOfNothing DEF WorkTyped, Shape, PurgeWork
<1>4. ASSUME w.kind # "purge"
      PROVE  WorkTyped(PlanWork(w), Len(log)) /\ PlanWork(w).pc # "idle"
  <2>1. To(w) \in 0 .. Len(log) /\ IsState(Replayed(w.state, w.seq, To(w)))
    BY <1>1, <1>2, ToTyped, ReplayedTyped
  <2>2. w.kind \in {"turn", "check", "rebuild", "purge"}
    BY <1>1, <1>2 DEF WorkTyped
  <2>3. QED  BY <2>1, <2>2 DEF WorkTyped, Shape, PlanWork
<1>5. UNCHANGED <<trees, removed, idle, log, cursor, graph, events, faults, drift, owed, spoiled>>
  BY FetchIs
<1>6. CursorTyped(cursor', Len(log)) /\ events' \in 0 .. MaxEvents /\ faults' \in 0 .. MaxFaults
  BY <1>5 DEF Types
<1>7. drift' \in BOOLEAN /\ spoiled' \in BOOLEAN
  BY <1>5 DEF Types
<1>8. CASE End(p)
  BY <1>5, <1>6, <1>7, <1>8, TypesEnd
<1>9. CASE work' = [work EXCEPT ![p] = PurgeWork] /\ lease' = lease
  BY <1>3, <1>5, <1>6, <1>7, <1>9, TypesGo
<1>10. CASE w.kind # "purge" /\ work' = [work EXCEPT ![p] = PlanWork(w)] /\ lease' = lease
  <2>   HIDE DEF w
  <2>1. WorkTyped(PlanWork(w), Len(log)) /\ PlanWork(w).pc # "idle"
    BY <1>4, <1>10
  <2>2. QED  BY <1>5, <1>6, <1>7, <1>10, <2>1, TypesGo
<1>11. QED  BY <1>8, <1>9, <1>10, FetchIs

(* What a batch writes.                                                     *)
CacheOf(w) ==
    [k \in DOMAIN w.cache \cup {j \in DOMAIN w.state : j[1] \notin removed} |->
        IF k \in DOMAIN w.cache THEN w.cache[k] ELSE trees[k]]

NextOf(w) == DropIdleOverlays(Select(Reading(w.state, CacheOf(w))), idle)

PrevOf(w) == IF w.kind = "check" THEN PlanFromGraph(graph) ELSE w.prev

BatchWork(w) ==
    [pc |-> "write", kind |-> w.kind, clean |-> w.clean \/ w.kind # "turn", more |-> w.more,
     seq |-> w.seq, state |-> w.state, cache |-> CacheOf(w), prev |-> PrevOf(w), next |-> NextOf(w),
     ops |-> WriteOps(PrevOf(w), NextOf(w)) \cup (IF w.kind = "rebuild" THEN {<<"wipe">>} ELSE {})]

LEMMA PlanIs ==
    ASSUME NEW p, Plan(p)
    PROVE  /\ work[p].pc = "plan"
           /\ \/ End(p)
              \/ work' = [work EXCEPT ![p] = BatchWork(work[p])] /\ lease' = lease
           /\ spoiled' = (spoiled \/ (owed \ {NextOf(work[p])} # {} /\ work[p].kind # "rebuild"))
           /\ UNCHANGED <<trees, removed, idle, log, cursor, graph, events, faults, drift, owed>>
BY DEF Plan, CacheOf, NextOf, PrevOf, BatchWork

LEMMA TypesPlan ==
    ASSUME Types, NEW p \in Procs, Plan(p), work[p].kind # "purge"
    PROVE  Types'
<1>   DEFINE w == work[p]
<1>1. WorkTyped(w, Len(log)) /\ w.pc = "plan"
  BY PlanIs DEF Types
<1>2. WorkTyped(BatchWork(w), Len(log)) /\ BatchWork(w).pc # "idle"
  BY <1>1 DEF WorkTyped, Shape, BatchWork
<1>3. UNCHANGED <<trees, removed, idle, log, cursor, graph, events, faults, drift, owed>> /\ spoiled' \in BOOLEAN
  BY PlanIs
<1>4. CursorTyped(cursor', Len(log)) /\ events' \in 0 .. MaxEvents /\ faults' \in 0 .. MaxFaults
  BY <1>3 DEF Types
<1>5. drift' \in BOOLEAN
  BY <1>3 DEF Types
<1>6. CASE End(p)
  BY <1>3, <1>4, <1>5, <1>6, TypesEnd
<1>7. CASE work' = [work EXCEPT ![p] = BatchWork(w)] /\ lease' = lease
  BY <1>2, <1>3, <1>4, <1>5, <1>7, TypesGo
<1>8. QED  BY <1>6, <1>7, PlanIs

(* A call of a batch, and what it does to the others' work.                 *)
LEMMA WriteIs ==
    ASSUME Types, NEW p \in Procs, Write(p)
    PROVE  /\ work[p].pc = "write" /\ WorkTyped(work[p], Len(log))
           /\ \E o \in First(work[p]) :
                /\ Possible(o) /\ graph' = Called(work[p].next, o)
                /\ work'[p] = [work[p] EXCEPT !.ops = work[p].ops \ {o}]
           /\ \A q \in Procs \ {p} : work'[q] = IF work[q].pc # "idle" THEN [work[q] EXCEPT !.clean = FALSE] ELSE work[q]
           /\ work' = [q \in Procs |-> work'[q]]
           /\ drift' = (drift \/ lease # p) /\ spoiled' = (spoiled \/ lease # p)
           /\ UNCHANGED <<trees, removed, idle, log, cursor, lease, events, faults, owed>>
<1>1. work[p].pc = "write" /\ WorkTyped(work[p], Len(log))
  BY DEF Write, Types
<1>2. PICK o \in First(work[p]) :
         /\ Possible(o) /\ graph' = Called(work[p].next, o)
         /\ work' = [q \in Procs |-> IF q = p THEN [work[p] EXCEPT !.ops = @ \ {o}]
                                     ELSE IF Active(q) THEN [work[q] EXCEPT !.clean = FALSE] ELSE work[q]]
  BY DEF Write
<1>3. /\ work'[p] = [work[p] EXCEPT !.ops = work[p].ops \ {o}]
      /\ \A q \in Procs \ {p} : work'[q] = IF work[q].pc # "idle" THEN [work[q] EXCEPT !.clean = FALSE] ELSE work[q]
      /\ work' = [q \in Procs |-> work'[q]]
  BY <1>2 DEF Active
<1>4. /\ drift' = (drift \/ lease # p) /\ spoiled' = (spoiled \/ lease # p)
      /\ UNCHANGED <<trees, removed, idle, log, cursor, lease, events, faults, owed>>
  BY DEF Write
<1>5. QED  BY <1>1, <1>2, <1>3, <1>4

LEMMA TypesWrite ==
    ASSUME Types, NEW p \in Procs, Write(p)
    PROVE  Types'
<1>1. \A q \in Procs : WorkTyped(work[q], Len(log))
  BY DEF Types
<1>2. WorkTyped(work'[p], Len(log)) /\ work'[p].pc = "write"
  <2>1. PICK left : work'[p] = [work[p] EXCEPT !.ops = left]
    BY WriteIs
  <2>2. work[p].pc = "write"
    BY WriteIs
  <2>3. QED  BY <1>1, <2>1, <2>2, CallDone
<1>3. ASSUME NEW q \in Procs, q # p PROVE WorkTyped(work'[q], Len(log)) /\ (work[q].pc # "idle" => work'[q].pc # "idle")
  <2>1. CASE work[q].pc # "idle"
    <3>1. work'[q] = [work[q] EXCEPT !.clean = FALSE]
      BY <1>3, <2>1, WriteIs
    <3>2. WorkTyped(work'[q], Len(log)) /\ work'[q].pc = work[q].pc
      BY <1>1, <2>1, <3>1, Uncleaned
    <3>3. QED  BY <2>1, <3>2
  <2>2. CASE work[q].pc = "idle"
    <3>1. work'[q] = work[q]
      BY <1>3, <2>2, WriteIs
    <3>2. QED  BY <1>1, <2>2, <3>1
  <2>3. QED  BY <2>1, <2>2
<1>4. \A q \in Procs : WorkTyped(work'[q], Len(log)) /\ (work[q].pc # "idle" => work'[q].pc # "idle")
  BY <1>2, <1>3
<1>5. UNCHANGED <<trees, removed, idle, log, cursor, lease, events, faults>> /\ work' = [q \in Procs |-> work'[q]]
  BY WriteIs
<1>6. drift' \in BOOLEAN /\ spoiled' \in BOOLEAN
  BY WriteIs
<1>7. lease' \in Procs \cup {None} /\ (lease' # None => work'[lease'].pc # "idle")
  BY <1>4, <1>5 DEF Types
<1>8. CursorTyped(cursor', Len(log)) /\ events' \in 0 .. MaxEvents /\ faults' \in 0 .. MaxFaults
  BY <1>5 DEF Types
<1>9. QED  BY <1>4, <1>5, <1>6, <1>7, <1>8, TypesOnStep

LEMMA TypesFault ==
    ASSUME Types, Fault
    PROVE  faults' \in 0 .. MaxFaults
BY CodeIndexAssumption DEF Types, Fault

LEMMA TypesStop ==
    ASSUME Types, NEW p \in Procs, Fail(p) \/ Stop(p)
    PROVE  Types'
<1>1. End(p) /\ Interrupted(p) /\ UNCHANGED <<trees, removed, idle, log, cursor, graph, events>>
  BY DEF Fail, Stop
<1>2. faults' \in 0 .. MaxFaults
  BY TypesFault DEF Fail, Stop, Types
<1>3. drift' \in BOOLEAN /\ spoiled' \in BOOLEAN
  BY <1>1, InterruptedTyped
<1>4. CursorTyped(cursor', Len(log)) /\ events' \in 0 .. MaxEvents
  BY <1>1 DEF Types
<1>5. QED  BY <1>1, <1>2, <1>3, <1>4, TypesEnd

FetchWork(w) ==
    [pc |-> "fetch", kind |-> "turn", seq |-> w.seq, state |-> w.state, first |-> FALSE,
     clean |-> w.clean, prev |-> w.next, cache |-> w.cache]

LEMMA SaveIs ==
    ASSUME NEW p, Save(p)
    PROVE  /\ work[p].pc = "write" /\ work[p].ops = {} /\ work[p].kind \in {"turn", "rebuild"} /\ lease = p
           /\ cursor' = [seq |-> work[p].seq, trees |-> work[p].state]
           /\ \/ End(p)
              \/ work' = [work EXCEPT ![p] = FetchWork(work[p])] /\ lease' = lease
           /\ Settled(p)
           /\ UNCHANGED <<trees, removed, idle, log, graph, events, faults>>
BY DEF Save, FetchWork, MaySave

LEMMA TypesSave ==
    ASSUME Types, NEW p \in Procs, Save(p)
    PROVE  Types'
<1>   DEFINE w == work[p]
<1>1. WorkTyped(w, Len(log)) /\ w.pc = "write"
  BY SaveIs DEF Types
<1>2. WorkTyped(FetchWork(w), Len(log)) /\ FetchWork(w).pc # "idle"
  BY <1>1 DEF WorkTyped, Shape, FetchWork
<1>3. UNCHANGED <<trees, removed, idle, log, graph, events, faults>> /\ drift' \in BOOLEAN /\ spoiled' \in BOOLEAN
  BY SaveIs, SettledTyped
<1>4. CursorTyped(cursor', Len(log))
  BY <1>1, SaveIs DEF CursorTyped, WorkTyped
<1>5. events' \in 0 .. MaxEvents /\ faults' \in 0 .. MaxFaults
  BY <1>3 DEF Types
<1>6. CASE End(p)
  BY <1>3, <1>4, <1>5, <1>6, TypesEnd
<1>7. CASE work' = [work EXCEPT ![p] = FetchWork(w)] /\ lease' = lease
  BY <1>2, <1>3, <1>4, <1>5, <1>7, TypesGo
<1>8. QED  BY <1>6, <1>7, SaveIs

LEMMA TypesRepaired ==
    ASSUME Types, NEW p \in Procs, Repaired(p)
    PROVE  Types'
<1>1. End(p) /\ Settled(p) /\ UNCHANGED <<trees, removed, idle, log, cursor, graph, events, faults>>
  BY DEF Repaired
<1>2. CursorTyped(cursor', Len(log)) /\ events' \in 0 .. MaxEvents /\ faults' \in 0 .. MaxFaults
  BY <1>1 DEF Types
<1>3. QED  BY <1>1, <1>2, SettledTyped, TypesEnd

LEMMA TypesPurged ==
    ASSUME Types, NEW p \in Procs, Purged(p)
    PROVE  Types'
<1>1. /\ cursor' = NoCursor /\ lease' = None /\ work' = [work EXCEPT ![p] = Idle] /\ Settled(p)
      /\ UNCHANGED <<trees, removed, idle, log, graph, events, faults>>
  BY DEF Purged
<1>2. Len(log) \in Nat
  BY DEF Types, StoreTyped
<1>3. CursorTyped(cursor', Len(log))
  BY <1>1, <1>2, StateOfNothing DEF CursorTyped, NoCursor
<1>4. events' \in 0 .. MaxEvents /\ faults' \in 0 .. MaxFaults
  BY <1>1 DEF Types
<1>5. QED  BY <1>1, <1>3, <1>4, SettledTyped, WorkSet, IdleTyped, TypesOnStep

LEMMA TypesLapse ==
    ASSUME Types, Lapse
    PROVE  Types'
<1>1. lease' = None /\ UNCHANGED <<trees, removed, idle, log, cursor, graph, work, events, drift>> /\ Fault /\ CutOff(lease)
  BY DEF Lapse
<1>2. spoiled' \in BOOLEAN /\ faults' \in 0 .. MaxFaults
  BY <1>1, CutOffTyped, TypesFault
<1>3. QED  BY <1>1, <1>2 DEF Types

LEMMA TypesSame ==
    ASSUME Types, UNCHANGED vars
    PROVE  Types'
BY DEF Types, vars

-----------------------------------------------------------------------------
(* Every kind of step.                                                      *)
StoreStep ==
    \/ \E k \in Keys : RemoveRef(k) \/ \E c \in Checkouts[k] : Commit(k, c)
    \/ \E w \in Worktrees : RemoveWorktree(w) \/ GoIdle(w) \/ TouchSession(w)

LEMMA StepKinds ==
    ASSUME [Next]_vars
    PROVE  \/ StoreStep \/ Lapse \/ UNCHANGED vars
           \/ \E p \in Procs : \/ \E kind \in Does[p] : Acquire(p, kind)
                               \/ Fetch(p) \/ Plan(p) \/ Write(p) \/ Save(p) \/ Repaired(p) \/ Purged(p)
                               \/ Fail(p) \/ Stop(p)
BY DEF Next, Step, StoreStep

LEMMA StoreFrame ==
    ASSUME StoreStep
    PROVE  UNCHANGED <<cursor, lease, graph, work, faults, drift, owed, spoiled>>
BY DEF StoreStep, RemoveRef, Commit, RemoveWorktree, GoIdle, TouchSession, Event

LEMMA TypesStep ==
    ASSUME Types, [Next]_vars, Batches
    PROVE  Types'
<1>1. ASSUME NEW p \in Procs, Plan(p) PROVE Types'
  <2>1. work[p].kind # "purge"
    BY <1>1, PlanIs DEF Batches, Batch
  <2>2. QED  BY <1>1, <2>1, TypesPlan
<1>2. CASE StoreStep
  BY <1>2, TypesStore DEF StoreStep
<1>3. CASE Lapse \/ UNCHANGED vars
  BY <1>3, TypesLapse, TypesSame
<1>4. ASSUME NEW p \in Procs,
             \/ \E kind \in Does[p] : Acquire(p, kind)
             \/ Fetch(p) \/ Plan(p) \/ Write(p) \/ Save(p) \/ Repaired(p) \/ Purged(p) \/ Fail(p) \/ Stop(p)
      PROVE  Types'
  BY <1>1, <1>4, TypesAcquire, TypesFetch, TypesWrite, TypesSave, TypesRepaired, TypesPurged, TypesStop
<1>5. QED  BY <1>2, <1>3, <1>4, StepKinds

-----------------------------------------------------------------------------
(* What operations know of the graph.                                       *)
LEMMA BatchIdle ==
    ASSUME NEW g
    PROVE  Batch(Idle, g)
BY DEF Batch, Idle

LEMMA NoPlanOK == IsPlan(NoPlan) /\ WriteOps(NoPlan, NoPlan) = {}
<1>1. IsPlan(NoPlan)
  BY DEF IsPlan, NoPlan, IsFunction
<1>2. DOMAIN NoPlan = {}
  BY DEF NoPlan
<1>3. Changed(NoPlan, NoPlan) = {} /\ Hides(NoPlan, NoPlan) = {} /\ DOMAIN NoPlan \ DOMAIN NoPlan = {}
  BY <1>2 DEF Changed, Hides, Affected
<1>4. ASSUME NEW o \in WriteOps(NoPlan, NoPlan) PROVE FALSE
  <2>1. CASE \E l : o = <<"layer", l>> \/ o = <<"drop", l>>
    <3>1. PICK l : o = <<"layer", l>> \/ o = <<"drop", l>>
      BY <2>1
    <3>2. <<"layer", l>> \notin WriteOps(NoPlan, NoPlan) /\ <<"drop", l>> \notin WriteOps(NoPlan, NoPlan)
      BY <1>2, <1>3, Calls
    <3>3. QED  BY <3>1, <3>2
  <2>2. CASE \E l, p : o \in {<<"hide", l, p>>, <<"remove", l, p>>, <<"put", l, p>>}
    <3>1. PICK l, p : o = <<"hide", l, p>> \/ o = <<"remove", l, p>> \/ o = <<"put", l, p>>
      BY <2>2
    <3>2. /\ <<"hide", l, p>> \notin WriteOps(NoPlan, NoPlan) /\ <<"remove", l, p>> \notin WriteOps(NoPlan, NoPlan)
          /\ <<"put", l, p>> \notin WriteOps(NoPlan, NoPlan)
      BY <1>2, <1>3, Calls
    <3>3. QED  BY <3>1, <3>2
  <2>3. QED  BY <2>1, <2>2, Calls
<1>5. QED  BY <1>1, <1>4

LEMMA BatchPurge ==
    ASSUME NEW g
    PROVE  Batch(PurgeWork, g)
<1>1. Ordered(PurgeWork)
  BY NoPlanOK DEF Ordered, PurgeWork
<1>2. Written(g, PurgeWork)
  BY DEF Written, PurgeWork
<1>3. QED  BY <1>1, <1>2, NoPlanOK DEF Batch, PurgeWork

LEMMA BatchPlanned ==
    ASSUME IsGraph(graph), NEW w, w.pc = "fetch", w.kind # "purge", Batch(w, graph)
    PROVE  Batch(PlanWork(w), graph)
<1>1. PlanWork(w).pc = "plan" /\ PlanWork(w).kind = w.kind /\ PlanWork(w).clean = w.clean
  BY DEF PlanWork
<1>2. PlanWork(w).prev = IF w.kind = "turn" /\ w.first THEN PlanFromGraph(graph) ELSE w.prev
  BY DEF PlanWork
<1>3. IsPlan(PlanWork(w).prev)
  BY <1>2, GraphPlan, NoPlanOK DEF Batch
<1>4. QED  BY <1>1, <1>2, <1>3 DEF Batch

LEMMA BatchBegun ==
    ASSUME IsGraph(graph), NEW w, w.pc = "plan", Batch(w, graph), w.kind \in {"turn", "check", "rebuild", "purge"}, IsPlan(NextOf(w))
    PROVE  Batch(BatchWork(w), graph)
<1>   DEFINE v == BatchWork(w)
<1>1. /\ v.pc = "write" /\ v.kind = w.kind /\ v.prev = PrevOf(w) /\ v.next = NextOf(w)
      /\ v.ops = WriteOps(v.prev, v.next) \cup (IF w.kind = "rebuild" THEN {<<"wipe">>} ELSE {})
      /\ v.clean = (w.clean \/ w.kind # "turn")
  BY DEF BatchWork
<1>   HIDE DEF v
<1>2. w.kind # "purge" /\ IsPlan(v.prev) /\ (w.kind = "rebuild" => v.prev = NoPlan)
  <2>1. w.kind # "purge" /\ IsPlan(w.prev) /\ (w.kind = "rebuild" => w.prev = NoPlan)
    BY DEF Batch
  <2>2. IsPlan(PlanFromGraph(graph))
    BY GraphPlan
  <2>3. v.prev = IF w.kind = "check" THEN PlanFromGraph(graph) ELSE w.prev
    BY <1>1 DEF PrevOf
  <2>4. CASE w.kind = "check"
    <3>1. v.prev = PlanFromGraph(graph)
      BY <2>3, <2>4
    <3>2. QED  BY <2>2, <2>4, <3>1
  <2>5. CASE w.kind # "check"
    <3>1. v.prev = w.prev
      BY <2>3, <2>5
    <3>2. QED  BY <2>1, <3>1
  <2>6. QED  BY <2>4, <2>5
<1>3. Ordered(v)
  <2>1. WriteOps(v.prev, v.next) \subseteq v.ops /\ v.ops \subseteq WriteOps(v.prev, v.next) \cup {<<"wipe">>}
    BY <1>1
  <2>2. <<"wipe">> \in v.ops => v.kind = "rebuild"
    BY <1>1, Calls
  <2>3. QED  BY <2>1, <2>2 DEF Ordered
<1>4. ASSUME v.clean PROVE Written(graph, v)
  <2>1. CASE w.kind = "rebuild"
    BY <1>1, <2>1 DEF Written
  <2>2. CASE w.kind # "rebuild"
    <3>1. v.prev = PlanFromGraph(graph)
      BY <1>1, <1>2, <1>4, <2>2 DEF Batch, PrevOf
    <3>2. QED  BY <1>1, <2>2, <3>1, WrittenStart
  <2>3. QED  BY <2>1, <2>2
<1>5. QED  BY <1>1, <1>2, <1>3, <1>4 DEF Batch, v

LEMMA BatchSaved ==
    ASSUME IsGraph(graph), NEW w, w.pc = "write", w.ops = {}, Batch(w, graph)
    PROVE  Batch(FetchWork(w), graph)
<1>   DEFINE v == FetchWork(w)
<1>1. v.pc = "fetch" /\ v.kind = "turn" /\ v.first = FALSE /\ v.prev = w.next /\ v.clean = w.clean
  BY DEF FetchWork
<1>2. v.clean => v.prev = PlanFromGraph(graph)
  BY <1>1, WrittenDone DEF Batch
<1>   HIDE DEF v
<1>3. QED  BY <1>1, <1>2 DEF Batch, v

LEMMA BatchCalled ==
    ASSUME IsGraph(graph), NEW v, v.pc = "write", Batch(v, graph), NEW o \in First(v), Possible(o),
           NEW w, w.pc = v.pc, w.kind = v.kind, w.prev = v.prev, w.next = v.next, w.clean = v.clean, w.ops = v.ops \ {o}
    PROVE  Batch(w, Called(v.next, o))
<1>1. Ordered(w)
  BY OrderedKept DEF Batch
<1>2. ASSUME w.clean PROVE Written(Called(v.next, o), w)
  BY <1>2, WrittenKept DEF Batch
<1>3. QED  BY <1>1, <1>2 DEF Batch

LEMMA BatchUncleaned ==
    ASSUME NEW w, NEW len, WorkTyped(w, len), w.pc # "idle", NEW g, NEW h, Batch(w, g), NEW v, v = [w EXCEPT !.clean = FALSE]
    PROVE  Batch(v, h)
<1>1. /\ v.clean = FALSE
      /\ v.pc = w.pc /\ v.kind = w.kind /\ v.prev = w.prev
      /\ w.pc = "fetch" => v.first = w.first
      /\ w.pc = "write" => v.next = w.next /\ v.ops = w.ops
  BY Uncleaned
<1>2. w.pc = "write" => Ordered(v)
  BY <1>1 DEF Batch, Ordered
<1>3. QED  BY <1>1, <1>2 DEF Batch

(* What a batch is to write is a plan; at the end of the log, that of the   *)
(* trees as they are.                                                       *)
LEMMA NextOK ==
    ASSUME Types, NEW w, WorkTyped(w, Len(log)), w.pc = "plan", Cached(w, trees, log)
    PROVE  /\ IsPlan(NextOf(w))
           /\ w.seq = Len(log) => Selected(NextOf(w), w.state, trees, removed)
<1>   DEFINE keys == {j \in DOMAIN w.state : j[1] \notin removed}
             t == ReadingOf(w.state, CacheOf(w), removed)
<1>1. NextOf(w) = DropIdleOverlays(Select(t), idle)
  BY DEF NextOf, Reading, ReadingOf
<1>2. DOMAIN t = keys /\ \A k \in keys : t[k].entries = CacheOf(w)[k]
  BY DEF ReadingOf
<1>3. keys \subseteq Keys
  BY DEF WorkTyped, IsState
<1>4. \A k \in Keys : IsTree(trees[k])
  BY DEF Types, StoreTyped
<1>5. \A k \in DOMAIN w.cache : IsTree(w.cache[k])
  BY DEF Cached, Caching
<1>6. \A k \in keys : CacheOf(w)[k] = IF k \in DOMAIN w.cache THEN w.cache[k] ELSE trees[k]
  BY DEF CacheOf
<1>7. IsReading(t)
  BY <1>2, <1>3, <1>4, <1>5, <1>6 DEF IsReading
<1>   HIDE DEF t
<1>8. IsPlan(NextOf(w))
  BY <1>1, <1>7, SelectOK, IdleDropped
<1>9. ASSUME w.seq = Len(log) PROVE Selected(NextOf(w), w.state, trees, removed)
  <2>1. Len(log) \in Nat
    BY DEF Types, StoreTyped
  <2>2. w.seq + 1 .. Len(log) = {}
    BY <1>9, <2>1
  <2>3. \A k \in DOMAIN w.cache : w.cache[k] = trees[k]
    BY <2>2 DEF Cached, Caching
  <2>4. \A k \in keys : CacheOf(w)[k] = trees[k]
    BY <1>6, <2>3
  <2>5. t = ReadingOf(w.state, trees, removed)
    BY <2>4 DEF t, ReadingOf
  <2>6. idle \in SUBSET Worktrees
    BY DEF Types, StoreTyped
  <2>7. QED  BY <1>1, <2>5, <2>6 DEF Selected
<1>10. QED  BY <1>8, <1>9

LEMMA BatchesKept ==
    ASSUME GraphInv, NEW p \in Procs, graph' = graph, Batch(work'[p], graph), \A q \in Procs \ {p} : work'[q] = work[q]
    PROVE  IsGraph(graph') /\ Batches'
BY DEF GraphInv, Batches

LEMMA GraphTypes ==
    ASSUME GraphInv
    PROVE  Types
BY TypesIs DEF GraphInv

LEMMA BatchesStep ==
    ASSUME GraphInv, [Next]_vars
    PROVE  IsGraph(graph') /\ Batches'
<1>1. Types
  BY GraphTypes
<1>2. IsGraph(graph) /\ (\A p \in Procs : Batch(work[p], graph) /\ Cached(work[p], trees, log) /\ WorkTyped(work[p], Len(log)))
  BY <1>1 DEF GraphInv, Batches, Caches, Types
<1>3. CASE StoreStep
  BY <1>2, <1>3, StoreFrame DEF Batches
<1>4. CASE Lapse \/ UNCHANGED vars
  BY <1>2, <1>4 DEF Lapse, vars, Batches
<1>5. ASSUME NEW p \in Procs, End(p), graph' = graph PROVE IsGraph(graph') /\ Batches'
  BY <1>1, <1>5, EndTyped, BatchIdle, BatchesKept
<1>6. ASSUME NEW p \in Procs, NEW kind \in Does[p], Acquire(p, kind) PROVE IsGraph(graph') /\ Batches'
  <2>   DEFINE x == [pc |-> "fetch", kind |-> kind, seq |-> cursor.seq, state |-> cursor.trees,
                     first |-> TRUE, clean |-> TRUE, prev |-> NoPlan, cache |-> NoPlan]
  <2>1. work' = [work EXCEPT ![p] = x] /\ graph' = graph
    BY <1>6 DEF Acquire
  <2>2. Batch(x, graph)
    BY DEF Batch
  <2>   HIDE DEF x
  <2>3. QED  BY <1>1, <2>1, <2>2, WorkSet, BatchesKept
<1>7. ASSUME NEW p \in Procs, Fetch(p) PROVE IsGraph(graph') /\ Batches'
  <2>1. graph' = graph /\ work[p].pc = "fetch"
    BY <1>7, FetchIs
  <2>2. CASE End(p)
    BY <1>5, <2>1, <2>2
  <2>3. CASE work' = [work EXCEPT ![p] = PurgeWork]
    BY <1>1, <2>1, <2>3, BatchPurge, WorkSet, BatchesKept
  <2>4. CASE work[p].kind # "purge" /\ work' = [work EXCEPT ![p] = PlanWork(work[p])]
    <3>1. Batch(PlanWork(work[p]), graph)
      BY <1>2, <2>1, <2>4, BatchPlanned
    <3>2. QED  BY <1>1, <2>1, <2>4, <3>1, WorkSet, BatchesKept
  <2>5. QED  BY <1>7, <2>2, <2>3, <2>4, FetchIs
<1>8. ASSUME NEW p \in Procs, Plan(p) PROVE IsGraph(graph') /\ Batches'
  <2>1. graph' = graph /\ work[p].pc = "plan"
    BY <1>8, PlanIs
  <2>2. CASE End(p)
    BY <1>5, <2>1, <2>2
  <2>3. CASE work' = [work EXCEPT ![p] = BatchWork(work[p])]
    <3>1. IsPlan(NextOf(work[p])) /\ work[p].kind \in {"turn", "check", "rebuild", "purge"}
      BY <1>1, <1>2, <2>1, NextOK DEF WorkTyped
    <3>2. Batch(BatchWork(work[p]), graph)
      BY <1>2, <2>1, <3>1, BatchBegun
    <3>3. QED  BY <1>1, <2>1, <2>3, <3>2, WorkSet, BatchesKept
  <2>4. QED  BY <1>8, <2>2, <2>3, PlanIs
<1>9. ASSUME NEW p \in Procs, Write(p) PROVE IsGraph(graph') /\ Batches'
  <2>   DEFINE v == work[p]
  <2>1. v.pc = "write" /\ WorkTyped(v, Len(log)) /\ Batch(v, graph)
    BY <1>1, <1>2, <1>9, WriteIs
  <2>2. PICK o \in First(v) : /\ Possible(o) /\ graph' = Called(v.next, o)
                              /\ work'[p] = [v EXCEPT !.ops = v.ops \ {o}]
    BY <1>1, <1>9, WriteIs
  <2>3. IsGraph(graph')
    BY <1>2, <2>1, <2>2, CalledGraph DEF Batch
  <2>4. Batch(work'[p], graph')
    <3>1. /\ work'[p].ops = v.ops \ {o} /\ work'[p].pc = v.pc /\ work'[p].kind = v.kind /\ work'[p].prev = v.prev
          /\ work'[p].next = v.next /\ work'[p].clean = v.clean
      <4>   HIDE DEF v
      <4>1. PICK left : left = v.ops \ {o}
        OBVIOUS
      <4>2. QED  BY <2>1, <2>2, <4>1, CallDone
    <3>2. QED  BY <1>2, <2>1, <2>2, <3>1, BatchCalled
  <2>5. ASSUME NEW q \in Procs, q # p PROVE Batch(work'[q], graph')
    <3>1. work'[q] = IF work[q].pc # "idle" THEN [work[q] EXCEPT !.clean = FALSE] ELSE work[q]
      BY <1>1, <1>9, <2>5, WriteIs
    <3>2. CASE work[q].pc # "idle"
      <4>1. work'[q] = [work[q] EXCEPT !.clean = FALSE]
        BY <3>1, <3>2
      <4>2. QED  BY <1>2, <3>2, <4>1, BatchUncleaned
    <3>3. CASE work[q].pc = "idle"
      BY <3>1, <3>3 DEF Batch
    <3>4. QED  BY <3>2, <3>3
  <2>6. QED  BY <2>3, <2>4, <2>5 DEF Batches
<1>10. ASSUME NEW p \in Procs, Save(p) PROVE IsGraph(graph') /\ Batches'
  <2>1. graph' = graph /\ work[p].pc = "write" /\ work[p].ops = {}
    BY <1>10, SaveIs
  <2>2. CASE End(p)
    BY <1>5, <2>1, <2>2
  <2>3. CASE work' = [work EXCEPT ![p] = FetchWork(work[p])]
    BY <1>1, <1>2, <2>1, <2>3, BatchSaved, WorkSet, BatchesKept
  <2>4. QED  BY <1>10, <2>2, <2>3, SaveIs
<1>11. ASSUME NEW p \in Procs, Repaired(p) \/ Fail(p) \/ Stop(p) PROVE IsGraph(graph') /\ Batches'
  BY <1>5, <1>11 DEF Repaired, Fail, Stop
<1>12. ASSUME NEW p \in Procs, Purged(p) PROVE IsGraph(graph') /\ Batches'
  <2>1. work' = [work EXCEPT ![p] = Idle] /\ graph' = graph
    BY <1>12 DEF Purged
  <2>2. QED  BY <1>1, <2>1, BatchIdle, WorkSet, BatchesKept
<1>13. QED  BY <1>3, <1>4, <1>6, <1>7, <1>8, <1>9, <1>10, <1>11, <1>12, StepKinds

-----------------------------------------------------------------------------
(* What operations have read of the trees, and what they make of it.        *)
(* Whatever changes the trees tells the log.                                *)
LEMMA Logged ==
    ASSUME Types, StoreStep
    PROVE  \/ log' = log /\ trees' = trees /\ removed' = removed
           \/ \E ch : log' = Append(log, ch) /\ \A k \in Keys : trees'[k] = trees[k] \/ Touches(ch, k)
<1>1. trees = [k \in Keys |-> trees[k]]
  BY DEF Types, StoreTyped
<1>2. ASSUME NEW k \in Keys, NEW c, Commit(k, c)
      PROVE  \E ch : log' = Append(log, ch) /\ \A j \in Keys : trees'[j] = trees[j] \/ Touches(ch, j)
  <2>1. log' = Append(log, ChangeOf(k, c)) /\ trees' = [trees EXCEPT ![k] = c.entries]
    BY <1>2 DEF Commit
  <2>2. Touches(ChangeOf(k, c), k)
    BY DEF Touches, ChangeOf
  <2>3. \A j \in Keys : trees'[j] = trees[j] \/ Touches(ChangeOf(k, c), j)
    BY <1>1, <2>1, <2>2
  <2>4. QED  BY <2>1, <2>3
<1>3. ASSUME NEW k \in Keys, RemoveRef(k)
      PROVE  \E ch : log' = Append(log, ch) /\ \A j \in Keys : trees'[j] = trees[j] \/ Touches(ch, j)
  <2>   DEFINE ch == [wt |-> k[1], ref |-> k[2], up |-> 0, head |-> 0]
  <2>1. log' = Append(log, ch) /\ trees' = [trees EXCEPT ![k] = NoFiles]
    BY <1>3 DEF RemoveRef
  <2>2. Touches(ch, k)
    BY DEF Touches
  <2>   HIDE DEF ch
  <2>3. \A j \in Keys : trees'[j] = trees[j] \/ Touches(ch, j)
    BY <1>1, <2>1, <2>2
  <2>4. QED  BY <2>1, <2>3
<1>4. ASSUME NEW w \in Worktrees, RemoveWorktree(w)
      PROVE  \E ch : log' = Append(log, ch) /\ \A j \in Keys : trees'[j] = trees[j] \/ Touches(ch, j)
  <2>   DEFINE ch == [wt |-> w, ref |-> 0, up |-> 0, head |-> 0]
  <2>1. log' = Append(log, ch) /\ trees' = [k \in Keys |-> IF k[1] = w THEN NoFiles ELSE trees[k]]
    BY <1>4 DEF RemoveWorktree
  <2>2. \A j \in Keys : j[1] = w => Touches(ch, j)
    BY DEF Touches
  <2>   HIDE DEF ch
  <2>3. \A j \in Keys : trees'[j] = trees[j] \/ Touches(ch, j)
    BY <2>1, <2>2
  <2>4. QED  BY <2>1, <2>3
<1>5. ASSUME NEW w \in Worktrees, GoIdle(w) \/ TouchSession(w)
      PROVE  log' = log /\ trees' = trees /\ removed' = removed
  BY <1>5 DEF GoIdle, TouchSession
<1>6. QED  BY <1>2, <1>3, <1>4, <1>5 DEF StoreStep

LEMMA Longer ==
    ASSUME Types, NEW ch, log' = Append(log, ch)
    PROVE  /\ Len(log) \in Nat /\ Len(log') = Len(log) + 1 /\ log'[Len(log) + 1] = ch
           /\ \A n \in 1 .. Len(log) : log'[n] = log[n]
BY DEF Types, StoreTyped

LEMMA CachedIdle ==
    ASSUME NEW ts, NEW gone, NEW lg
    PROVE  Cached(Idle, ts, lg) /\ Wanted(Idle, ts, gone, lg)
BY DEF Cached, Caching, Wanted, Idle

LEMMA CachedLater ==
    ASSUME Types, NEW ch, log' = Append(log, ch), \A k \in Keys : trees'[k] = trees[k] \/ Touches(ch, k),
           NEW w, WorkTyped(w, Len(log)), Cached(w, trees, log)
    PROVE  Cached(w, trees', log') /\ Wanted(w, trees', removed', log')
<1>1. /\ Len(log) \in Nat /\ Len(log') = Len(log) + 1 /\ log'[Len(log) + 1] = ch
      /\ \A n \in 1 .. Len(log) : log'[n] = log[n]
  BY Longer
<1>2. w.pc # "idle" => w.seq \in 0 .. Len(log)
  BY DEF WorkTyped
<1>3. ASSUME Caching(w), NEW k \in DOMAIN w.cache
      PROVE  w.cache[k] = trees'[k] \/ \E n \in w.seq + 1 .. Len(log') : Touches(log'[n], k)
  <2>1. k \in Keys /\ w.seq \in 0 .. Len(log)
    BY <1>2, <1>3 DEF Cached, Caching
  <2>2. CASE Touches(ch, k)
    <3>1. Len(log) + 1 \in w.seq + 1 .. Len(log') /\ Touches(log'[Len(log) + 1], k)
      BY <1>1, <2>1, <2>2
    <3>2. QED  BY <3>1
  <2>3. CASE \E n \in w.seq + 1 .. Len(log) : Touches(log[n], k)
    <3>1. PICK n \in w.seq + 1 .. Len(log) : Touches(log[n], k)
      BY <2>3
    <3>2. n \in 1 .. Len(log) /\ n \in w.seq + 1 .. Len(log')
      BY <1>1, <2>1
    <3>3. Touches(log'[n], k)
      BY <1>1, <3>1, <3>2
    <3>4. QED  BY <3>2, <3>3
  <2>4. CASE w.cache[k] = trees[k] /\ ~ Touches(ch, k)
    BY <2>1, <2>4
  <2>5. QED  BY <1>3, <2>2, <2>3, <2>4 DEF Cached
<1>4. Cached(w, trees', log')
  BY <1>3 DEF Cached
<1>5. Wanted(w, trees', removed', log')
  BY <1>1, <1>2 DEF Wanted
<1>6. QED  BY <1>4, <1>5

LEMMA CachedPlanned ==
    ASSUME Types, NEW w, w.pc = "fetch", WorkTyped(w, Len(log)), Cached(w, trees, log)
    PROVE  Cached(PlanWork(w), trees, log) /\ Wanted(PlanWork(w), trees, removed, log)
<1>   DEFINE v == PlanWork(w)
<1>1. v.pc = "plan" /\ v.seq = To(w) /\ v.cache = Kept(w, To(w))
  BY DEF PlanWork
<1>2. w.seq \in 0 .. Len(log) /\ To(w) \in 0 .. Len(log) /\ w.seq <= To(w) /\ Len(log) \in Nat
  BY ToTyped DEF WorkTyped
<1>3. /\ DOMAIN v.cache = {j \in DOMAIN w.cache : \A n \in w.seq + 1 .. To(w) : ~ Touches(log[n], j)}
      /\ \A k \in DOMAIN v.cache : v.cache[k] = w.cache[k]
  BY <1>1 DEF Kept
<1>   HIDE DEF v
<1>4. DOMAIN v.cache \subseteq Keys
  BY <1>3 DEF Cached, Caching
<1>5. ASSUME NEW k \in DOMAIN v.cache
      PROVE  IsTree(v.cache[k]) /\ (v.cache[k] = trees[k] \/ \E n \in v.seq + 1 .. Len(log) : Touches(log[n], k))
  <2>1. k \in DOMAIN w.cache /\ v.cache[k] = w.cache[k] /\ \A n \in w.seq + 1 .. To(w) : ~ Touches(log[n], k)
    BY <1>3
  <2>2. IsTree(w.cache[k]) /\ (w.cache[k] = trees[k] \/ \E n \in w.seq + 1 .. Len(log) : Touches(log[n], k))
    BY <2>1 DEF Cached, Caching
  <2>3. CASE w.cache[k] = trees[k]
    BY <2>1, <2>2, <2>3
  <2>4. CASE \E n \in w.seq + 1 .. Len(log) : Touches(log[n], k)
    <3>1. PICK n \in w.seq + 1 .. Len(log) : Touches(log[n], k)
      BY <2>4
    <3>2. n \in To(w) + 1 .. Len(log)
      BY <1>2, <2>1, <3>1
    <3>3. QED  BY <1>1, <2>1, <2>2, <3>1, <3>2
  <2>5. QED  BY <2>2, <2>3, <2>4
<1>6. QED  BY <1>1, <1>4, <1>5 DEF Cached, Wanted, v

LEMMA CachedBegun ==
    ASSUME Types, NEW w, w.pc = "plan", w.kind # "purge", WorkTyped(w, Len(log)), Cached(w, trees, log)
    PROVE  Cached(BatchWork(w), trees, log) /\ Wanted(BatchWork(w), trees, removed, log)
<1>   DEFINE v == BatchWork(w)
<1>1. /\ v.pc = "write" /\ v.kind = w.kind /\ v.seq = w.seq /\ v.cache = CacheOf(w)
      /\ v.next = NextOf(w) /\ v.state = w.state
  BY DEF BatchWork
<1>2. /\ DOMAIN v.cache = DOMAIN w.cache \cup {j \in DOMAIN w.state : j[1] \notin removed}
      /\ \A k \in DOMAIN v.cache : v.cache[k] = IF k \in DOMAIN w.cache THEN w.cache[k] ELSE trees[k]
  BY <1>1 DEF CacheOf
<1>   HIDE DEF v
<1>3. DOMAIN v.cache \subseteq Keys
  BY <1>2 DEF Cached, Caching, WorkTyped, IsState
<1>4. \A k \in Keys : IsTree(trees[k])
  BY DEF Types, StoreTyped
<1>5. ASSUME NEW k \in DOMAIN v.cache
      PROVE  IsTree(v.cache[k]) /\ (v.cache[k] = trees[k] \/ \E n \in v.seq + 1 .. Len(log) : Touches(log[n], k))
  <2>1. CASE k \in DOMAIN w.cache
    BY <1>1, <1>2, <2>1 DEF Cached, Caching
  <2>2. CASE k \notin DOMAIN w.cache
    BY <1>2, <1>3, <1>4, <2>2
  <2>3. QED  BY <2>1, <2>2
<1>6. Cached(v, trees, log)
  BY <1>3, <1>5 DEF Cached
<1>7. Wanted(v, trees, removed, log)
  BY <1>1, NextOK DEF Wanted
<1>8. QED  BY <1>6, <1>7 DEF v

(* An operation that goes on as it was keeps what it has read.              *)
LEMMA CachedSame ==
    ASSUME NEW w, NEW v, v.pc = w.pc, v.kind = w.kind, v.seq = w.seq, v.state = w.state,
           w.pc = "write" => v.next = w.next, Caching(w) => v.cache = w.cache,
           NEW ts, NEW gone, NEW lg, Cached(w, ts, lg), Wanted(w, ts, gone, lg)
    PROVE  Cached(v, ts, lg) /\ Wanted(v, ts, gone, lg)
<1>1. Cached(v, ts, lg)
  BY DEF Cached, Caching
<1>2. Wanted(v, ts, gone, lg)
  BY DEF Wanted
<1>3. QED  BY <1>1, <1>2

LEMMA CachesKept ==
    ASSUME GraphInv, NEW p \in Procs, trees' = trees, removed' = removed, log' = log,
           Cached(work'[p], trees, log) /\ Wanted(work'[p], trees, removed, log), \A q \in Procs \ {p} : work'[q] = work[q]
    PROVE  Caches' /\ Wants'
BY DEF GraphInv, Caches, Wants

LEMMA CachesStep ==
    ASSUME GraphInv, [Next]_vars
    PROVE  Caches' /\ Wants'
<1>1. Types
  BY GraphTypes
<1>2. \A p \in Procs : /\ WorkTyped(work[p], Len(log)) /\ Batch(work[p], graph)
                       /\ Cached(work[p], trees, log) /\ Wanted(work[p], trees, removed, log)
  BY <1>1 DEF GraphInv, Batches, Caches, Wants, Types
<1>3. CASE StoreStep
  <2>1. work' = work
    BY <1>3, StoreFrame
  <2>2. CASE log' = log /\ trees' = trees /\ removed' = removed
    BY <1>2, <2>1, <2>2 DEF Caches, Wants
  <2>3. CASE \E ch : log' = Append(log, ch) /\ \A k \in Keys : trees'[k] = trees[k] \/ Touches(ch, k)
    BY <1>1, <1>2, <2>1, <2>3, CachedLater DEF Caches, Wants
  <2>4. QED  BY <1>1, <1>3, <2>2, <2>3, Logged
<1>4. CASE Lapse \/ UNCHANGED vars
  BY <1>2, <1>4 DEF Lapse, vars, Caches, Wants
<1>5. ASSUME NEW p \in Procs, End(p), UNCHANGED <<trees, removed, log>> PROVE Caches' /\ Wants'
  BY <1>1, <1>5, EndTyped, CachedIdle, CachesKept
<1>6. ASSUME NEW p \in Procs, NEW kind \in Does[p], Acquire(p, kind) PROVE Caches' /\ Wants'
  <2>   DEFINE x == [pc |-> "fetch", kind |-> kind, seq |-> cursor.seq, state |-> cursor.trees,
                     first |-> TRUE, clean |-> TRUE, prev |-> NoPlan, cache |-> NoPlan]
  <2>1. work' = [work EXCEPT ![p] = x] /\ UNCHANGED <<trees, removed, log>>
    BY <1>6 DEF Acquire
  <2>2. Cached(x, trees, log) /\ Wanted(x, trees, removed, log)
    BY WipeCalled DEF Cached, Wanted
  <2>   HIDE DEF x
  <2>3. QED  BY <1>1, <2>1, <2>2, WorkSet, CachesKept
<1>7. ASSUME NEW p \in Procs, Fetch(p) PROVE Caches' /\ Wants'
  <2>1. UNCHANGED <<trees, removed, log>> /\ work[p].pc = "fetch"
    BY <1>7, FetchIs
  <2>2. CASE End(p)
    BY <1>5, <2>1, <2>2
  <2>3. CASE work' = [work EXCEPT ![p] = PurgeWork]
    <3>1. Cached(PurgeWork, trees, log) /\ Wanted(PurgeWork, trees, removed, log)
      BY DEF Cached, Caching, Wanted, PurgeWork
    <3>2. QED  BY <1>1, <2>1, <2>3, <3>1, WorkSet, CachesKept
  <2>4. CASE work' = [work EXCEPT ![p] = PlanWork(work[p])]
    <3>1. Cached(PlanWork(work[p]), trees, log) /\ Wanted(PlanWork(work[p]), trees, removed, log)
      BY <1>1, <1>2, <2>1, CachedPlanned
    <3>2. QED  BY <1>1, <2>1, <2>4, <3>1, WorkSet, CachesKept
  <2>5. QED  BY <1>7, <2>2, <2>3, <2>4, FetchIs
<1>8. ASSUME NEW p \in Procs, Plan(p) PROVE Caches' /\ Wants'
  <2>1. UNCHANGED <<trees, removed, log>> /\ work[p].pc = "plan" /\ work[p].kind # "purge"
    BY <1>2, <1>8, PlanIs DEF Batch
  <2>2. CASE End(p)
    BY <1>5, <2>1, <2>2
  <2>3. CASE work' = [work EXCEPT ![p] = BatchWork(work[p])]
    <3>1. Cached(BatchWork(work[p]), trees, log) /\ Wanted(BatchWork(work[p]), trees, removed, log)
      BY <1>1, <1>2, <2>1, CachedBegun
    <3>2. QED  BY <1>1, <2>1, <2>3, <3>1, WorkSet, CachesKept
  <2>4. QED  BY <1>8, <2>2, <2>3, PlanIs
<1>9. ASSUME NEW p \in Procs, Write(p) PROVE Caches' /\ Wants'
  <2>1. UNCHANGED <<trees, removed, log>>
    BY <1>1, <1>9, WriteIs
  <2>2. Cached(work'[p], trees, log) /\ Wanted(work'[p], trees, removed, log)
    <3>1. PICK left : work'[p] = [work[p] EXCEPT !.ops = left]
      BY <1>1, <1>9, WriteIs
    <3>2. work[p].pc = "write"
      BY <1>1, <1>9, WriteIs
    <3>3. /\ work'[p].pc = work[p].pc /\ work'[p].kind = work[p].kind /\ work'[p].seq = work[p].seq
          /\ work'[p].state = work[p].state /\ work'[p].next = work[p].next
          /\ Caching(work[p]) => work'[p].cache = work[p].cache
      BY <1>2, <3>1, <3>2, CallDone
    <3>4. QED  BY <1>2, <3>3, CachedSame
  <2>3. ASSUME NEW q \in Procs, q # p PROVE Cached(work'[q], trees, log) /\ Wanted(work'[q], trees, removed, log)
    <3>1. work'[q] = IF work[q].pc # "idle" THEN [work[q] EXCEPT !.clean = FALSE] ELSE work[q]
      BY <1>1, <1>9, <2>3, WriteIs
    <3>2. CASE work[q].pc # "idle"
      <4>1. work'[q] = [work[q] EXCEPT !.clean = FALSE]
        BY <3>1, <3>2
      <4>2. /\ work'[q].pc = work[q].pc /\ work'[q].kind = work[q].kind /\ work'[q].seq = work[q].seq
            /\ work'[q].state = work[q].state
            /\ work[q].pc = "write" => work'[q].next = work[q].next
            /\ Caching(work[q]) => work'[q].cache = work[q].cache
        BY <1>2, <3>2, <4>1, Uncleaned
      <4>3. QED  BY <1>2, <4>2, CachedSame
    <3>3. CASE work[q].pc = "idle"
      BY <1>2, <3>1, <3>3
    <3>4. QED  BY <3>2, <3>3
  <2>4. QED  BY <2>1, <2>2, <2>3 DEF Caches, Wants
<1>10. ASSUME NEW p \in Procs, Save(p) PROVE Caches' /\ Wants'
  <2>1. UNCHANGED <<trees, removed, log>> /\ work[p].pc = "write" /\ work[p].kind # "purge"
    BY <1>10, SaveIs
  <2>2. CASE End(p)
    BY <1>5, <2>1, <2>2
  <2>3. CASE work' = [work EXCEPT ![p] = FetchWork(work[p])]
    <3>1. Cached(FetchWork(work[p]), trees, log) /\ Wanted(FetchWork(work[p]), trees, removed, log)
      BY <1>2, <2>1 DEF Cached, Caching, Wanted, FetchWork
    <3>2. QED  BY <1>1, <2>1, <2>3, <3>1, WorkSet, CachesKept
  <2>4. QED  BY <1>10, <2>2, <2>3, SaveIs
<1>11. ASSUME NEW p \in Procs, Repaired(p) \/ Fail(p) \/ Stop(p) PROVE Caches' /\ Wants'
  BY <1>5, <1>11 DEF Repaired, Fail, Stop
<1>12. ASSUME NEW p \in Procs, Purged(p) PROVE Caches' /\ Wants'
  <2>1. work' = [work EXCEPT ![p] = Idle] /\ UNCHANGED <<trees, removed, log>>
    BY <1>12 DEF Purged
  <2>2. QED  BY <1>1, <2>1, CachedIdle, WorkSet, CachesKept
<1>13. QED  BY <1>3, <1>4, <1>6, <1>7, <1>8, <1>9, <1>10, <1>11, <1>12, StepKinds

-----------------------------------------------------------------------------
(* What the holder of the lease knows of the cursor.                        *)
LEMMA LeasedEnd ==
    ASSUME GraphInv, NEW p \in Procs, End(p), cursor' = cursor, lease # p /\ spoiled => spoiled'
    PROVE  Leasing'
<1>1. Types
  BY GraphTypes
<1>2. SUFFICES ASSUME NEW q \in Procs, lease' = q PROVE Leased(work'[q], cursor', spoiled')
  BY DEF Leasing
<1>3. lease = q /\ q # p
  BY <1>1, <1>2, EndTyped, CodeIndexAssumption
<1>4. work'[q] = work[q]
  BY <1>1, <1>3, EndTyped
<1>5. Leased(work[q], cursor, spoiled)
  BY <1>3 DEF GraphInv, Leasing
<1>6. spoiled => spoiled'
  BY <1>3
<1>7. Leased(work[q], cursor, spoiled')
  BY <1>5, <1>6 DEF Leased
<1>8. QED  BY <1>4, <1>7

(* The operation goes on; if it holds the lease, it knows what it must.     *)
LEMMA LeasedGo ==
    ASSUME GraphInv, NEW p \in Procs, \A q \in Procs \ {p} : work'[q] = work[q], lease' = lease, cursor' = cursor,
           spoiled => spoiled', Leased(work[p], cursor, spoiled) => Leased(work'[p], cursor, spoiled')
    PROVE  Leasing'
<1>1. SUFFICES ASSUME NEW q \in Procs, lease' = q PROVE Leased(work'[q], cursor', spoiled')
  BY DEF Leasing
<1>2. Leased(work[q], cursor, spoiled)
  BY <1>1 DEF GraphInv, Leasing
<1>3. CASE q = p
  BY <1>2, <1>3
<1>4. CASE q # p
  <2>1. Leased(work[q], cursor, spoiled')
    BY <1>2 DEF Leased
  <2>2. QED  BY <1>4, <2>1
<1>5. QED  BY <1>3, <1>4

LEMMA LeasedFetched ==
    ASSUME Types, NEW w, w.pc = "fetch", w.kind # "purge", WorkTyped(w, Len(log)), CursorTyped(cursor, Len(log)),
           ~ (w.kind = "turn" /\ w.seq = Len(log)), ~ (w.kind = "check" /\ w.seq < Len(log)),
           Leased(w, cursor, spoiled)
    PROVE  Leased(PlanWork(w), cursor, spoiled)
<1>   DEFINE v == PlanWork(w)
<1>1. /\ v.pc = "plan" /\ v.kind = w.kind /\ v.clean = w.clean /\ v.seq = To(w)
      /\ v.state = Replayed(w.state, w.seq, To(w))
  BY DEF PlanWork
<1>   HIDE DEF v
<1>2. w.seq = cursor.seq /\ w.state = cursor.trees /\ (~ spoiled => w.clean)
  BY DEF Leased
<1>3. w.seq \in 0 .. Len(log) /\ To(w) \in 0 .. Len(log) /\ w.seq <= To(w) /\ Len(log) \in Nat
  BY ToTyped DEF WorkTyped
<1>4. ASSUME w.kind = "check" PROVE v.seq = cursor.seq /\ v.state = cursor.trees
  <2>1. To(w) = w.seq
    BY <1>3, <1>4 DEF To
  <2>2. QED  BY <1>1, <1>2, <1>3, <2>1, ReplayedNone
<1>5. ASSUME w.kind = "turn" PROVE cursor.seq < v.seq
  <2>1. w.seq < To(w)
    BY <1>3, <1>5, CodeIndexAssumption DEF To
  <2>2. QED  BY <1>1, <1>2, <2>1
<1>6. cursor.seq <= v.seq
  BY <1>1, <1>2, <1>3
<1>7. QED  BY <1>1, <1>2, <1>4, <1>5, <1>6 DEF Leased, v

LEMMA LeasedBegun ==
    ASSUME NEW w, w.pc = "plan", NEW cur, NEW a, NEW b, a => b, Leased(w, cur, a)
    PROVE  Leased(BatchWork(w), cur, b)
<1>   DEFINE v == BatchWork(w)
<1>1. v.pc = "write" /\ v.kind = w.kind /\ v.seq = w.seq /\ v.state = w.state /\ (w.clean => v.clean)
  BY DEF BatchWork
<1>   HIDE DEF v
<1>2. QED  BY <1>1 DEF Leased, v

LEMMA LeasedSaved ==
    ASSUME NEW w, w.pc = "write", NEW b, ~ b => w.clean
    PROVE  Leased(FetchWork(w), [seq |-> w.seq, trees |-> w.state], b)
<1>   DEFINE v == FetchWork(w)
<1>1. v.pc = "fetch" /\ v.kind = "turn" /\ v.seq = w.seq /\ v.state = w.state /\ v.clean = w.clean
  BY DEF FetchWork
<1>   HIDE DEF v
<1>2. QED  BY <1>1 DEF Leased, v

LEMMA SettledSpoils ==
    ASSUME NEW p, Settled(p)
    PROVE  /\ lease # p => spoiled' /\ drift'
           /\ ~ spoiled' \/ ~ drift' => work[p].clean /\ lease = p
           /\ owed' = {}
           /\ spoiled' = (~ (work[p].clean /\ lease = p) \/ (spoiled /\ work[p].kind \notin {"rebuild", "purge"}))
BY DEF Settled

LEMMA InterruptedSpoils ==
    ASSUME NEW p, Interrupted(p)
    PROVE  /\ spoiled => spoiled'
           /\ drift' = (drift \/ Aside(work[p]))
BY DEF Interrupted, CutOff, Aside

LEMMA LeasingStep ==
    ASSUME GraphInv, [Next]_vars
    PROVE  Leasing'
<1>1. Types
  BY GraphTypes
<1>2. \A p \in Procs : WorkTyped(work[p], Len(log)) /\ Batch(work[p], graph)
  BY <1>1 DEF GraphInv, Batches, Types
<1>3. CASE StoreStep
  BY <1>3, StoreFrame DEF GraphInv, Leasing
<1>4. CASE Lapse
  <2>1. lease' = None
    BY <1>4 DEF Lapse
  <2>2. QED  BY <2>1, CodeIndexAssumption DEF Leasing
<1>5. CASE UNCHANGED vars
  BY <1>5 DEF GraphInv, vars, Leasing
<1>6. ASSUME NEW p \in Procs, NEW kind \in Does[p], Acquire(p, kind) PROVE Leasing'
  <2>   DEFINE x == [pc |-> "fetch", kind |-> kind, seq |-> cursor.seq, state |-> cursor.trees,
                     first |-> TRUE, clean |-> TRUE, prev |-> NoPlan, cache |-> NoPlan]
  <2>1. work' = [work EXCEPT ![p] = x] /\ lease' = p /\ cursor' = cursor
    BY <1>6 DEF Acquire
  <2>2. Leased(x, cursor, spoiled')
    BY DEF Leased
  <2>   HIDE DEF x
  <2>3. work'[p] = x
    BY <1>1, <2>1, WorkSet
  <2>4. QED  BY <2>1, <2>2, <2>3 DEF Leasing
<1>7. ASSUME NEW p \in Procs, Fetch(p) PROVE Leasing'
  <2>1. UNCHANGED <<cursor, spoiled>> /\ work[p].pc = "fetch"
    BY <1>7, FetchIs
  <2>2. CASE End(p)
    BY <2>1, <2>2, LeasedEnd
  <2>3. CASE work' = [work EXCEPT ![p] = PurgeWork] /\ lease' = lease
    <3>1. Leased(PurgeWork, cursor, spoiled)
      BY DEF Leased, PurgeWork
    <3>2. QED  BY <1>1, <2>1, <2>3, <3>1, WorkSet, LeasedGo
  <2>4. CASE /\ work[p].kind # "purge" /\ work' = [work EXCEPT ![p] = PlanWork(work[p])] /\ lease' = lease
             /\ ~ (work[p].kind = "turn" /\ work[p].seq = Len(log)) /\ ~ (work[p].kind = "check" /\ work[p].seq < Len(log))
    <3>1. CursorTyped(cursor, Len(log))
      BY <1>1 DEF Types
    <3>2. Leased(work[p], cursor, spoiled) => Leased(PlanWork(work[p]), cursor, spoiled)
      BY <1>1, <1>2, <2>1, <2>4, <3>1, LeasedFetched
    <3>3. work'[p] = PlanWork(work[p]) /\ \A q \in Procs \ {p} : work'[q] = work[q]
      BY <1>1, <2>4, WorkSet
    <3>4. QED  BY <2>1, <2>4, <3>2, <3>3, LeasedGo
  <2>5. QED  BY <1>7, <2>2, <2>3, <2>4, FetchIs
<1>8. ASSUME NEW p \in Procs, Plan(p) PROVE Leasing'
  <2>1. cursor' = cursor /\ work[p].pc = "plan" /\ (spoiled => spoiled')
    BY <1>8, PlanIs
  <2>2. CASE End(p)
    BY <2>1, <2>2, LeasedEnd
  <2>3. CASE work' = [work EXCEPT ![p] = BatchWork(work[p])] /\ lease' = lease
    <3>1. Leased(work[p], cursor, spoiled) => Leased(BatchWork(work[p]), cursor, spoiled')
      BY <2>1, LeasedBegun
    <3>2. work'[p] = BatchWork(work[p]) /\ \A q \in Procs \ {p} : work'[q] = work[q]
      BY <1>1, <2>3, WorkSet
    <3>3. QED  BY <2>1, <2>3, <3>1, <3>2, LeasedGo
  <2>4. QED  BY <1>8, <2>2, <2>3, PlanIs
<1>9. ASSUME NEW p \in Procs, Write(p) PROVE Leasing'
  <2>1. SUFFICES ASSUME NEW q \in Procs, lease' = q PROVE Leased(work'[q], cursor', spoiled')
    BY DEF Leasing
  <2>2. lease = q /\ cursor' = cursor /\ spoiled' = (spoiled \/ lease # p)
    BY <1>1, <1>9, <2>1, WriteIs
  <2>3. Leased(work[q], cursor, spoiled)
    BY <2>2 DEF GraphInv, Leasing
  <2>4. CASE q = p
    <3>1. PICK left : work'[p] = [work[p] EXCEPT !.ops = left]
      BY <1>1, <1>9, WriteIs
    <3>2. work[p].pc = "write"
      BY <1>1, <1>9, WriteIs
    <3>3. /\ work'[p].pc = work[p].pc /\ work'[p].kind = work[p].kind /\ work'[p].seq = work[p].seq
          /\ work'[p].state = work[p].state /\ work'[p].clean = work[p].clean
      BY <1>2, <3>1, <3>2, CallDone
    <3>4. spoiled' = spoiled
      BY <1>1, <2>2, <2>4 DEF Types
    <3>5. QED  BY <2>2, <2>3, <2>4, <3>3, <3>4 DEF Leased
  <2>5. CASE q # p
    <3>1. spoiled'
      BY <2>2, <2>5
    <3>2. work'[q] = [work[q] EXCEPT !.clean = FALSE] \/ (work[q].pc = "idle" /\ work'[q] = work[q])
      BY <1>1, <1>9, <2>5, WriteIs
    <3>3. CASE work[q].pc = "idle"
      <4>1. work'[q] = work[q]
        BY <1>1, <1>9, <2>5, <3>3, WriteIs
      <4>2. QED  BY <3>3, <4>1 DEF Leased
    <3>4. CASE work[q].pc # "idle"
      <4>1. work'[q] = [work[q] EXCEPT !.clean = FALSE]
        BY <3>2, <3>4
      <4>2. work'[q].pc = work[q].pc /\ work'[q].kind = work[q].kind /\ work'[q].seq = work[q].seq /\ work'[q].state = work[q].state
        BY <1>2, <3>4, <4>1, Uncleaned
      <4>3. QED  BY <2>2, <2>3, <3>1, <4>2 DEF Leased
    <3>5. QED  BY <3>3, <3>4
  <2>6. QED  BY <2>4, <2>5
<1>10. ASSUME NEW p \in Procs, Save(p) PROVE Leasing'
  <2>1. /\ lease = p /\ work[p].pc = "write" /\ Settled(p)
        /\ cursor' = [seq |-> work[p].seq, trees |-> work[p].state]
    BY <1>10, SaveIs
  <2>2. CASE End(p)
    <3>1. lease' = None
      BY <2>1, <2>2 DEF End
    <3>2. QED  BY <3>1, CodeIndexAssumption DEF Leasing
  <2>3. CASE work' = [work EXCEPT ![p] = FetchWork(work[p])] /\ lease' = lease
    <3>1. Leased(FetchWork(work[p]), cursor', spoiled')
      BY <2>1, SettledSpoils, LeasedSaved
    <3>2. work'[p] = FetchWork(work[p])
      BY <1>1, <2>3, WorkSet
    <3>3. QED  BY <2>1, <2>3, <3>1, <3>2 DEF Leasing
  <2>4. QED  BY <1>10, <2>2, <2>3, SaveIs
<1>11. ASSUME NEW p \in Procs, Repaired(p) PROVE Leasing'
  <2>1. End(p) /\ Settled(p) /\ cursor' = cursor
    BY <1>11 DEF Repaired
  <2>2. QED  BY <2>1, SettledSpoils, LeasedEnd
<1>12. ASSUME NEW p \in Procs, Fail(p) \/ Stop(p) PROVE Leasing'
  <2>1. End(p) /\ Interrupted(p) /\ cursor' = cursor
    BY <1>12 DEF Fail, Stop
  <2>2. QED  BY <2>1, InterruptedSpoils, LeasedEnd
<1>13. ASSUME NEW p \in Procs, Purged(p) PROVE Leasing'
  <2>1. lease' = None
    BY <1>13 DEF Purged
  <2>2. QED  BY <2>1, CodeIndexAssumption DEF Leasing
<1>14. QED  BY <1>3, <1>4, <1>5, <1>6, <1>7, <1>8, <1>9, <1>10, <1>11, <1>12, <1>13, StepKinds

-----------------------------------------------------------------------------
(* A graph at rest.                                                         *)
(* Nothing that others write aside is lost from view.                       *)
LEMMA RestsKept ==
    ASSUME GraphInv, NEW p \in Procs, \A q \in Procs \ {p} : work'[q] = work[q], Aside(work[p]) => Aside(work'[p]) \/ drift',
           UNCHANGED <<trees, removed, log, cursor, graph>>, drift => drift'
    PROVE  Rests'
<1>1. SUFFICES ASSUME ~ drift', cursor'.seq = Len(log')
               PROVE  Resting(graph', cursor', trees', removed') \/ \E q \in Procs : Aside(work'[q])
  BY DEF Rests
<1>2. Resting(graph, cursor, trees, removed) \/ \E q \in Procs : Aside(work[q])
  BY <1>1 DEF GraphInv, Rests
<1>3. CASE Resting(graph, cursor, trees, removed)
  BY <1>3
<1>4. CASE \E q \in Procs : Aside(work[q])
  <2>1. PICK q \in Procs : Aside(work[q])
    BY <1>4
  <2>2. Aside(work'[q])
    BY <1>1, <2>1
  <2>3. QED  BY <2>2
<1>5. QED  BY <1>2, <1>3, <1>4

(* A batch that compared with the graph as it was and has made all its      *)
(* calls has written its selection.                                         *)
LEMMA Done ==
    ASSUME GraphInv, NEW p \in Procs, work[p].pc = "write", work[p].ops = {}, work[p].clean
    PROVE  PlanFromGraph(graph) = work[p].next
<1>1. Batch(work[p], graph) /\ IsGraph(graph)
  BY DEF GraphInv, Batches
<1>2. QED  BY <1>1, WrittenDone DEF Batch

LEMMA RestsSettled ==
    ASSUME GraphInv, NEW p \in Procs, work[p].pc = "write", work[p].ops = {}, work[p].kind # "purge", Settled(p),
           UNCHANGED <<trees, removed, log, graph>>, cursor'.seq = work[p].seq, cursor'.trees = work[p].state
    PROVE  Rests'
<1>1. SUFFICES ASSUME ~ drift', cursor'.seq = Len(log') PROVE Resting(graph', cursor', trees', removed')
  BY DEF Rests
<1>2. work[p].clean
  BY <1>1, SettledSpoils
<1>3. PlanFromGraph(graph) = work[p].next
  BY <1>2, Done
<1>4. Selected(work[p].next, work[p].state, trees, removed)
  BY <1>1 DEF GraphInv, Wants, Wanted
<1>5. QED  BY <1>3, <1>4 DEF Resting

LEMMA RestsStep ==
    ASSUME GraphInv, [Next]_vars
    PROVE  Rests'
<1>1. Types
  BY GraphTypes
<1>2. Len(log) \in Nat /\ cursor.seq \in 0 .. Len(log)
  BY <1>1 DEF Types, StoreTyped, CursorTyped
<1>3. CASE StoreStep
  <2>1. UNCHANGED <<cursor, graph, work, drift>>
    BY <1>3, StoreFrame
  <2>2. CASE log' = log /\ trees' = trees /\ removed' = removed
    BY <2>1, <2>2 DEF GraphInv, Rests
  <2>3. CASE \E ch : log' = Append(log, ch)
    <3>1. Len(log') = Len(log) + 1
      BY <1>1, <2>3, Longer
    <3>2. QED  BY <1>2, <2>1, <3>1 DEF Rests
  <2>4. QED  BY <1>1, <1>3, <2>2, <2>3, Logged
<1>4. CASE Lapse \/ UNCHANGED vars
  BY <1>4 DEF GraphInv, Lapse, vars, Rests
<1>5. ASSUME NEW p \in Procs, NEW kind \in Does[p], Acquire(p, kind) PROVE Rests'
  <2>1. \A q \in Procs \ {p} : work'[q] = work[q]
    BY <1>1, <1>5, WorkSet DEF Acquire
  <2>2. ~ Aside(work[p])
    BY <1>5 DEF Acquire, Active, Aside
  <2>3. UNCHANGED <<trees, removed, log, cursor, graph, drift>>
    BY <1>5 DEF Acquire
  <2>4. QED  BY <2>1, <2>2, <2>3, RestsKept
<1>6. ASSUME NEW p \in Procs, Fetch(p) \/ Plan(p) PROVE Rests'
  <2>1. UNCHANGED <<trees, removed, log, cursor, graph, drift>> /\ ~ Aside(work[p])
    BY <1>6, FetchIs, PlanIs DEF Aside
  <2>2. \A q \in Procs \ {p} : work'[q] = work[q]
    BY <1>1, <1>6, FetchIs, PlanIs, EndTyped, WorkSet
  <2>3. QED  BY <2>1, <2>2, RestsKept
<1>7. ASSUME NEW p \in Procs, Write(p) PROVE Rests'
  <2>1. SUFFICES ASSUME ~ drift', cursor'.seq = Len(log') PROVE \E q \in Procs : Aside(work'[q])
    BY DEF Rests
  <2>2. /\ work[p].pc = "write" /\ WorkTyped(work[p], Len(log))
        /\ cursor' = cursor /\ log' = log /\ drift' = (drift \/ lease # p)
    BY <1>1, <1>7, WriteIs
  <2>3. lease = p
    BY <2>1, <2>2
  <2>4. Leased(work[p], cursor, spoiled)
    BY <2>3 DEF GraphInv, Leasing
  <2>5. work[p].kind # "turn"
    BY <1>2, <2>1, <2>2, <2>4 DEF Leased, WorkTyped
  <2>6. PICK left : work'[p] = [work[p] EXCEPT !.ops = left]
    BY <1>1, <1>7, WriteIs
  <2>7. work'[p].pc = "write" /\ work'[p].kind = work[p].kind
    BY <2>2, <2>6, CallDone
  <2>8. QED  BY <2>5, <2>7 DEF Aside
<1>8. ASSUME NEW p \in Procs, Save(p) PROVE Rests'
  <2>1. /\ work[p].pc = "write" /\ work[p].ops = {} /\ work[p].kind # "purge" /\ Settled(p)
        /\ UNCHANGED <<trees, removed, log, graph>> /\ cursor' = [seq |-> work[p].seq, trees |-> work[p].state]
    BY <1>8, SaveIs
  <2>2. QED  BY <2>1, RestsSettled
<1>9. ASSUME NEW p \in Procs, Repaired(p) PROVE Rests'
  <2>1. /\ work[p].pc = "write" /\ work[p].ops = {} /\ work[p].kind = "check" /\ Settled(p)
        /\ UNCHANGED <<trees, removed, log, graph, cursor>>
    BY <1>9 DEF Repaired
  <2>2. CASE lease = p
    <3>1. Leased(work[p], cursor, spoiled)
      BY <2>2 DEF GraphInv, Leasing
    <3>2. QED  BY <2>1, <3>1, RestsSettled DEF Leased
  <2>3. CASE lease # p
    <3>1. drift'
      BY <2>1, <2>3, SettledSpoils
    <3>2. QED  BY <3>1 DEF Rests
  <2>4. QED  BY <2>2, <2>3
<1>10. ASSUME NEW p \in Procs, Fail(p) \/ Stop(p) PROVE Rests'
  <2>1. End(p) /\ Interrupted(p) /\ UNCHANGED <<trees, removed, log, graph, cursor>>
    BY <1>10 DEF Fail, Stop
  <2>2. drift' = (drift \/ Aside(work[p])) /\ \A q \in Procs \ {p} : work'[q] = work[q]
    BY <1>1, <2>1, InterruptedSpoils, EndTyped
  <2>3. QED  BY <2>1, <2>2, RestsKept
<1>11. ASSUME NEW p \in Procs, Purged(p) PROVE Rests'
  <2>1. /\ work[p].pc = "write" /\ work[p].ops = {} /\ work[p].kind = "purge" /\ Settled(p)
        /\ UNCHANGED <<trees, removed, log, graph>> /\ cursor' = NoCursor
    BY <1>11 DEF Purged
  <2>2. SUFFICES ASSUME ~ drift' PROVE Resting(graph', cursor', trees', removed')
    BY DEF Rests
  <2>3. PlanFromGraph(graph) = NoPlan
    <3>1. work[p].clean
      BY <2>1, <2>2, SettledSpoils
    <3>2. work[p].next = NoPlan
      BY <2>1 DEF GraphInv, Batches, Batch
    <3>3. QED  BY <2>1, <3>1, <3>2, Done
  <2>4. QED  BY <2>1, <2>3, NothingSelected DEF Resting, NoCursor
<1>12. QED  BY <1>3, <1>4, <1>5, <1>6, <1>7, <1>8, <1>9, <1>10, <1>11, StepKinds

LEMMA GraphInit ==
    ASSUME Init
    PROVE  GraphInv
<1>1. Types
  BY TypesInit
<1>2. work = [p \in Procs |-> Idle] /\ graph = NoPlan /\ cursor = NoCursor
  BY DEF Init
<1>3. IsGraph(graph)
  BY <1>2, WipeCalled
<1>4. Batches /\ Leasing /\ Caches /\ Wants
  BY <1>2, BatchIdle, CachedIdle DEF Batches, Leasing, Leased, Caches, Wants, Idle
<1>5. PlanFromGraph(graph) = NoPlan
  BY <1>2 DEF PlanFromGraph, NoPlan
<1>6. Rests
  BY <1>2, <1>5, NothingSelected DEF Rests, Resting, NoCursor
<1>7. QED  BY <1>1, <1>3, <1>4, <1>6, TypesIs DEF GraphInv

LEMMA GraphStep ==
    ASSUME GraphInv, [Next]_vars
    PROVE  GraphInv'
<1>1. Types
  BY GraphTypes
<1>2. Batches
  BY DEF GraphInv
<1>3. Types'
  BY <1>1, <1>2, TypesStep
<1>4. TypeOK' /\ \A p \in Procs : Shape(work'[p])
  <2>1. {drift', spoiled'} \subseteq BOOLEAN
    BY <1>3 DEF Types
  <2>2. QED  BY <1>3, <2>1 DEF Types, TypeOK, StoreTyped, CursorTyped, WorkTyped, Active
<1>5. QED  BY <1>4, BatchesStep, CachesStep, LeasingStep, RestsStep DEF GraphInv

THEOREM GraphInvariance == Spec => []GraphInv
<1>1. Init => GraphInv
  BY GraphInit
<1>2. GraphInv /\ [Next]_vars => GraphInv'
  BY GraphStep
<1>3. QED  BY <1>1, <1>2, PTL DEF Spec

(* Typed states, as the comment of TypeOK says.                             *)
THEOREM CodeIndexTypes == Spec => []TypeOK
<1>1. GraphInv => TypeOK
  BY DEF GraphInv
<1>2. QED  BY <1>1, GraphInvariance, PTL

(* What is dropped of an idle worktree is no loss.                          *)
LEMMA SolidKept ==
    ASSUME NEW plan, NEW I
    PROVE  Solid(DropIdleOverlays(plan, I)) = Solid(plan)
<1>   DEFINE kept == DropIdleOverlays(plan, I)
             solid == {m \in DOMAIN plan : m[1] # "wt" \/ plan[m].files # NoFiles}
<1>1. /\ DOMAIN kept = {m \in DOMAIN plan : ~ (m[1] = "wt" /\ plan[m].files = NoFiles /\ m[2] \in I)}
      /\ \A m \in DOMAIN kept : kept[m] = plan[m]
  BY DEF DropIdleOverlays
<1>   HIDE DEF kept
<1>2. {m \in DOMAIN kept : m[1] # "wt" \/ kept[m].files # NoFiles} = solid
  BY <1>1
<1>3. Solid(kept) = [l \in solid |-> kept[l]]
  BY <1>2 DEF Solid
<1>4. \A l \in solid : kept[l] = plan[l]
  BY <1>1
<1>5. Solid(plan) = [l \in solid |-> plan[l]]
  BY DEF Solid
<1>   HIDE DEF solid
<1>6. QED  BY <1>3, <1>4, <1>5 DEF kept

(* At rest the graph is a selection of the trees as they are.               *)
LEMMA RestingSelected ==
    ASSUME GraphInv, AtRest
    PROVE  Selected(PlanFromGraph(graph), cursor.trees, trees, removed)
<1>1. \A p \in Procs : ~ Aside(work[p])
  BY DEF AtRest, Active, Aside
<1>2. QED  BY <1>1 DEF GraphInv, Rests, Resting, AtRest

(* A graph whose cursor is at the end of the log holds the selection of     *)
(* the trees as they are (GraphIsSelection).                                *)
THEOREM RestingGraph == Spec => []GraphIsSelection
<1>1. ASSUME GraphInv PROVE GraphIsSelection
  <2>1. SUFFICES ASSUME AtRest PROVE Solid(PlanFromGraph(graph)) = Solid(Want)
    BY DEF GraphIsSelection
  <2>2. Selected(PlanFromGraph(graph), cursor.trees, trees, removed)
    BY <1>1, <2>1, RestingSelected
  <2>3. PICK I : PlanFromGraph(graph) = DropIdleOverlays(Select(ReadingOf(cursor.trees, trees, removed)), I)
    BY <2>2 DEF Selected
  <2>4. Want = Select(ReadingOf(cursor.trees, trees, removed))
    BY DEF Want, WantOf, Reading, ReadingOf
  <2>5. QED  BY <2>3, <2>4, SolidKept
<1>2. QED  BY <1>1, GraphInvariance, PTL

(* Only a purge moves the cursor back (CursorForward): a turn or a rebuild  *)
(* that saves holds the lease, and has read the log further than the        *)
(* cursor.                                                                  *)
THEOREM CursorGoesForward == Spec => CursorForward
<1>   DEFINE Forward == cursor'.seq < cursor.seq => \E p \in Procs : Active(p) /\ work[p].kind = "purge" /\ work'[p] = Idle
<1>1. ASSUME GraphInv, [Next]_vars PROVE Forward
  <2>1. Types
    BY <1>1, GraphTypes
  <2>2. Len(log) \in Nat /\ cursor.seq \in 0 .. Len(log) /\ ~ (cursor.seq < cursor.seq)
    BY <2>1 DEF Types, StoreTyped, CursorTyped
  <2>3. CASE cursor' = cursor
    BY <2>2, <2>3
  <2>4. ASSUME NEW p \in Procs, Save(p) PROVE ~ (cursor'.seq < cursor.seq)
    <3>1. /\ work[p].pc = "write" /\ work[p].kind \in {"turn", "rebuild"} /\ lease = p
          /\ cursor'.seq = work[p].seq
      BY <2>4, SaveIs
    <3>2. Leased(work[p], cursor, spoiled) /\ WorkTyped(work[p], Len(log))
      BY <1>1, <2>1, <3>1 DEF GraphInv, Leasing, Types
    <3>3. cursor.seq <= work[p].seq /\ work[p].seq \in Nat
      BY <2>2, <3>1, <3>2 DEF Leased, WorkTyped
    <3>4. QED  BY <2>2, <3>1, <3>3
  <2>5. ASSUME NEW p \in Procs, Purged(p) PROVE Forward
    <3>1. Active(p) /\ work[p].kind = "purge" /\ work'[p] = Idle
      BY <2>1, <2>5, WorkSet DEF Purged, Active
    <3>2. QED  BY <3>1
  <2>6. CASE StoreStep \/ Lapse \/ UNCHANGED vars
    BY <2>3, <2>6, StoreFrame DEF Lapse, vars
  <2>7. ASSUME NEW p \in Procs,
               (\E kind \in Does[p] : Acquire(p, kind)) \/ Fetch(p) \/ Plan(p) \/ Write(p) \/ Repaired(p) \/ Fail(p) \/ Stop(p)
        PROVE  cursor' = cursor
    BY <2>1, <2>7, FetchIs, PlanIs, WriteIs DEF Acquire, Repaired, Fail, Stop
  <2>8. QED  BY <1>1, <2>3, <2>4, <2>5, <2>6, <2>7, StepKinds
<1>2. QED  BY <1>1, GraphInvariance, PTL DEF Spec, CursorForward

-----------------------------------------------------------------------------
(* What hides a file.                                                       *)
LEMMA HiddenByIn ==
    ASSUME NEW plan, NEW l, NEW p
    PROVE  HiddenBy(plan, l, p) \subseteq DOMAIN plan /\ HiddenBy(plan, l, p) \cap DOMAIN plan = HiddenBy(plan, l, p)
BY DEF HiddenBy

(* Every layer is there before a file is hidden or put.                     *)
LEMMA LayersThere ==
    ASSUME IsGraph(graph), NEW v, Written(graph, v), <<"wipe">> \notin v.ops,
           NEW o \in First(v), Phase(o) \in {2, 3}
    PROVE  DOMAIN v.next \subseteq DOMAIN graph
<1>1. \A q \in v.ops : q = o \/ Phase(o) < Phase(q) \/ Phase(o) = Phase(q)
  BY DEF First, Before
<1>2. ASSUME NEW l PROVE <<"layer", l>> \notin v.ops
  <2>1. Phase(<<"layer", l>>) = 1
    BY Phases
  <2>2. ~ (<<"layer", l>> = o \/ Phase(o) < Phase(<<"layer", l>>) \/ Phase(o) = Phase(<<"layer", l>>))
    BY <2>1
  <2>3. QED  BY <1>1, <2>2
<1>3. QED  BY <1>2, WrittenIs

(* A call of a batch keeps the files that it has dealt with, or need not,   *)
(* hidden as they should be after it.                                       *)
LEMMA HiddenKept ==
    ASSUME IsGraph(graph), NEW v, Ordered(v), IsPlan(v.next), Written(graph, v),
           <<"wipe">> \notin v.ops => Bound(graph) /\ Hidden(graph, v),
           NEW o \in First(v), Possible(o),
           NEW w, w.next = v.next, w.ops = v.ops \ {o},
           NEW c, c = Called(v.next, o)
    PROVE  Bound(c) /\ Hidden(c, w)
<1>   DEFINE next == v.next
             Pending(x, l, p) == <<"hide", l, p>> \in x.ops \/ <<"put", l, p>> \in x.ops
             Right(g, l, p) == g[l].files[p].by \cap DOMAIN next = HiddenBy(next, l, p)
             Both(g, l, p) == l \in DOMAIN g /\ l \in DOMAIN next /\ p \in DOMAIN g[l].files /\ p \in DOMAIN next[l].files
<1>1. CASE o = <<"wipe">>
  <2>1. DOMAIN c = {}
    BY <1>1, WipeCalled
  <2>2. QED  BY <2>1 DEF Bound, Hidden
<1>2. CASE o # <<"wipe">>
  <2>1. <<"wipe">> \notin v.ops /\ Bound(graph) /\ Hidden(graph, v)
    BY <1>2, CallKinds
  <2>2. \A l, p : Both(graph, l, p) /\ ~ Pending(v, l, p) => Right(graph, l, p)
    BY <2>1 DEF Hidden
  <2>3. \A l \in DOMAIN graph : \A p \in DOMAIN graph[l].files : graph[l].files[p].by \subseteq DOMAIN graph
    BY <2>1 DEF Bound
  <2>   DEFINE Bounded == \A l \in DOMAIN c : \A p \in DOMAIN c[l].files : c[l].files[p].by \subseteq DOMAIN c
               Righted == \A l, p : Both(c, l, p) /\ ~ Pending(w, l, p) => Right(c, l, p)
  <2>4. SUFFICES Bounded /\ Righted
    BY DEF Bound, Hidden
  <2>5. CASE \E l \in DOMAIN v.next : o = <<"layer", l>>
    <3>1. PICK l \in DOMAIN v.next : o = <<"layer", l>>
      BY <2>5
    <3>2. /\ DOMAIN c = DOMAIN graph \cup {l}
          /\ c[l].files = FilesIn(graph, l)
          /\ \A m \in DOMAIN graph \ {l} : c[m] = graph[m]
      BY <3>1, LayerCalled
    <3>3. \A m \in DOMAIN c : \A p \in DOMAIN c[m].files : m \in DOMAIN graph /\ p \in DOMAIN graph[m].files /\ c[m].files[p] = graph[m].files[p]
      BY <3>2 DEF FilesIn, NoFiles
    <3>4. \A m, p : Pending(w, m, p) <=> Pending(v, m, p)
      BY <3>1
    <3>   HIDE DEF Pending
    <3>5. Bounded
      BY <2>3, <3>2, <3>3
    <3>6. Righted
      BY <2>2, <3>3, <3>4
    <3>7. QED  BY <3>5, <3>6
  <2>6. CASE \E l : o = <<"drop", l>> /\ l \notin DOMAIN v.next
    <3>1. PICK l : o = <<"drop", l>> /\ l \notin DOMAIN v.next
      BY <2>6
    <3>2. DropEffect(graph, l, c)
      BY <3>1, DropCalled
    <3>3. /\ DOMAIN c = DOMAIN graph \ {l}
          /\ \A m \in DOMAIN c : DOMAIN c[m].files = DOMAIN graph[m].files
          /\ \A m \in DOMAIN c : \A q \in DOMAIN c[m].files : c[m].files[q].by = graph[m].files[q].by \ {l}
      BY <3>2 DEF DropEffect
    <3>4. \A m, p : Pending(w, m, p) <=> Pending(v, m, p)
      BY <3>1
    <3>   HIDE DEF Pending
    <3>5. Bounded
      BY <2>3, <3>3
    <3>6. ASSUME NEW m, NEW p, Both(c, m, p), ~ Pending(w, m, p) PROVE Right(c, m, p)
      <4>1. Right(graph, m, p)
        BY <2>2, <3>3, <3>4, <3>6
      <4>2. c[m].files[p].by = graph[m].files[p].by \ {l}
        BY <3>3, <3>6
      <4>3. QED  BY <3>1, <4>1, <4>2
    <3>7. QED  BY <3>5, <3>6
  <2>7. CASE \E l \in DOMAIN graph : \E p \in DOMAIN graph[l].files : o = <<"hide", l, p>>
    <3>1. PICK l \in DOMAIN graph : \E p \in DOMAIN graph[l].files : o = <<"hide", l, p>>
      BY <2>7
    <3>2. PICK p \in DOMAIN graph[l].files : o = <<"hide", l, p>>
      BY <3>1
    <3>3. /\ DOMAIN c = DOMAIN graph
          /\ \A m \in DOMAIN graph : DOMAIN c[m].files = DOMAIN graph[m].files
          /\ \A m \in DOMAIN graph : \A q \in DOMAIN graph[m].files :
                IF m = l /\ q = p THEN c[m].files[q].by = HiddenBy(next, l, p) ELSE c[m].files[q] = graph[m].files[q]
      BY <3>2, HideCalled
    <3>4. DOMAIN next \subseteq DOMAIN graph
      BY <2>1, <3>2, LayersThere, Phases
    <3>5. \A m, q : m # l \/ q # p => (Pending(w, m, q) <=> Pending(v, m, q))
      BY <3>2
    <3>6. HiddenBy(next, l, p) \subseteq DOMAIN next /\ HiddenBy(next, l, p) \cap DOMAIN next = HiddenBy(next, l, p)
      BY HiddenByIn
    <3>   HIDE DEF Pending, next
    <3>7. Bounded
      BY <2>3, <3>3, <3>4, <3>6
    <3>8. ASSUME NEW m, NEW q, Both(c, m, q), ~ Pending(w, m, q) PROVE Right(c, m, q)
      <4>1. CASE m = l /\ q = p
        BY <3>3, <3>6, <4>1
      <4>2. CASE ~ (m = l /\ q = p)
        <5>1. c[m].files[q] = graph[m].files[q] /\ Both(graph, m, q)
          BY <3>3, <3>8, <4>2
        <5>2. QED  BY <2>2, <3>5, <3>8, <4>2, <5>1
      <4>3. QED  BY <4>1, <4>2
    <3>9. QED  BY <3>7, <3>8
  <2>8. CASE \E l \in DOMAIN v.next : \E p \in Removes(v.prev, v.next, l) : o = <<"remove", l, p>>
    <3>1. PICK l \in DOMAIN v.next : \E p \in Removes(v.prev, v.next, l) : o = <<"remove", l, p>>
      BY <2>8
    <3>2. PICK p \in Removes(v.prev, v.next, l) : o = <<"remove", l, p>>
      BY <3>1
    <3>3. /\ DOMAIN c = DOMAIN graph
          /\ \A m \in DOMAIN graph \ {l} : c[m] = graph[m]
          /\ l \in DOMAIN graph => /\ DOMAIN c[l].files = DOMAIN graph[l].files \ {p}
                                   /\ \A q \in DOMAIN c[l].files : c[l].files[q] = graph[l].files[q]
      BY <3>2, RemoveCalled
    <3>4. \A m \in DOMAIN c : \A q \in DOMAIN c[m].files : q \in DOMAIN graph[m].files /\ c[m].files[q] = graph[m].files[q]
      BY <3>3
    <3>5. \A m, q : Pending(w, m, q) <=> Pending(v, m, q)
      BY <3>2
    <3>   HIDE DEF Pending
    <3>6. Bounded
      BY <2>3, <3>3, <3>4
    <3>7. Righted
      BY <2>2, <3>3, <3>4, <3>5
    <3>8. QED  BY <3>6, <3>7
  <2>9. CASE \E l \in DOMAIN graph \cap DOMAIN v.next : \E p \in Puts(v.prev, v.next, l) : o = <<"put", l, p>>
    <3>1. PICK l \in DOMAIN graph \cap DOMAIN v.next : \E p \in Puts(v.prev, v.next, l) : o = <<"put", l, p>>
      BY <2>9
    <3>2. PICK p \in Puts(v.prev, v.next, l) : o = <<"put", l, p>>
      BY <3>1
    <3>3. p \in DOMAIN v.next[l].files
      BY <3>2 DEF Puts
    <3>4. /\ DOMAIN c = DOMAIN graph
          /\ \A m \in DOMAIN graph \ {l} : c[m] = graph[m]
          /\ DOMAIN c[l].files = DOMAIN graph[l].files \cup {p}
          /\ c[l].files[p].by = HiddenBy(next, l, p)
          /\ \A q \in DOMAIN graph[l].files \ {p} : c[l].files[q] = graph[l].files[q]
      BY <3>2, <3>3, PutCalled
    <3>5. DOMAIN next \subseteq DOMAIN graph
      BY <2>1, <3>2, LayersThere, Phases
    <3>6. \A m, q : m # l \/ q # p => (Pending(w, m, q) <=> Pending(v, m, q))
      BY <3>2
    <3>7. HiddenBy(next, l, p) \subseteq DOMAIN next /\ HiddenBy(next, l, p) \cap DOMAIN next = HiddenBy(next, l, p)
      BY HiddenByIn
    <3>   HIDE DEF Pending, next
    <3>8. ASSUME NEW m \in DOMAIN c, NEW q \in DOMAIN c[m].files, ~ (m = l /\ q = p)
          PROVE  q \in DOMAIN graph[m].files /\ c[m].files[q] = graph[m].files[q]
      BY <3>4, <3>8
    <3>9. Bounded
      BY <2>3, <3>4, <3>5, <3>7, <3>8
    <3>10. ASSUME NEW m, NEW q, Both(c, m, q), ~ Pending(w, m, q) PROVE Right(c, m, q)
      <4>1. CASE m = l /\ q = p
        BY <3>4, <3>7, <4>1
      <4>2. CASE ~ (m = l /\ q = p)
        <5>1. c[m].files[q] = graph[m].files[q] /\ Both(graph, m, q)
          BY <3>4, <3>8, <3>10, <4>2
        <5>2. QED  BY <2>2, <3>6, <3>10, <4>2, <5>1
      <4>3. QED  BY <4>1, <4>2
    <3>11. QED  BY <3>9, <3>10
  <2>10. QED  BY <1>2, <2>5, <2>6, <2>7, <2>8, <2>9, CallKinds
<1>3. QED  BY <1>1, <1>2

(* A batch that has made all its calls has every file hidden by exactly the *)
(* layers above.                                                            *)
LEMMA ExactDone ==
    ASSUME NEW g, IsGraph(g), NEW w, w.ops = {}, Bound(g), Hidden(g, w), PlanFromGraph(g) = w.next
    PROVE  Exact(g)
<1>1. SUFFICES ASSUME NEW l \in DOMAIN g, NEW p \in DOMAIN g[l].files
               PROVE  g[l].files[p].by = HiddenBy(w.next, l, p)
  BY DEF Exact
<1>2. DOMAIN w.next = DOMAIN g /\ p \in DOMAIN w.next[l].files
  BY GraphPlan
<1>3. g[l].files[p].by \cap DOMAIN w.next = HiddenBy(w.next, l, p)
  BY <1>2 DEF Hidden
<1>4. g[l].files[p].by \subseteq DOMAIN g
  BY DEF Bound
<1>5. QED  BY <1>2, <1>3, <1>4

(* Where nothing above a file differs between two plans, the layers that    *)
(* both have hide it in both or in neither.                                 *)
LEMMA NotAffected ==
    ASSUME NEW prev, NEW next, NEW l \in DOMAIN next, NEW p \in Paths, <<l, p>> \notin Affected(prev, next),
           NEW h \in DOMAIN next
    PROVE  h \in HiddenBy(prev, l, p) <=> h \in HiddenBy(next, l, p)
<1>1. ~ /\ \/ h \in Changed(prev, next) /\ p \in Puts(prev, next, h) \cup Removes(prev, next, h)
           \/ /\ h \in DOMAIN prev /\ Ancestors(next, h) # Ancestors(prev, h)
              /\ p \in DOMAIN next[h].files \cup DOMAIN prev[h].files
        /\ l \in Ancestors(next, h) \cup Ancestors(prev, h)
  BY DEF Affected
<1>2. p \in Puts(prev, next, h) \cup Removes(prev, next, h) => h \in Changed(prev, next)
  BY DEF Changed
<1>3. Holds(prev, h, p) <=> h \in DOMAIN prev /\ p \in DOMAIN prev[h].files
  BY HoldsIs
<1>4. Holds(next, h, p) <=> p \in DOMAIN next[h].files
  BY HoldsIs
<1>5. p \in DOMAIN next[h].files /\ ~ Holds(prev, h, p) => p \in Puts(prev, next, h)
  BY DEF Puts, Holds
<1>6. p \notin DOMAIN next[h].files /\ Holds(prev, h, p) => p \in Removes(prev, next, h)
  BY DEF Removes, Holds
<1>7. h \in HiddenBy(prev, l, p) <=> h \in DOMAIN prev /\ l \in Ancestors(prev, h) /\ Holds(prev, h, p)
  BY DEF HiddenBy
<1>8. h \in HiddenBy(next, l, p) <=> l \in Ancestors(next, h) /\ Holds(next, h, p)
  BY DEF HiddenBy
<1>9. QED  BY <1>1, <1>2, <1>3, <1>4, <1>5, <1>6, <1>7, <1>8

(* A batch towards any selection finds an exact graph as it needs it.       *)
LEMMA ExactRetries ==
    ASSUME NEW g, IsGraph(g), Exact(g), NEW next
    PROVE  Retry(g, next)
<1>   DEFINE plan == PlanFromGraph(g)
<1>1. SUFFICES ASSUME NEW l \in DOMAIN g \cap DOMAIN next, NEW p \in DOMAIN g[l].files \cap DOMAIN next[l].files,
                      <<l, p>> \notin Affected(plan, next)
               PROVE  g[l].files[p].by \cap DOMAIN next = HiddenBy(next, l, p)
  BY DEF Retry
<1>2. g[l].files[p].by = HiddenBy(plan, l, p)
  BY DEF Exact
<1>3. p \in Paths
  BY DEF IsGraph, IsLayer
<1>4. \A h \in DOMAIN next : h \in HiddenBy(plan, l, p) <=> h \in HiddenBy(next, l, p)
  BY <1>1, <1>3, NotAffected
<1>5. HiddenBy(next, l, p) \subseteq DOMAIN next
  BY HiddenByIn
<1>6. QED  BY <1>2, <1>4, <1>5

(* A batch that has made no call yet.                                       *)
LEMMA HiddenStart ==
    ASSUME NEW g, IsGraph(g), NEW w, w.prev = PlanFromGraph(g), w.ops = WriteOps(w.prev, w.next), Retry(g, w.next)
    PROVE  Hidden(g, w)
<1>1. SUFFICES ASSUME NEW l \in DOMAIN g \cap DOMAIN w.next, NEW p \in DOMAIN g[l].files \cap DOMAIN w.next[l].files,
                      <<"hide", l, p>> \notin w.ops, <<"put", l, p>> \notin w.ops
               PROVE  g[l].files[p].by \cap DOMAIN w.next = HiddenBy(w.next, l, p)
  BY DEF Hidden
<1>2. p \notin Puts(w.prev, w.next, l) /\ <<l, p>> \notin Hides(w.prev, w.next)
  BY <1>1, Calls
<1>3. Holds(w.prev, l, p) /\ Holds(w.next, l, p) /\ w.prev[l].files[p] = Bare(g[l].files[p]) /\ l \in DOMAIN w.prev
  BY GraphPlan, HoldsIs
<1>4. w.prev[l].files[p] = w.next[l].files[p]
  BY <1>2, <1>3 DEF Puts, FilesIn
<1>5. <<l, p>> \notin Affected(w.prev, w.next)
  BY <1>2, <1>3 DEF Hides
<1>6. QED  BY <1>3, <1>4, <1>5 DEF Retry

(* A batch that moves no layer, interrupted anywhere, leaves a graph in     *)
(* which the same batch finds again what it has left undone: the puts and   *)
(* removes come last, and the files below them are affected as before.      *)
LEMMA CutOffRetries ==
    ASSUME NEW g, IsGraph(g), NEW w, Ordered(w), Written(g, w), Hidden(g, w), <<"wipe">> \notin w.ops, ~ Moved(w)
    PROVE  Retry(g, w.next)
<1>   DEFINE plan == PlanFromGraph(g)
             prev == w.prev
             next == w.next
<1>1. SUFFICES ASSUME NEW l \in DOMAIN g \cap DOMAIN next, NEW p \in DOMAIN g[l].files \cap DOMAIN next[l].files,
                      Bare(g[l].files[p]) = next[l].files[p], <<l, p>> \notin Affected(plan, next)
               PROVE  g[l].files[p].by \cap DOMAIN next = HiddenBy(next, l, p)
  BY DEF Retry
<1>2. p \in Paths /\ Holds(g, l, p)
  BY HoldsIs DEF IsGraph, IsLayer
<1>3. \A m \in DOMAIN next : <<"put", m, p>> \in w.ops \/ <<"remove", m, p>> \in w.ops => Matches(g, prev, m, p)
  BY <1>2, WrittenIs
<1>4. CASE <<"hide", l, p>> \notin w.ops /\ <<"put", l, p>> \notin w.ops
  BY <1>4 DEF Hidden
<1>5. CASE <<"put", l, p>> \in w.ops
  <2>1. p \in Puts(prev, next, l)
    BY <1>5, Calls DEF Ordered
  <2>2. Holds(prev, l, p) /\ Bare(g[l].files[p]) = prev[l].files[p]
    BY <1>2, <1>3, <1>5 DEF Matches
  <2>3. prev[l].files[p] # next[l].files[p]
    BY <2>1, <2>2, HoldsIs DEF Puts, FilesIn
  <2>4. QED  BY <1>1, <2>2, <2>3
<1>6. CASE <<"hide", l, p>> \in w.ops
  <2>1. <<l, p>> \in Affected(prev, next)
    BY <1>6, Calls DEF Ordered, Hides
  <2>2. PICK m \in DOMAIN next :
           /\ \/ m \in Changed(prev, next) /\ p \in Puts(prev, next, m) \cup Removes(prev, next, m)
              \/ /\ m \in DOMAIN prev /\ Ancestors(next, m) # Ancestors(prev, m)
                 /\ p \in DOMAIN next[m].files \cup DOMAIN prev[m].files
           /\ l \in Ancestors(next, m) \cup Ancestors(prev, m)
    BY <2>1 DEF Affected
  <2>3. m \in DOMAIN prev => Ancestors(next, m) = Ancestors(prev, m)
    BY DEF Moved
  <2>4. p \in Puts(prev, next, m) \cup Removes(prev, next, m)
    BY <2>2, <2>3
  <2>5. l \in Ancestors(next, m)
    <3>1. m \notin DOMAIN prev => Ancestors(prev, m) = {}
      BY DEF Ancestors
    <3>2. QED  BY <2>2, <2>3, <3>1
  <2>6. <<"put", m, p>> \in w.ops \/ <<"remove", m, p>> \in w.ops
    <3>1. CASE p \in Puts(prev, next, m)
      BY <1>6, <3>1, Calls, Phases DEF Ordered
    <3>2. CASE p \in Removes(prev, next, m)
      BY <1>6, <3>2, Calls, Phases DEF Ordered
    <3>3. QED  BY <2>4, <3>1, <3>2
  <2>7. Agree(plan, prev, m, p)
    BY <1>3, <2>6, AgreeMatches
  <2>8. p \in Puts(plan, next, m) \cup Removes(plan, next, m)
    <3>1. p \in DOMAIN FilesIn(plan, m) <=> p \in DOMAIN FilesIn(prev, m)
      BY <2>7 DEF Agree, Holds
    <3>2. p \in DOMAIN FilesIn(prev, m) => FilesIn(plan, m)[p] = FilesIn(prev, m)[p]
      BY <2>7, HoldsIs DEF Agree, Holds, FilesIn, NoFiles
    <3>3. QED  BY <2>4, <3>1, <3>2 DEF Puts, Removes
  <2>9. m \in Changed(plan, next)
    BY <2>8 DEF Changed
  <2>10. <<l, p>> \in Affected(plan, next)
    BY <1>2, <2>5, <2>8, <2>9 DEF Affected
  <2>11. QED  BY <1>1, <2>10
<1>7. QED  BY <1>4, <1>5, <1>6

-----------------------------------------------------------------------------
(* What the operations leave of it.                                         *)
LEMMA HiddenInit ==
    ASSUME Init
    PROVE  HiddenInv
<1>1. graph = NoPlan /\ owed = {} /\ work = [p \in Procs |-> Idle]
  BY DEF Init
<1>2. \A p \in Procs : work[p].pc = "idle"
  BY <1>1 DEF Idle
<1>3. DOMAIN graph = {}
  BY <1>1, WipeCalled
<1>4. LeftWell(graph, owed)
  BY <1>1, <1>3 DEF LeftWell, Bound, Exact
<1>5. QED  BY <1>1, <1>2, <1>4 DEF HiddenInv, Hiding, Owing, Writing

(* No one who was not writing writes without need, and no one stops.        *)
LEMMA HiddenQuiet ==
    ASSUME HiddenInv, UNCHANGED <<graph, cursor, owed>>, spoiled => spoiled', cursor.seq < Len(log) => cursor'.seq < Len(log'),
           \A q \in Procs : Writing(q)' => (Writing(q) /\ work'[q] = work[q]) \/ HidesWell(graph, work'[q], spoiled'),
           NoneWriting' => NoneWriting
    PROVE  HiddenInv'
<1>1. ASSUME NEW q \in Procs, Writing(q)' PROVE HidesWell(graph', work'[q], spoiled')
  <2>1. CASE HidesWell(graph, work'[q], spoiled')
    BY <2>1
  <2>2. CASE Writing(q) /\ work'[q] = work[q]
    <3>1. HidesWell(graph, work[q], spoiled)
      BY <2>2 DEF HiddenInv, Hiding
    <3>2. HidesWell(graph, work[q], spoiled')
      BY <3>1 DEF HidesWell
    <3>3. QED  BY <2>2, <3>2
  <2>3. QED  BY <1>1, <2>1, <2>2
<1>2. Hiding'
  BY <1>1 DEF Hiding
<1>3. ASSUME ~ spoiled', NoneWriting' PROVE LeftWell(graph', owed')
  BY <1>3 DEF HiddenInv, Owing
<1>4. ASSUME ~ spoiled', owed' # {} PROVE cursor'.seq < Len(log')
  BY <1>4 DEF HiddenInv, Owing
<1>5. QED  BY <1>2, <1>3, <1>4 DEF HiddenInv, Owing

(* The holder of the lease loses it, or ends.                               *)
LEMMA HiddenCutOff ==
    ASSUME GraphInv, HiddenInv, NEW p \in Procs, lease = p, CutOff(p), UNCHANGED <<graph, cursor, log>>, NoneWriting'
    PROVE  HiddenInv'
<1>   DEFINE w == work[p]
<1>1. Hiding'
  BY DEF Hiding, NoneWriting
<1>2. CASE w.pc # "write"
  <2>1. UNCHANGED <<owed, spoiled>>
    BY <1>2 DEF CutOff
  <2>2. NoneWriting
    BY <1>2 DEF NoneWriting, Writing
  <2>3. QED  BY <1>1, <2>1, <2>2 DEF HiddenInv, Owing
<1>3. CASE w.pc = "write"
  <2>1. owed' = {w.next} /\ (~ spoiled' => ~ spoiled /\ w.kind = "turn" /\ w.clean /\ ~ Moved(w))
    BY <1>3 DEF CutOff
  <2>2. SUFFICES ASSUME ~ spoiled' PROVE LeftWell(graph, owed') /\ cursor.seq < Len(log)
    BY <1>1 DEF HiddenInv, Owing
  <2>3. Batch(w, graph) /\ IsGraph(graph) /\ Leased(w, cursor, spoiled) /\ HidesWell(graph, w, spoiled)
    BY <1>3 DEF GraphInv, Batches, Leasing, HiddenInv, Hiding, Writing
  <2>   HIDE DEF w
  <2>4. Ordered(w) /\ Written(graph, w) /\ <<"wipe">> \notin w.ops
    BY <1>3, <2>1, <2>2, <2>3 DEF Batch, Ordered
  <2>5. Bound(graph) /\ Hidden(graph, w)
    BY <2>1, <2>2, <2>3, <2>4 DEF HidesWell
  <2>6. Retry(graph, w.next)
    BY <2>1, <2>2, <2>3, <2>4, <2>5, CutOffRetries
  <2>7. LeftWell(graph, owed')
    BY <2>1, <2>5, <2>6 DEF LeftWell
  <2>8. cursor.seq < Len(log)
    <3>1. WorkTyped(w, Len(log)) /\ Types
      BY GraphTypes DEF Types, w
    <3>2. Len(log) \in Nat /\ cursor.seq \in Nat /\ w.seq \in 0 .. Len(log)
      BY <1>3, <3>1 DEF Types, StoreTyped, CursorTyped, WorkTyped
    <3>3. cursor.seq < w.seq
      BY <1>3, <2>1, <2>2, <2>3 DEF Leased
    <3>4. QED  BY <3>2, <3>3
  <2>9. QED  BY <2>7, <2>8
<1>4. QED  BY <1>2, <1>3

(* An operation that is not writing under the lease ends.                   *)
LEMMA HiddenEnd ==
    ASSUME GraphInv, HiddenInv, NEW p \in Procs, End(p), ~ Writing(p), UNCHANGED <<graph, cursor, log, owed>>, spoiled => spoiled'
    PROVE  HiddenInv'
<1>1. Types
  BY GraphTypes
<1>2. ASSUME NEW q \in Procs, Writing(q)' PROVE Writing(q) /\ work'[q] = work[q]
  BY <1>1, <1>2, EndTyped, CodeIndexAssumption DEF Writing
<1>3. ASSUME NEW q \in Procs, Writing(q) PROVE Writing(q)'
  <2>1. q # p /\ lease = q /\ work[q].pc = "write"
    BY <1>3 DEF Writing
  <2>2. lease' = lease /\ work'[q] = work[q]
    BY <1>1, <2>1, EndTyped DEF End
  <2>3. QED  BY <2>1, <2>2 DEF Writing
<1>4. NoneWriting' => NoneWriting
  BY <1>3 DEF NoneWriting
<1>5. QED  BY <1>2, <1>4, HiddenQuiet

(* An operation that is not writing goes on.                                *)
LEMMA HiddenGo ==
    ASSUME GraphInv, HiddenInv, NEW p \in Procs, NEW x, work' = [work EXCEPT ![p] = x], lease' = lease, work[p].pc # "write",
           UNCHANGED <<graph, cursor, log, owed>>, spoiled => spoiled',
           lease = p /\ x.pc = "write" => HidesWell(graph, x, spoiled')
    PROVE  HiddenInv'
<1>1. work'[p] = x /\ \A q \in Procs \ {p} : work'[q] = work[q]
  BY GraphTypes, WorkSet
<1>2. ASSUME NEW q \in Procs, Writing(q)'
      PROVE  (Writing(q) /\ work'[q] = work[q]) \/ HidesWell(graph, work'[q], spoiled')
  BY <1>1, <1>2 DEF Writing
<1>3. NoneWriting' => NoneWriting
  BY <1>1 DEF NoneWriting, Writing
<1>4. QED  BY <1>2, <1>3, HiddenQuiet

(* The end of the batch under the lease.                                    *)
LEMMA HiddenSettled ==
    ASSUME GraphInv, HiddenInv, NEW p \in Procs, work[p].pc = "write", work[p].ops = {}, Settled(p), lease = p,
           graph' = graph, NoneWriting'
    PROVE  HiddenInv'
<1>   DEFINE w == work[p]
<1>1. Hiding'
  BY DEF Hiding, NoneWriting
<1>2. owed' = {} /\ spoiled' = (~ (w.clean /\ lease = p) \/ (spoiled /\ w.kind \notin {"rebuild", "purge"}))
  BY SettledSpoils
<1>3. SUFFICES ASSUME ~ spoiled' PROVE LeftWell(graph, {})
  BY <1>1, <1>2 DEF HiddenInv, Owing
<1>4. w.clean /\ (~ spoiled \/ w.kind \in {"rebuild", "purge"})
  BY <1>2, <1>3
<1>5. HidesWell(graph, w, spoiled) /\ IsGraph(graph)
  BY DEF GraphInv, HiddenInv, Hiding, Writing
<1>6. PlanFromGraph(graph) = w.next
  BY <1>4, Done
<1>   HIDE DEF w
<1>7. Bound(graph) /\ Hidden(graph, w)
  BY <1>4, <1>5 DEF HidesWell, w
<1>8. Exact(graph)
  BY <1>5, <1>6, <1>7, ExactDone DEF w
<1>9. QED  BY <1>7, <1>8 DEF LeftWell

(* The start of a batch: it finds a graph that is exact, or in which the    *)
(* same batch was interrupted.                                              *)
LEMMA HiddenBegun ==
    ASSUME GraphInv, HiddenInv, NEW p \in Procs, lease = p, work[p].pc = "plan",
           spoiled' = (spoiled \/ (owed \ {NextOf(work[p])} # {} /\ work[p].kind # "rebuild"))
    PROVE  HidesWell(graph, BatchWork(work[p]), spoiled')
<1>   DEFINE w == work[p]
             v == BatchWork(w)
<1>1. Types
  BY GraphTypes
<1>2. WorkTyped(w, Len(log)) /\ Batch(w, graph) /\ Leased(w, cursor, spoiled) /\ IsGraph(graph)
  BY <1>1 DEF GraphInv, Batches, Leasing, Types
<1>3. NoneWriting
  BY DEF NoneWriting, Writing
<1>4. /\ v.kind = w.kind /\ v.prev = PrevOf(w) /\ v.next = NextOf(w)
      /\ v.ops = WriteOps(v.prev, v.next) \cup (IF w.kind = "rebuild" THEN {<<"wipe">>} ELSE {})
  BY DEF BatchWork
<1>   HIDE DEF v
<1>5. SUFFICES ASSUME ~ spoiled' \/ v.kind \in {"rebuild", "purge"}, <<"wipe">> \notin v.ops
               PROVE  Bound(graph) /\ Hidden(graph, v)
  BY DEF HidesWell, v
<1>6. w.kind \in {"turn", "check"} /\ v.ops = WriteOps(v.prev, v.next) /\ ~ spoiled'
  BY <1>2, <1>4, <1>5 DEF Batch, WorkTyped
<1>7. ~ spoiled /\ w.clean /\ owed \ {v.next} = {}
  BY <1>2, <1>4, <1>6 DEF Leased
<1>8. v.prev = PlanFromGraph(graph)
  BY <1>2, <1>4, <1>6, <1>7 DEF Batch, PrevOf
<1>9. LeftWell(graph, owed)
  BY <1>3, <1>7 DEF HiddenInv, Owing
<1>10. Retry(graph, v.next)
  <2>1. CASE owed = {}
    BY <1>2, <1>9, <2>1, ExactRetries DEF LeftWell
  <2>2. CASE owed # {}
    <3>1. v.next \in owed
      BY <1>7, <2>2
    <3>2. QED  BY <1>9, <3>1 DEF LeftWell
  <2>3. QED  BY <2>1, <2>2
<1>11. QED  BY <1>2, <1>6, <1>8, <1>9, <1>10, HiddenStart DEF LeftWell

LEMMA HiddenWrite ==
    ASSUME GraphInv, HiddenInv, NEW p \in Procs, Write(p)
    PROVE  HiddenInv'
<1>   DEFINE v == work[p]
             w == work'[p]
<1>1. Types
  BY GraphTypes
<1>2. /\ v.pc = "write" /\ WorkTyped(v, Len(log)) /\ spoiled' = (spoiled \/ lease # p)
      /\ UNCHANGED <<log, cursor, lease, owed>>
  BY <1>1, WriteIs
<1>3. PICK o \in First(v) : /\ Possible(o) /\ graph' = Called(v.next, o)
                            /\ w = [v EXCEPT !.ops = v.ops \ {o}]
  BY <1>1, WriteIs
<1>4. /\ w.ops = v.ops \ {o} /\ w.pc = v.pc /\ w.kind = v.kind
      /\ w.prev = v.prev /\ w.next = v.next /\ w.clean = v.clean
  <2>   HIDE DEF v, w
  <2>1. PICK left : left = v.ops \ {o}
    OBVIOUS
  <2>2. QED  BY <1>2, <1>3, <2>1, CallDone
<1>   HIDE DEF w
<1>5. CASE lease = p
  <2>1. HidesWell(graph, v, spoiled) /\ Batch(v, graph) /\ IsGraph(graph)
    BY <1>2, <1>5 DEF GraphInv, Batches, HiddenInv, Hiding, Writing
  <2>2. spoiled' = spoiled
    BY <1>1, <1>2, <1>5 DEF Types
  <2>3. HidesWell(graph', w, spoiled)
    <3>1. SUFFICES ASSUME v.clean, ~ spoiled \/ v.kind \in {"rebuild", "purge"} PROVE Bound(graph') /\ Hidden(graph', w)
      BY <1>4 DEF HidesWell
    <3>2. Ordered(v) /\ IsPlan(v.next) /\ Written(graph, v)
      BY <1>2, <2>1, <3>1 DEF Batch
    <3>3. <<"wipe">> \notin v.ops => Bound(graph) /\ Hidden(graph, v)
      BY <2>1, <3>1 DEF HidesWell
    <3>   HIDE DEF v
    <3>4. QED  BY <1>3, <1>4, <2>1, <3>2, <3>3, HiddenKept
  <2>4. \A q \in Procs : Writing(q)' => q = p
    BY <1>2, <1>5 DEF Writing
  <2>5. Writing(p)'
    BY <1>2, <1>4, <1>5 DEF Writing, w
  <2>6. Hiding'
    BY <2>2, <2>3, <2>4 DEF Hiding, w
  <2>7. ~ NoneWriting'
    BY <2>5 DEF NoneWriting
  <2>8. QED  BY <1>2, <2>2, <2>6, <2>7 DEF HiddenInv, Owing
<1>6. CASE lease # p
  <2>1. spoiled' /\ lease' = lease
    BY <1>2, <1>6
  <2>2. ASSUME NEW q \in Procs, Writing(q)' PROVE HidesWell(graph', work'[q], spoiled')
    <3>1. q # p /\ work'[q].pc = "write"
      BY <1>6, <2>1, <2>2 DEF Writing
    <3>2. work'[q] = IF work[q].pc # "idle" THEN [work[q] EXCEPT !.clean = FALSE] ELSE work[q]
      BY <1>1, <3>1, WriteIs
    <3>3. work[q].pc # "idle"
      BY <3>1, <3>2
    <3>4. work'[q] = [work[q] EXCEPT !.clean = FALSE] /\ WorkTyped(work[q], Len(log))
      BY <1>1, <3>2, <3>3 DEF Types
    <3>5. work'[q].clean = FALSE
      BY <3>3, <3>4, Uncleaned
    <3>6. QED  BY <3>5 DEF HidesWell
  <2>3. QED  BY <2>1, <2>2 DEF HiddenInv, Hiding, Owing
<1>7. QED  BY <1>5, <1>6

LEMMA HiddenStep ==
    ASSUME GraphInv, HiddenInv, [Next]_vars
    PROVE  HiddenInv'
<1>1. Types
  BY GraphTypes
<1>2. CASE StoreStep
  <2>1. UNCHANGED <<cursor, lease, graph, work, owed, spoiled>>
    BY <1>2, StoreFrame
  <2>2. Len(log) \in Nat /\ cursor.seq \in Nat /\ (log' = log \/ Len(log') = Len(log) + 1)
    BY <1>1, <1>2, Logged, Longer DEF Types, StoreTyped, CursorTyped
  <2>3. cursor.seq < Len(log) => cursor'.seq < Len(log')
    BY <2>1, <2>2
  <2>4. \A q \in Procs : (Writing(q)' <=> Writing(q)) /\ work'[q] = work[q]
    BY <2>1 DEF Writing
  <2>5. NoneWriting' => NoneWriting
    BY <2>4 DEF NoneWriting
  <2>6. QED  BY <2>1, <2>3, <2>4, <2>5, HiddenQuiet
<1>3. CASE Lapse
  <2>1. lease # None /\ lease' = None /\ CutOff(lease) /\ UNCHANGED <<graph, cursor, log>>
    BY <1>3 DEF Lapse
  <2>2. NoneWriting'
    BY <2>1, CodeIndexAssumption DEF NoneWriting, Writing
  <2>3. lease \in Procs
    BY <1>1, <2>1 DEF Types
  <2>4. QED  BY <2>1, <2>2, <2>3, HiddenCutOff
<1>4. CASE UNCHANGED vars
  BY <1>4 DEF vars, HiddenInv, Hiding, Owing, NoneWriting, Writing
<1>5. ASSUME NEW p \in Procs, NEW kind \in Does[p], Acquire(p, kind) PROVE HiddenInv'
  <2>   DEFINE x == [pc |-> "fetch", kind |-> kind, seq |-> cursor.seq, state |-> cursor.trees,
                     first |-> TRUE, clean |-> TRUE, prev |-> NoPlan, cache |-> NoPlan]
  <2>1. work' = [work EXCEPT ![p] = x] /\ lease' = p /\ UNCHANGED <<graph, cursor, log>>
    BY <1>5 DEF Acquire
  <2>2. x.pc # "write"
    OBVIOUS
  <2>   HIDE DEF x
  <2>3. work'[p] = x
    BY <1>1, <2>1, WorkSet
  <2>4. \A q \in Procs : ~ Writing(q)'
    BY <2>1, <2>2, <2>3 DEF Writing
  <2>5. NoneWriting'
    BY <2>4 DEF NoneWriting
  <2>6. CASE lease = None
    <3>1. UNCHANGED <<owed, spoiled>>
      BY <1>5, <2>6 DEF Acquire
    <3>2. NoneWriting
      BY <2>6, CodeIndexAssumption DEF NoneWriting, Writing
    <3>3. QED  BY <2>1, <2>4, <3>1, <3>2, HiddenQuiet
  <2>7. CASE lease # None
    <3>1. CutOff(lease) /\ lease \in Procs
      BY <1>1, <1>5, <2>7 DEF Acquire, Types
    <3>2. QED  BY <2>1, <2>5, <3>1, HiddenCutOff
  <2>8. QED  BY <2>6, <2>7
<1>6. ASSUME NEW p \in Procs, Fetch(p) PROVE HiddenInv'
  <2>1. UNCHANGED <<graph, cursor, log, owed, spoiled>> /\ work[p].pc = "fetch"
    BY <1>6, FetchIs
  <2>2. CASE End(p)
    BY <2>1, <2>2, HiddenEnd DEF Writing
  <2>3. CASE work' = [work EXCEPT ![p] = PurgeWork] /\ lease' = lease
    <3>1. HidesWell(graph, PurgeWork, spoiled')
      BY DEF HidesWell, PurgeWork
    <3>2. QED  BY <2>1, <2>3, <3>1, HiddenGo
  <2>4. CASE work' = [work EXCEPT ![p] = PlanWork(work[p])] /\ lease' = lease
    <3>1. PlanWork(work[p]).pc # "write"
      BY DEF PlanWork
    <3>2. QED  BY <2>1, <2>4, <3>1, HiddenGo
  <2>5. QED  BY <1>6, <2>2, <2>3, <2>4, FetchIs
<1>7. ASSUME NEW p \in Procs, Plan(p) PROVE HiddenInv'
  <2>1. /\ UNCHANGED <<graph, cursor, log, owed>> /\ work[p].pc = "plan"
        /\ spoiled' = (spoiled \/ (owed \ {NextOf(work[p])} # {} /\ work[p].kind # "rebuild"))
    BY <1>7, PlanIs
  <2>2. spoiled => spoiled'
    BY <2>1
  <2>3. CASE End(p)
    BY <2>1, <2>2, <2>3, HiddenEnd DEF Writing
  <2>4. CASE work' = [work EXCEPT ![p] = BatchWork(work[p])] /\ lease' = lease
    <3>1. lease = p => HidesWell(graph, BatchWork(work[p]), spoiled')
      BY <2>1, HiddenBegun
    <3>2. QED  BY <2>1, <2>2, <2>4, <3>1, HiddenGo
  <2>5. QED  BY <1>7, <2>3, <2>4, PlanIs
<1>8. ASSUME NEW p \in Procs, Write(p) PROVE HiddenInv'
  BY <1>8, HiddenWrite
<1>9. ASSUME NEW p \in Procs, Save(p) PROVE HiddenInv'
  <2>1. /\ work[p].pc = "write" /\ work[p].ops = {} /\ Settled(p) /\ lease = p /\ graph' = graph
    BY <1>9, SaveIs
  <2>2. NoneWriting'
    <3>1. CASE End(p)
      <4>1. lease' = None
        BY <2>1, <3>1 DEF End
      <4>2. QED  BY <4>1, CodeIndexAssumption DEF NoneWriting, Writing
    <3>2. CASE work' = [work EXCEPT ![p] = FetchWork(work[p])] /\ lease' = lease
      <4>1. work'[p] = FetchWork(work[p]) /\ FetchWork(work[p]).pc = "fetch"
        BY <1>1, <3>2, WorkSet DEF FetchWork
      <4>2. QED  BY <2>1, <3>2, <4>1 DEF NoneWriting, Writing
    <3>3. QED  BY <1>9, <3>1, <3>2, SaveIs
  <2>3. QED  BY <2>1, <2>2, HiddenSettled
<1>10. ASSUME NEW p \in Procs, Repaired(p) \/ Purged(p) PROVE HiddenInv'
  <2>1. work[p].pc = "write" /\ work[p].ops = {} /\ Settled(p) /\ graph' = graph
    BY <1>10 DEF Repaired, Purged
  <2>2. CASE lease = p \/ Purged(p)
    <3>1. lease' = None
      BY <1>10, <2>2 DEF Repaired, Purged, End
    <3>2. NoneWriting'
      BY <3>1, CodeIndexAssumption DEF NoneWriting, Writing
    <3>3. CASE lease = p
      BY <2>1, <3>2, <3>3, HiddenSettled
    <3>4. CASE lease # p
      BY <2>1, <3>2, <3>4, SettledSpoils DEF HiddenInv, Hiding, Owing, NoneWriting
    <3>5. QED  BY <3>3, <3>4
  <2>3. CASE lease # p /\ Repaired(p)
    <3>1. spoiled' /\ End(p) /\ ~ Writing(p)
      BY <2>1, <2>3, SettledSpoils DEF Repaired, Writing
    <3>2. ASSUME NEW q \in Procs, Writing(q)' PROVE HidesWell(graph', work'[q], spoiled')
      <4>1. Writing(q) /\ work'[q] = work[q]
        BY <1>1, <3>1, <3>2, EndTyped, CodeIndexAssumption DEF Writing
      <4>2. HidesWell(graph, work[q], spoiled)
        BY <4>1 DEF HiddenInv, Hiding
      <4>3. HidesWell(graph, work[q], spoiled')
        BY <3>1, <4>2 DEF HidesWell
      <4>4. QED  BY <2>1, <4>1, <4>3
    <3>3. QED  BY <3>1, <3>2 DEF HiddenInv, Hiding, Owing
  <2>4. QED  BY <1>10, <2>2, <2>3
<1>11. ASSUME NEW p \in Procs, Fail(p) \/ Stop(p) PROVE HiddenInv'
  <2>1. End(p) /\ Interrupted(p) /\ UNCHANGED <<log, cursor, graph>>
    BY <1>11 DEF Fail, Stop
  <2>2. CASE lease = p
    <3>1. lease' = None /\ CutOff(p)
      BY <2>1, <2>2 DEF End, Interrupted
    <3>2. NoneWriting'
      BY <3>1, CodeIndexAssumption DEF NoneWriting, Writing
    <3>3. QED  BY <2>1, <2>2, <3>1, <3>2, HiddenCutOff
  <2>3. CASE lease # p
    <3>1. UNCHANGED <<owed, spoiled>> /\ ~ Writing(p)
      BY <2>1, <2>3 DEF Interrupted, Writing
    <3>2. QED  BY <2>1, <3>1, HiddenEnd
  <2>4. QED  BY <2>2, <2>3
<1>12. QED  BY <1>2, <1>3, <1>4, <1>5, <1>6, <1>7, <1>8, <1>9, <1>10, <1>11, StepKinds

(* What a batch has dealt with is hidden as it should be after the batch,   *)
(* and what an interrupted one left is found by the next.                   *)
THEOREM HiddenInvariance == Spec => [](GraphInv /\ HiddenInv)
<1>1. Init => GraphInv /\ HiddenInv
  BY GraphInit, HiddenInit
<1>2. GraphInv /\ HiddenInv /\ [Next]_vars => GraphInv' /\ HiddenInv'
  BY GraphStep, HiddenStep
<1>3. QED  BY <1>1, <1>2, PTL DEF Spec

(* At rest no interrupted batch has left anything to deal with.             *)
LEMMA RestingExact ==
    ASSUME GraphInv, HiddenInv, AtRest, ~ spoiled
    PROVE  Exact(graph)
<1>1. NoneWriting
  BY DEF NoneWriting, Writing, AtRest, Active
<1>2. LeftWell(graph, owed) /\ (owed # {} => cursor.seq < Len(log))
  BY <1>1 DEF HiddenInv, Owing
<1>3. Len(log) \in Nat /\ cursor.seq = Len(log)
  BY GraphTypes DEF Types, StoreTyped, AtRest
<1>4. owed = {}
  BY <1>2, <1>3
<1>5. QED  BY <1>2, <1>4 DEF LeftWell

(* At rest every file is hidden by exactly the layers above that hold its   *)
(* path (HiddenIsExact): the calls of a batch compute hiddenBy from the     *)
(* whole selection, and a retry recomputes what an interrupted batch left.  *)
THEOREM HiddenByTheLayersAbove == Spec => []HiddenIsExact
<1>1. ASSUME GraphInv, HiddenInv PROVE HiddenIsExact
  <2>1. SUFFICES ASSUME AtRest, ~ spoiled PROVE HiddenExact
    BY DEF HiddenIsExact
  <2>2. Exact(graph)
    BY <1>1, <2>1, RestingExact
  <2>3. QED  BY <2>2 DEF Exact, HiddenExact
<1>2. QED  BY <1>1, HiddenInvariance, PTL

-----------------------------------------------------------------------------
(* The last change of a tree that a part of the log has.                    *)
LastChange(lg, to, k, n) ==
    /\ n \in 1 .. to /\ Touches(lg[n], k)
    /\ \A m \in n + 1 .. to : ~ Touches(lg[m], k)

(* A tree is as a commit made it, and the last change tells of the commit.  *)
TreeTold(lg, ts, k) ==
    ts[k] # NoFiles =>
        \E n \in 1 .. Len(lg) : \E c \in Checkouts[k] :
            /\ LastChange(lg, Len(lg), k, n) /\ lg[n].ref = k[2]
            /\ lg[n].up = c.up /\ lg[n].head = c.head /\ ts[k] = c.entries

(* The states that were folded from a part of the log tell its last changes.*)
StateTold(lg, to, state) ==
    \A k \in DOMAIN state : \E n \in 1 .. to :
        /\ LastChange(lg, to, k, n) /\ lg[n].ref = k[2]
        /\ state[k].up = lg[n].up /\ state[k].head = lg[n].head

WorkTold(lg, w) == w.pc # "idle" => StateTold(lg, w.seq, w.state)

ToldInv ==
    /\ \A k \in Keys : TreeTold(log, trees, k)
    /\ StateTold(log, cursor.seq, cursor.trees)
    /\ \A p \in Procs : WorkTold(log, work[p])

-----------------------------------------------------------------------------
(* Folding one more change keeps this.                                      *)
LEMMA ConsumeTold ==
    ASSUME NEW lg, NEW n \in Nat \ {0}, lg[n] \in Change, NEW state, IsState(state), StateTold(lg, n - 1, state)
    PROVE  StateTold(lg, n, Consume(state, lg[n], n))
<1>   DEFINE ch == lg[n]
             next == Consume(state, ch, n)
<1>1. ASSUME NEW k \in DOMAIN state, ~ Touches(ch, k)
      PROVE  \E m \in 1 .. n : /\ LastChange(lg, n, k, m) /\ lg[m].ref = k[2]
                               /\ state[k].up = lg[m].up /\ state[k].head = lg[m].head
  <2>1. PICK m \in 1 .. n - 1 : /\ LastChange(lg, n - 1, k, m) /\ lg[m].ref = k[2]
                                /\ state[k].up = lg[m].up /\ state[k].head = lg[m].head
    BY DEF StateTold
  <2>2. \A i \in m + 1 .. n : i = n \/ i \in m + 1 .. n - 1
    OBVIOUS
  <2>3. m \in 1 .. n /\ LastChange(lg, n, k, m)
    BY <1>1, <2>1, <2>2 DEF LastChange
  <2>4. QED  BY <2>1, <2>3
<1>2. CASE ch.ref = 0
  <2>1. next = [k \in {j \in DOMAIN state : j[1] # ch.wt} |-> state[k]]
    BY <1>2 DEF Consume
  <2>2. \A k \in DOMAIN next : k \in DOMAIN state /\ next[k] = state[k] /\ ~ Touches(ch, k)
    BY <2>1 DEF Touches
  <2>   HIDE DEF next
  <2>3. QED  BY <1>1, <2>2 DEF StateTold, next
<1>3. CASE ch.ref # 0
  <2>   DEFINE key == <<ch.wt, ch.ref>>
  <2>1. /\ key \in DOMAIN next /\ next[key].up = ch.up /\ next[key].head = ch.head
        /\ \A k \in DOMAIN next : k = key \/ (k \in DOMAIN state /\ next[k] = state[k])
    BY <1>3 DEF Consume
  <2>2. key[1] = ch.wt /\ key[2] = ch.ref
    OBVIOUS
  <2>3. Touches(ch, key) /\ n \in 1 .. n /\ n + 1 .. n = {}
    BY <2>2 DEF Touches
  <2>4. LastChange(lg, n, key, n)
    BY <2>3 DEF LastChange
  <2>5. \A k \in DOMAIN state : k = <<k[1], k[2]>>
    BY CodeIndexAssumption DEF IsState
  <2>6. \A k \in DOMAIN state : Touches(ch, k) => k = key
    BY <1>3, <2>5 DEF Touches
  <2>   HIDE DEF next, key
  <2>7. ASSUME NEW k \in DOMAIN next
        PROVE  \E m \in 1 .. n : /\ LastChange(lg, n, k, m) /\ lg[m].ref = k[2]
                                 /\ next[k].up = lg[m].up /\ next[k].head = lg[m].head
    <3>1. CASE k = key
      BY <2>1, <2>2, <2>3, <2>4, <3>1
    <3>2. CASE k # key
      BY <1>1, <2>1, <2>6, <3>2
    <3>3. QED  BY <3>1, <3>2
  <2>8. QED  BY <2>7 DEF StateTold, next
<1>4. QED  BY <1>2, <1>3

LEMMA ReplayedTold ==
    ASSUME log \in Seq(Change), NEW state, IsState(state), NEW from \in Nat, NEW to \in Nat, from <= to, to <= Len(log),
           StateTold(log, from, state)
    PROVE  StateTold(log, to, Replayed(state, from, to))
<1>1. PICK f : IsReplay(f, state, from, to) /\ Replayed(state, from, to) = f[to]
  BY ReplayedIs
<1>   DEFINE Good(m) == IsState(f[m]) /\ StateTold(log, m, f[m])
             T == {m \in from .. to : ~ Good(m)}
<1>2. CASE T = {}
  BY <1>1, <1>2
<1>3. CASE T # {}
  <2>1. PICK m \in T : \A y \in T : m <= y
    <3>1. T \subseteq Nat
      OBVIOUS
    <3>2. QED  BY <1>3, <3>1, LeastNat
  <2>2. m \in from .. to /\ ~ Good(m)
    OBVIOUS
  <2>3. f[m] = IF m = from THEN state ELSE Consume(f[m - 1], log[m], m)
    BY <1>1, <2>2 DEF IsReplay
  <2>4. m # from
    BY <2>2, <2>3
  <2>5. m - 1 \in from .. to /\ m - 1 \notin T
    BY <2>1, <2>2, <2>4
  <2>6. log[m] \in Change /\ m \in Nat \ {0}
    BY <2>2, <2>4
  <2>7. IsState(f[m - 1]) /\ StateTold(log, m - 1, f[m - 1])
    BY <2>5
  <2>8. Good(m)
    BY <2>3, <2>4, <2>6, <2>7, ConsumeTyped, ConsumeTold
  <2>9. QED  BY <2>2, <2>8
<1>4. QED  BY <1>2, <1>3

(* A change to come is no concern of the states folded so far.              *)
LEMMA StateToldLater ==
    ASSUME Types, NEW ch, log' = Append(log, ch), NEW to \in 0 .. Len(log), NEW state, StateTold(log, to, state)
    PROVE  StateTold(log', to, state)
<1>1. Len(log) \in Nat /\ \A n \in 1 .. Len(log) : log'[n] = log[n]
  BY Longer
<1>2. \A n \in 1 .. to : log'[n] = log[n]
  BY <1>1
<1>3. \A k : \A n \in 1 .. to : LastChange(log, to, k, n) => LastChange(log', to, k, n)
  <2>1. SUFFICES ASSUME NEW k, NEW n \in 1 .. to, LastChange(log, to, k, n) PROVE LastChange(log', to, k, n)
    OBVIOUS
  <2>2. \A m \in n + 1 .. to : m \in 1 .. to
    OBVIOUS
  <2>3. QED  BY <1>2, <2>1, <2>2 DEF LastChange
<1>4. QED  BY <1>2, <1>3 DEF StateTold

(* Another tree's change leaves what the log tells of this one.             *)
LEMMA TreeToldLater ==
    ASSUME Types, NEW ch, log' = Append(log, ch), NEW k \in Keys, trees'[k] = trees[k], ~ Touches(ch, k),
           TreeTold(log, trees, k)
    PROVE  TreeTold(log', trees', k)
<1>1. /\ Len(log) \in Nat /\ Len(log') = Len(log) + 1 /\ log'[Len(log) + 1] = ch
      /\ \A n \in 1 .. Len(log) : log'[n] = log[n]
  BY Longer
<1>2. SUFFICES ASSUME trees[k] # NoFiles
               PROVE  \E n \in 1 .. Len(log') : \E c \in Checkouts[k] :
                         /\ LastChange(log', Len(log'), k, n) /\ log'[n].ref = k[2]
                         /\ log'[n].up = c.up /\ log'[n].head = c.head /\ trees[k] = c.entries
  BY DEF TreeTold
<1>3. PICK n \in 1 .. Len(log) : \E c \in Checkouts[k] :
         /\ LastChange(log, Len(log), k, n) /\ log[n].ref = k[2]
         /\ log[n].up = c.up /\ log[n].head = c.head /\ trees[k] = c.entries
  BY <1>2 DEF TreeTold
<1>4. \A m \in n + 1 .. Len(log') : m = Len(log) + 1 \/ (m \in n + 1 .. Len(log) /\ m \in 1 .. Len(log))
  BY <1>1
<1>5. n \in 1 .. Len(log') /\ log'[n] = log[n]
  BY <1>1
<1>6. LastChange(log', Len(log'), k, n)
  BY <1>1, <1>3, <1>4, <1>5 DEF LastChange
<1>7. QED  BY <1>3, <1>5, <1>6

(* A commit tells the log what it makes of its tree.                        *)
LEMMA TreeToldNow ==
    ASSUME Types, NEW k \in Keys, NEW c \in Checkouts[k], log' = Append(log, ChangeOf(k, c)), trees'[k] = c.entries
    PROVE  TreeTold(log', trees', k)
<1>   DEFINE ch == ChangeOf(k, c)
             n == Len(log')
<1>1. Len(log) \in Nat /\ n = Len(log) + 1 /\ log'[n] = ch
  BY Longer
<1>2. ch.wt = k[1] /\ ch.ref = k[2] /\ ch.up = c.up /\ ch.head = c.head
  BY DEF ChangeOf
<1>3. Touches(ch, k) /\ n \in 1 .. n /\ n + 1 .. n = {}
  BY <1>1, <1>2 DEF Touches
<1>4. LastChange(log', n, k, n)
  BY <1>1, <1>3 DEF LastChange
<1>   HIDE DEF n, ch
<1>5. QED  BY <1>1, <1>2, <1>3, <1>4 DEF TreeTold, n

LEMMA TreesTold ==
    ASSUME Types, StoreStep, \A k \in Keys : TreeTold(log, trees, k)
    PROVE  \A k \in Keys : TreeTold(log', trees', k)
<1>1. trees = [k \in Keys |-> trees[k]]
  BY DEF Types, StoreTyped
<1>2. \A k \in Keys : k = <<k[1], k[2]>> /\ k[2] # 0
  BY CodeIndexAssumption
<1>3. ASSUME NEW k \in Keys, NEW c \in Checkouts[k], Commit(k, c), NEW j \in Keys PROVE TreeTold(log', trees', j)
  <2>1. log' = Append(log, ChangeOf(k, c)) /\ trees' = [trees EXCEPT ![k] = c.entries]
    BY <1>3 DEF Commit
  <2>2. CASE j = k
    <3>1. trees'[k] = c.entries
      BY <1>1, <2>1
    <3>2. QED  BY <1>3, <2>1, <2>2, <3>1, TreeToldNow
  <2>3. CASE j # k
    <3>1. ~ Touches(ChangeOf(k, c), j)
      <4>1. ChangeOf(k, c).wt = k[1] /\ ChangeOf(k, c).ref = k[2]
        BY DEF ChangeOf
      <4>2. QED  BY <1>2, <2>3, <4>1 DEF Touches
    <3>2. trees'[j] = trees[j]
      BY <1>1, <2>1, <2>3
    <3>3. QED  BY <2>1, <3>1, <3>2, TreeToldLater
  <2>4. QED  BY <2>2, <2>3
<1>4. ASSUME NEW k \in Keys, RemoveRef(k), NEW j \in Keys PROVE TreeTold(log', trees', j)
  <2>   DEFINE ch == [wt |-> k[1], ref |-> k[2], up |-> 0, head |-> 0]
  <2>1. log' = Append(log, ch) /\ trees' = [trees EXCEPT ![k] = NoFiles]
    BY <1>4 DEF RemoveRef
  <2>2. j # k => ~ Touches(ch, j)
    BY <1>2 DEF Touches
  <2>   HIDE DEF ch
  <2>3. CASE j = k
    BY <1>1, <2>1, <2>3 DEF TreeTold
  <2>4. CASE j # k
    BY <1>1, <2>1, <2>2, <2>4, TreeToldLater
  <2>5. QED  BY <2>3, <2>4
<1>5. ASSUME NEW w \in Worktrees, RemoveWorktree(w), NEW j \in Keys PROVE TreeTold(log', trees', j)
  <2>   DEFINE ch == [wt |-> w, ref |-> 0, up |-> 0, head |-> 0]
  <2>1. log' = Append(log, ch) /\ trees' = [k \in Keys |-> IF k[1] = w THEN NoFiles ELSE trees[k]]
    BY <1>5 DEF RemoveWorktree
  <2>2. j[1] # w => ~ Touches(ch, j)
    BY DEF Touches
  <2>   HIDE DEF ch
  <2>3. CASE j[1] = w
    BY <2>1, <2>3 DEF TreeTold
  <2>4. CASE j[1] # w
    BY <1>1, <2>1, <2>2, <2>4, TreeToldLater
  <2>5. QED  BY <2>3, <2>4
<1>6. ASSUME NEW w \in Worktrees, GoIdle(w) \/ TouchSession(w) PROVE log' = log /\ trees' = trees
  BY <1>6 DEF GoIdle, TouchSession
<1>7. QED  BY <1>3, <1>4, <1>5, <1>6 DEF StoreStep

LEMMA ToldInit ==
    ASSUME Init
    PROVE  ToldInv
<1>1. Len(log) = Len(Start) /\ DOMAIN Start = 1 .. Len(Start)
  BY CodeIndexAssumption DEF Init
<1>2. ASSUME NEW k \in Keys PROVE TreeTold(log, trees, k)
  <2>1. CASE ~ \E n \in DOMAIN Start : Start[n].key = k
    BY <2>1 DEF TreeTold, Init
  <2>2. CASE \E n \in DOMAIN Start : Start[n].key = k
    <3>   DEFINE n == CHOOSE m \in DOMAIN Start : Start[m].key = k
    <3>1. n \in DOMAIN Start /\ Start[n].key = k /\ trees[k] = Start[n].entries
      BY <2>2 DEF Init
    <3>   HIDE DEF n
    <3>2. PICK c \in Checkouts[k] : c.up = Start[n].up /\ c.head = Start[n].head /\ c.entries = Start[n].entries
      BY <3>1, CheckoutAssumption
    <3>3. ASSUME NEW m \in DOMAIN Start
          PROVE  /\ log[m].wt = Start[m].key[1] /\ log[m].ref = Start[m].key[2]
                 /\ log[m].up = Start[m].up /\ log[m].head = Start[m].head
      <4>1. log[m] = ChangeOf(Start[m].key, Start[m])
        BY DEF Init
      <4>2. QED  BY <4>1 DEF ChangeOf
    <3>4. log[n].wt = k[1] /\ log[n].ref = k[2] /\ log[n].up = c.up /\ log[n].head = c.head
      BY <3>1, <3>2, <3>3
    <3>5. ASSUME NEW m \in DOMAIN Start, Touches(log[m], k) PROVE m = n
      <4>1. log[m].wt = Start[m].key[1] /\ log[m].ref = Start[m].key[2]
        BY <3>3
      <4>2. Start[m].key \in Worktrees \X Refs /\ k \in Worktrees \X Refs /\ 0 \notin Refs
        BY CodeIndexAssumption
      <4>3. Start[m].key[1] = k[1] /\ Start[m].key[2] = k[2]
        BY <3>5, <4>1, <4>2 DEF Touches
      <4>4. Start[m].key = k
        BY <4>2, <4>3
      <4>5. QED  BY <3>1, <4>4, CheckoutAssumption
    <3>6. LastChange(log, Len(log), k, n)
      <4>1. \A m \in n + 1 .. Len(log) : m \in DOMAIN Start /\ m # n
        BY <1>1, <3>1, CodeIndexAssumption
      <4>2. Touches(log[n], k)
        BY <3>4 DEF Touches
      <4>3. QED  BY <1>1, <3>1, <3>5, <4>1, <4>2 DEF LastChange
    <3>7. QED  BY <1>1, <3>1, <3>2, <3>4, <3>6 DEF TreeTold
  <2>3. QED  BY <2>1, <2>2
<1>3. StateTold(log, cursor.seq, cursor.trees)
  BY DEF Init, NoCursor, NoPlan, StateTold
<1>4. \A p \in Procs : WorkTold(log, work[p])
  BY DEF Init, Idle, WorkTold
<1>5. QED  BY <1>2, <1>3, <1>4 DEF ToldInv

(* One operation went on, or ended.                                         *)
LEMMA ToldOn ==
    ASSUME ToldInv, UNCHANGED <<log, trees>>, StateTold(log, cursor'.seq, cursor'.trees), NEW p \in Procs,
           WorkTold(log, work'[p]), \A q \in Procs \ {p} : work'[q] = work[q]
    PROVE  ToldInv'
BY DEF ToldInv

LEMMA ToldEnd ==
    ASSUME Types, ToldInv, NEW p \in Procs, End(p), UNCHANGED <<log, trees>>, StateTold(log, cursor'.seq, cursor'.trees)
    PROVE  ToldInv'
<1>1. WorkTold(log, Idle)
  BY DEF WorkTold, Idle
<1>2. QED  BY <1>1, EndTyped, ToldOn

LEMMA ToldGo ==
    ASSUME Types, ToldInv, NEW p \in Procs, NEW x, work' = [work EXCEPT ![p] = x], WorkTold(log, x),
           UNCHANGED <<log, trees>>, StateTold(log, cursor'.seq, cursor'.trees)
    PROVE  ToldInv'
BY WorkSet, ToldOn

LEMMA ToldStep ==
    ASSUME GraphInv, ToldInv, [Next]_vars
    PROVE  ToldInv'
<1>1. Types
  BY GraphTypes
<1>2. \A p \in Procs : WorkTyped(work[p], Len(log)) /\ WorkTold(log, work[p])
  BY <1>1 DEF ToldInv, Types
<1>3. log \in Seq(Change) /\ Len(log) \in Nat /\ CursorTyped(cursor, Len(log)) /\ StateTold(log, cursor.seq, cursor.trees)
  BY <1>1 DEF ToldInv, Types, StoreTyped
<1>4. CASE StoreStep
  <2>1. UNCHANGED <<cursor, work>>
    BY <1>4, StoreFrame
  <2>2. \A k \in Keys : TreeTold(log', trees', k)
    BY <1>1, <1>4, TreesTold DEF ToldInv
  <2>3. CASE log' = log
    BY <1>2, <1>3, <2>1, <2>2, <2>3 DEF ToldInv
  <2>4. CASE \E ch : log' = Append(log, ch)
    <3>1. PICK ch : log' = Append(log, ch)
      BY <2>4
    <3>2. StateTold(log', cursor.seq, cursor.trees)
      BY <1>1, <1>3, <3>1, StateToldLater DEF CursorTyped
    <3>3. \A p \in Procs : WorkTold(log', work[p])
      BY <1>1, <1>2, <3>1, StateToldLater DEF WorkTold, WorkTyped
    <3>4. QED  BY <2>1, <2>2, <3>2, <3>3 DEF ToldInv
  <2>5. QED  BY <1>1, <1>4, <2>3, <2>4, Logged
<1>5. CASE Lapse \/ UNCHANGED vars
  BY <1>5 DEF Lapse, vars, ToldInv
<1>6. ASSUME NEW p \in Procs, NEW kind \in Does[p], Acquire(p, kind) PROVE ToldInv'
  <2>   DEFINE x == [pc |-> "fetch", kind |-> kind, seq |-> cursor.seq, state |-> cursor.trees,
                     first |-> TRUE, clean |-> TRUE, prev |-> NoPlan, cache |-> NoPlan]
  <2>1. work' = [work EXCEPT ![p] = x] /\ UNCHANGED <<log, trees, cursor>>
    BY <1>6 DEF Acquire
  <2>2. WorkTold(log, x)
    BY <1>3 DEF WorkTold
  <2>   HIDE DEF x
  <2>3. QED  BY <1>1, <1>3, <2>1, <2>2, ToldGo
<1>7. ASSUME NEW p \in Procs, Fetch(p) PROVE ToldInv'
  <2>1. UNCHANGED <<log, trees, cursor>> /\ work[p].pc = "fetch"
    BY <1>7, FetchIs
  <2>2. CASE End(p)
    BY <1>1, <1>3, <2>1, <2>2, ToldEnd
  <2>3. CASE work' = [work EXCEPT ![p] = PurgeWork]
    <3>1. WorkTold(log, PurgeWork)
      BY DEF WorkTold, PurgeWork, StateTold, NoPlan
    <3>2. QED  BY <1>1, <1>3, <2>1, <2>3, <3>1, ToldGo
  <2>4. CASE work' = [work EXCEPT ![p] = PlanWork(work[p])]
    <3>   DEFINE w == work[p]
    <3>1. w.seq \in 0 .. Len(log) /\ IsState(w.state) /\ StateTold(log, w.seq, w.state)
      BY <1>2, <2>1 DEF WorkTyped, WorkTold
    <3>2. To(w) \in 0 .. Len(log) /\ w.seq <= To(w)
      BY <1>1, <3>1, ToTyped
    <3>3. StateTold(log, To(w), Replayed(w.state, w.seq, To(w)))
      BY <1>3, <3>1, <3>2, ReplayedTold
    <3>4. WorkTold(log, PlanWork(w))
      BY <3>3 DEF WorkTold, PlanWork
    <3>5. QED  BY <1>1, <1>3, <2>1, <2>4, <3>4, ToldGo
  <2>5. QED  BY <1>7, <2>2, <2>3, <2>4, FetchIs
<1>8. ASSUME NEW p \in Procs, Plan(p) PROVE ToldInv'
  <2>1. UNCHANGED <<log, trees, cursor>> /\ work[p].pc = "plan"
    BY <1>8, PlanIs
  <2>2. CASE End(p)
    BY <1>1, <1>3, <2>1, <2>2, ToldEnd
  <2>3. CASE work' = [work EXCEPT ![p] = BatchWork(work[p])]
    <3>1. WorkTold(log, BatchWork(work[p]))
      BY <1>2, <2>1 DEF WorkTold, BatchWork
    <3>2. QED  BY <1>1, <1>3, <2>1, <2>3, <3>1, ToldGo
  <2>4. QED  BY <1>8, <2>2, <2>3, PlanIs
<1>9. ASSUME NEW p \in Procs, Write(p) PROVE ToldInv'
  <2>1. UNCHANGED <<log, trees, cursor>>
    BY <1>1, <1>9, WriteIs
  <2>2. WorkTold(log, work'[p])
    <3>1. PICK left : work'[p] = [work[p] EXCEPT !.ops = left]
      BY <1>1, <1>9, WriteIs
    <3>2. work[p].pc = "write"
      BY <1>1, <1>9, WriteIs
    <3>3. work'[p].pc = work[p].pc /\ work'[p].seq = work[p].seq /\ work'[p].state = work[p].state
      BY <1>2, <3>1, <3>2, CallDone
    <3>4. QED  BY <1>2, <3>3 DEF WorkTold
  <2>3. ASSUME NEW q \in Procs, q # p PROVE WorkTold(log, work'[q])
    <3>1. work'[q] = IF work[q].pc # "idle" THEN [work[q] EXCEPT !.clean = FALSE] ELSE work[q]
      BY <1>1, <1>9, <2>3, WriteIs
    <3>2. CASE work[q].pc # "idle"
      <4>1. work'[q] = [work[q] EXCEPT !.clean = FALSE]
        BY <3>1, <3>2
      <4>2. work'[q].pc = work[q].pc /\ work'[q].seq = work[q].seq /\ work'[q].state = work[q].state
        BY <1>2, <3>2, <4>1, Uncleaned
      <4>3. QED  BY <1>2, <4>2 DEF WorkTold
    <3>3. CASE work[q].pc = "idle"
      BY <1>2, <3>1, <3>3
    <3>4. QED  BY <3>2, <3>3
  <2>4. QED  BY <1>3, <2>1, <2>2, <2>3 DEF ToldInv
<1>10. ASSUME NEW p \in Procs, Save(p) PROVE ToldInv'
  <2>1. UNCHANGED <<log, trees>> /\ work[p].pc = "write" /\ cursor' = [seq |-> work[p].seq, trees |-> work[p].state]
    BY <1>10, SaveIs
  <2>2. StateTold(log, work[p].seq, work[p].state)
    BY <1>2, <2>1 DEF WorkTold
  <2>3. StateTold(log, cursor'.seq, cursor'.trees)
    BY <2>1, <2>2
  <2>4. CASE End(p)
    BY <1>1, <2>1, <2>3, <2>4, ToldEnd
  <2>5. CASE work' = [work EXCEPT ![p] = FetchWork(work[p])]
    <3>1. WorkTold(log, FetchWork(work[p]))
      BY <2>2 DEF WorkTold, FetchWork
    <3>2. QED  BY <1>1, <2>1, <2>3, <2>5, <3>1, ToldGo
  <2>6. QED  BY <1>10, <2>4, <2>5, SaveIs
<1>11. ASSUME NEW p \in Procs, Repaired(p) \/ Fail(p) \/ Stop(p) PROVE ToldInv'
  <2>1. End(p) /\ UNCHANGED <<log, trees, cursor>>
    BY <1>11 DEF Repaired, Fail, Stop
  <2>2. QED  BY <1>1, <1>3, <2>1, ToldEnd
<1>12. ASSUME NEW p \in Procs, Purged(p) PROVE ToldInv'
  <2>1. work' = [work EXCEPT ![p] = Idle] /\ UNCHANGED <<trees, log>> /\ cursor' = NoCursor
    BY <1>12 DEF Purged
  <2>2. WorkTold(log, Idle) /\ StateTold(log, cursor'.seq, cursor'.trees)
    BY <2>1 DEF WorkTold, Idle, StateTold, NoCursor, NoPlan
  <2>3. QED  BY <1>1, <2>1, <2>2, ToldGo
<1>13. QED  BY <1>4, <1>5, <1>6, <1>7, <1>8, <1>9, <1>10, <1>11, <1>12, StepKinds

-----------------------------------------------------------------------------
(* What a selection of checkouts has of a file that was pushed.             *)
AreCheckouts(t) ==
    \A k \in Live(t) : \E c \in Checkouts[k] : c.up = t[k].up /\ c.head = t[k].head /\ c.entries = t[k].entries

AreNumbered(t) == \A k \in DOMAIN t : t[k].seq \in Nat /\ t[k].upSeq \in Nat

(* Trees that were pushed to one commit of a branch.                        *)
SameCommit(t, j, k) == j[2] = k[2] /\ PushedCommit(t, j) = PushedCommit(t, k) /\ PushedCommit(t, k) # 0

LEMMA CheckoutsAgree ==
    ASSUME NEW t, IsReading(t), AreCheckouts(t), NEW j \in Live(t), NEW k \in Live(t), SameCommit(t, j, k),
           NEW p, Tells(t[k], p)
    PROVE  /\ Tells(t[j], p) => t[j].entries[p].oid = t[k].entries[p].oid
           /\ IsGitHub(j) => Tells(t[j], p)
<1>1. j \in Keys /\ k \in Keys
  BY DEF IsReading, Live
<1>2. PICK c \in Checkouts[j] : c.up = t[j].up /\ c.head = t[j].head /\ c.entries = t[j].entries
  BY DEF AreCheckouts
<1>3. PICK d \in Checkouts[k] : d.up = t[k].up /\ d.head = t[k].head /\ d.entries = t[k].entries
  BY DEF AreCheckouts
<1>4. CommitOf(j, c) = PushedCommit(t, j) /\ CommitOf(k, d) = PushedCommit(t, k)
  BY <1>2, <1>3 DEF CommitOf, PushedCommit
<1>5. \A q : (Tells(c, q) <=> Tells(t[j], q)) /\ (Tells(d, q) <=> Tells(t[k], q))
  BY <1>2, <1>3 DEF Tells
<1>6. p \in DOMAIN d.entries /\ Tells(d, p)
  BY <1>5 DEF Tells
<1>7. /\ Tells(c, p) => c.entries[p].oid = d.entries[p].oid
      /\ IsGitHub(j) => Tells(c, p)
  BY <1>1, <1>4, <1>6, CheckoutAssumption DEF SameCommit
<1>8. QED  BY <1>2, <1>3, <1>5, <1>7

LEMMA CleanTells ==
    ASSUME NEW t, IsReading(t), AreCheckouts(t), NEW k \in Live(t), NEW p \in DOMAIN t[k].entries,
           ~ t[k].entries[p].dirty, ~ t[k].entries[p].unpushed
    PROVE  Tells(t[k], p)
<1>1. k \in Keys
  BY DEF IsReading, Live
<1>2. PICK c \in Checkouts[k] : c.entries = t[k].entries
  BY DEF AreCheckouts
<1>3. c.entries[p].oid # 0
  BY <1>1, <1>2, CheckoutAssumption
<1>4. QED  BY <1>2, <1>3 DEF Tells

(* Nothing to vote on where all agree.                                      *)
LEMMA ReportsIs ==
    ASSUME NEW t, NEW src, NEW p
    PROVE  Reports(t, src, p) = {j \in src : Tells(t[j], p)}
BY DEF Reports, Has, Tells

LEMMA PushedIs ==
    ASSUME NEW t, IsReading(t), AreCheckouts(t), NEW src, src \subseteq Live(t), NEW k \in Live(t),
           \A j \in src : SameCommit(t, j, k), k \in src \/ \E j \in src : IsGitHub(j),
           NEW p, Tells(t[k], p)
    PROVE  /\ PushedState(t, src, p) = "present"
           /\ PushedFile(t, src, p).oid = t[k].entries[p].oid /\ ~ PushedFile(t, src, p).del
<1>   DEFINE pushed == Reports(t, src, p)
             oid == t[k].entries[p].oid
<1>1. pushed # {}
  BY CheckoutsAgree, ReportsIs
<1>2. \A j \in pushed : t[j].entries[p].oid = oid
  BY CheckoutsAgree, ReportsIs
<1>3. {t[j].entries[p].oid : j \in pushed} = {oid}
  BY <1>1, <1>2
<1>4. oid \in Nat
  BY DEF IsReading, IsTree, Live, Tells, Entry
<1>5. PushedState(t, src, p) = "present"
  BY <1>1 DEF PushedState
<1>   HIDE DEF oid
<1>6. ArgMax({oid}, LAMBDA o : Cardinality({j \in pushed : t[j].entries[p].oid = o})) = oid
  BY <1>4 DEF ArgMax
<1>   HIDE DEF pushed
<1>7. PushedFile(t, src, p).oid = oid /\ PushedFile(t, src, p).del = FALSE
  BY <1>3, <1>6 DEF PushedFile, pushed
<1>8. QED  BY <1>5, <1>7 DEF oid

(* The sources of the base are on one commit of the default branch.         *)
Candidates(t) ==
    LET pushed == {k \in Live(t) : DefaultOf(t) # 0 /\ k[2] = DefaultOf(t) /\ PushedCommit(t, k) # 0}
    IN  IF \E k \in pushed : IsGitHub(k) THEN {k \in pushed : IsGitHub(k)} ELSE pushed

Newest(t, b) == b \in Candidates(t) /\ \A j \in Candidates(t) \ {b} : Newer(t, b, j)

LEMMA SourcesOf ==
    ASSUME NEW t
    PROVE  Sources(t) = {k \in Candidates(t) : \E b : /\ Newest(t, b)
                                                      /\ IF IsGitHub(b) THEN k = b
                                                         ELSE PushedCommit(t, k) = PushedCommit(t, b)}
BY DEF Sources, BaseSources, Candidates, Newest

LEMMA CandidateOf ==
    ASSUME NEW t, NEW k
    PROVE  /\ k \in Candidates(t) => k \in Live(t) /\ DefaultOf(t) # 0 /\ k[2] = DefaultOf(t) /\ PushedCommit(t, k) # 0
           /\ k \in Live(t) /\ DefaultOf(t) # 0 /\ k[2] = DefaultOf(t) /\ PushedCommit(t, k) # 0
                 => k \in Candidates(t) \/ \A j \in Candidates(t) : IsGitHub(j)
BY DEF Candidates

LEMMA OneNewest ==
    ASSUME NEW t, IsReading(t), AreNumbered(t), NEW b, Newest(t, b), NEW c, Newest(t, c)
    PROVE  b = c
<1>1. b \in DOMAIN t /\ c \in DOMAIN t /\ b[2] = c[2]
  BY CandidateOf DEF Newest, Live
<1>2. b \in Worktrees \X Refs /\ c \in Worktrees \X Refs
  BY <1>1, CodeIndexAssumption DEF IsReading
<1>3. b[1] \in Nat /\ c[1] \in Nat
  BY <1>2, CheckoutAssumption
<1>4. b[1] = c[1] => b = c
  BY <1>1, <1>2
<1>5. t[b].seq \in Nat /\ t[b].upSeq \in Nat /\ t[c].seq \in Nat /\ t[c].upSeq \in Nat
  BY <1>1 DEF AreNumbered
<1>6. SUFFICES ASSUME b # c PROVE FALSE
  OBVIOUS
<1>7. Newer(t, b, c) /\ Newer(t, c, b)
  BY <1>6 DEF Newest
<1>8. QED  BY <1>3, <1>5, <1>7 DEF Newer

LEMMA SourcesAgree ==
    ASSUME NEW t, IsReading(t), AreNumbered(t), NEW s \in Sources(t)
    PROVE  /\ s \in Live(t) /\ DefaultOf(t) # 0 /\ s[2] = DefaultOf(t) /\ PushedCommit(t, s) # 0
           /\ \A r \in Sources(t) : SameCommit(t, r, s)
           /\ \A k \in Live(t) : SameCommit(t, k, s) => k \in Sources(t) \/ \E g \in Sources(t) : IsGitHub(g)
<1>1. \A r \in Sources(t) : r \in Candidates(t)
  BY SourcesOf
<1>2. PICK b : Newest(t, b) /\ IF IsGitHub(b) THEN s = b ELSE PushedCommit(t, s) = PushedCommit(t, b)
  BY SourcesOf
<1>3. s \in Live(t) /\ DefaultOf(t) # 0 /\ s[2] = DefaultOf(t) /\ PushedCommit(t, s) # 0
  BY <1>1, CandidateOf
<1>4. ASSUME NEW r \in Sources(t) PROVE SameCommit(t, r, s)
  <2>1. PICK c : Newest(t, c) /\ IF IsGitHub(c) THEN r = c ELSE PushedCommit(t, r) = PushedCommit(t, c)
    BY SourcesOf
  <2>2. c = b
    BY <1>2, <2>1, OneNewest
  <2>3. PushedCommit(t, r) = PushedCommit(t, s)
    BY <1>2, <2>1, <2>2
  <2>4. r[2] = s[2]
    BY <1>1, <1>3, CandidateOf
  <2>5. QED  BY <1>3, <2>3, <2>4 DEF SameCommit
<1>5. ASSUME NEW k \in Live(t), SameCommit(t, k, s), ~ \E g \in Sources(t) : IsGitHub(g) PROVE k \in Sources(t)
  <2>1. ~ IsGitHub(b)
    BY <1>2, <1>5
  <2>2. b \in Candidates(t)
    BY <1>2 DEF Newest
  <2>3. k \in Candidates(t)
    BY <1>3, <1>5, <2>1, <2>2, CandidateOf DEF SameCommit
  <2>4. PushedCommit(t, k) = PushedCommit(t, b)
    BY <1>2, <1>5, <2>1 DEF SameCommit
  <2>5. QED  BY <1>2, <2>1, <2>3, <2>4, SourcesOf
<1>6. QED  BY <1>3, <1>4, <1>5

(* The overlay of a checkout lies on the commit it was pushed to.           *)
OnCommit(t, k) ==
    k \in Pushed(t) \/ (Sources(t) # {} /\ PushedCommit(t, CHOOSE s \in Sources(t) : TRUE) = t[k].up)

(* There, what is clean in the checkout is as it is below.                  *)
LEMMA CleanIsBelow ==
    ASSUME NEW t, IsReading(t), AreCheckouts(t), AreNumbered(t), NEW k \in Clients(t), OnCommit(t, k),
           NEW p \in DOMAIN t[k].entries, ~ t[k].entries[p].dirty, ~ t[k].entries[p].unpushed
    PROVE  p \in DOMAIN Below(t, k) /\ Below(t, k)[p].oid = t[k].entries[p].oid
<1>1. k \in Live(t) /\ ~ IsGitHub(k)
  BY DEF Clients
<1>2. Tells(t[k], p)
  BY <1>1, CleanTells
<1>3. p \in Paths
  BY <1>1 DEF IsReading, IsTree, Live
<1>4. CASE k \in Pushed(t)
  <2>   DEFINE l == On(t, k)
               src == Group(t, l)
               base == BaseOf(t)
               file == PushedFile(t, src, p)
               upper == BranchOf(t, l)
  <2>1. \A j \in src : j \in Pushed(t) /\ On(t, j) = l
    BY DEF Group
  <2>2. k \in src \/ \E j \in src : IsGitHub(j)
    BY <1>4 DEF Group
  <2>3. src \subseteq Live(t)
    BY <2>1 DEF Pushed
  <2>4. \A j \in src : SameCommit(t, j, k)
    BY <1>4, <2>1 DEF SameCommit, On, BranchLayerID, Pushed
  <2>   HIDE DEF src
  <2>5. PushedState(t, src, p) = "present" /\ file.oid = t[k].entries[p].oid /\ ~ file.del
    BY <1>1, <1>2, <2>2, <2>3, <2>4, PushedIs
  <2>   HIDE DEF file, l, base
  <2>   DEFINE new  == {q \in Paths : /\ PushedState(t, src, q) = "present"
                                      /\ q \in DOMAIN base => base[q].oid # PushedFile(t, src, q).oid}
               gone == {q \in DOMAIN base : PushedState(t, src, q) = "absent"}
  <2>6. upper = [q \in new \cup gone |-> IF q \in new THEN PushedFile(t, src, q) ELSE Tomb]
    BY DEF BranchOf, BranchFiles, base, src
  <2>7. Below(t, k) = Stack(base, upper)
    BY <1>4 DEF Below, base, l
  <2>8. p \notin gone /\ (p \in new <=> (p \in DOMAIN base => base[p].oid # file.oid))
    BY <1>3, <2>5 DEF file
  <2>   HIDE DEF new, gone
  <2>9. CASE p \in new
    <3>1. p \in DOMAIN upper /\ upper[p] = file
      BY <2>6, <2>9 DEF file
    <3>   HIDE DEF upper
    <3>2. QED  BY <2>5, <2>7, <3>1 DEF Stack
  <2>10. CASE p \notin new
    <3>1. p \notin DOMAIN upper
      BY <2>6, <2>8, <2>10
    <3>   HIDE DEF upper
    <3>2. p \in DOMAIN base /\ base[p].oid = file.oid
      BY <2>8, <2>10
    <3>3. QED  BY <2>5, <2>7, <3>1, <3>2 DEF Stack
  <2>11. QED  BY <2>9, <2>10
<1>5. CASE k \notin Pushed(t)
  <2>   DEFINE src == Sources(t)
               s == CHOOSE x \in src : TRUE
  <2>1. s \in src /\ PushedCommit(t, s) = t[k].up
    BY <1>5 DEF OnCommit
  <2>   HIDE DEF s
  <2>2. s \in Live(t) /\ DefaultOf(t) # 0 /\ s[2] = DefaultOf(t) /\ PushedCommit(t, s) # 0
    BY <2>1, SourcesAgree
  <2>3. PushedCommit(t, k) = PushedCommit(t, s)
    BY <2>1, <2>2 DEF PushedCommit
  <2>4. k[2] = s[2]
    BY <1>1, <1>5, <2>2, <2>3 DEF Pushed
  <2>5. SameCommit(t, k, s)
    BY <2>2, <2>3, <2>4 DEF SameCommit
  <2>6. k \in src \/ \E j \in src : IsGitHub(j)
    BY <1>1, <2>1, <2>5, SourcesAgree
  <2>7. \A j \in src : j \in Live(t) /\ SameCommit(t, j, k)
    <3>1. SUFFICES ASSUME NEW j \in src PROVE j \in Live(t) /\ SameCommit(t, j, k)
      OBVIOUS
    <3>2. j \in Live(t) /\ SameCommit(t, j, s)
      BY <2>1, SourcesAgree
    <3>3. QED  BY <2>5, <3>2 DEF SameCommit
  <2>   HIDE DEF src
  <2>8. src \subseteq Live(t)
    BY <2>7
  <2>9. PushedState(t, src, p) = "present" /\ PushedFile(t, src, p).oid = t[k].entries[p].oid
    BY <1>1, <1>2, <2>6, <2>7, <2>8, PushedIs
  <2>10. Below(t, k) = BaseFiles(t, src)
    BY <1>5 DEF Below, BaseOf, src
  <2>11. QED  BY <1>3, <2>9, <2>10 DEF BaseFiles
<1>6. QED  BY <1>4, <1>5

-----------------------------------------------------------------------------
(* What a view shows.                                                       *)
ParentOf(plan, m) == IF m \in DOMAIN plan /\ plan[m].parent \in DOMAIN plan THEN {plan[m].parent} ELSE {}

LEMMA AncestorsIs ==
    ASSUME NEW plan, NEW l
    PROVE  Ancestors(plan, l) = ParentOf(plan, l) \cup (UNION {ParentOf(plan, m) : m \in ParentOf(plan, l)})
BY DEF Ancestors, ParentOf

LEMMA VisibleIs ==
    ASSUME NEW g, IsGraph(g), Exact(g), NEW plan, plan = PlanFromGraph(g), NEW l, NEW p
    PROVE  /\ Ancestors(g, l) = Ancestors(plan, l)
           /\ \A V, m : m \in Visible(g, V, p) <=>
                /\ m \in V /\ Holds(plan, m, p) /\ ~ plan[m].files[p].del
                /\ \A h \in V : ~ (m \in Ancestors(plan, h) /\ Holds(plan, h, p))
           /\ \A m : Holds(plan, m, p) => /\ m \in DOMAIN plan /\ p \in DOMAIN plan[m].files
                                          /\ g[m].files[p].oid = plan[m].files[p].oid
                                          /\ g[m].files[p].sha = plan[m].files[p].sha
<1>1. /\ IsPlan(plan) /\ DOMAIN plan = DOMAIN g
      /\ \A m \in DOMAIN g : /\ Node(plan[m]) = Node(g[m])
                             /\ DOMAIN plan[m].files = DOMAIN g[m].files
                             /\ \A q \in DOMAIN g[m].files : plan[m].files[q] = Bare(g[m].files[q])
  BY GraphPlan
<1>2. \A m \in DOMAIN g : plan[m].parent = g[m].parent
  BY <1>1 DEF Node
<1>3. \A m : ParentOf(g, m) = ParentOf(plan, m)
  BY <1>1, <1>2 DEF ParentOf
<1>4. Ancestors(g, l) = Ancestors(plan, l)
  BY <1>3, AncestorsIs
<1>5. \A m, q : Holds(plan, m, q) <=> m \in DOMAIN g /\ q \in DOMAIN g[m].files
  BY <1>1, HoldsIs
<1>6. \A m : Holds(plan, m, p) => /\ m \in DOMAIN plan /\ p \in DOMAIN plan[m].files
                                  /\ plan[m].files[p] = Bare(g[m].files[p])
  BY <1>1, <1>5
<1>7. \A m : Holds(plan, m, p) => /\ g[m].files[p].oid = plan[m].files[p].oid
                                  /\ g[m].files[p].sha = plan[m].files[p].sha
                                  /\ g[m].files[p].del = plan[m].files[p].del
  <2>1. \A f : Bare(f).oid = f.oid /\ Bare(f).sha = f.sha /\ Bare(f).del = f.del
    BY DEF Bare
  <2>2. QED  BY <1>6, <2>1
<1>8. \A m : Holds(plan, m, p) => g[m].files[p].by = HiddenBy(plan, m, p)
  BY <1>5 DEF Exact
<1>9. \A h, m : h \in HiddenBy(plan, m, p) <=> m \in Ancestors(plan, h) /\ Holds(plan, h, p)
  BY <1>5, <1>1 DEF HiddenBy
<1>10. ASSUME NEW V, NEW m
       PROVE  m \in Visible(g, V, p) <=>
                /\ m \in V /\ Holds(plan, m, p) /\ ~ plan[m].files[p].del
                /\ \A h \in V : ~ (m \in Ancestors(plan, h) /\ Holds(plan, h, p))
  <2>1. m \in Visible(g, V, p) <=> m \in V /\ Holds(plan, m, p) /\ ~ g[m].files[p].del /\ g[m].files[p].by \cap V = {}
    BY <1>5 DEF Visible
  <2>2. Holds(plan, m, p) =>
          (g[m].files[p].by \cap V = {} <=> \A h \in V : ~ (m \in Ancestors(plan, h) /\ Holds(plan, h, p)))
    <3>1. SUFFICES ASSUME Holds(plan, m, p)
                   PROVE  g[m].files[p].by \cap V = {} <=> \A h \in V : ~ (m \in Ancestors(plan, h) /\ Holds(plan, h, p))
      OBVIOUS
    <3>2. g[m].files[p].by = HiddenBy(plan, m, p)
      BY <1>8, <3>1
    <3>3. QED  BY <1>9, <3>2
  <2>3. QED  BY <1>7, <2>1, <2>2
<1>11. QED  BY <1>4, <1>6, <1>7, <1>10

LEMMA ShownIs ==
    ASSUME NEW g, IsGraph(g), Exact(g), NEW plan, plan = PlanFromGraph(g), NEW p, NEW V
    PROVE  \A m : m \in Visible(g, V, p) <=>
                /\ m \in V /\ Holds(plan, m, p) /\ ~ plan[m].files[p].del
                /\ \A h \in V : ~ (m \in Ancestors(plan, h) /\ Holds(plan, h, p))
BY VisibleIs

(* The layers below an overlay.                                             *)
Bases(t) == IF Sources(t) = {} THEN {} ELSE {Base}

Under(t, k) == (IF k \in Pushed(t) THEN {On(t, k)} ELSE {}) \cup Bases(t)

(* A plan is the selection, but for some overlays without files.            *)
Chosen(plan, t) ==
    /\ DOMAIN plan \subseteq Layers(t)
    /\ \A m \in DOMAIN plan : plan[m] = Select(t)[m]
    /\ \A m \in Layers(t) : m[1] # "wt" => m \in DOMAIN plan

LEMMA ChosenIs ==
    ASSUME NEW t, IsReading(t), NEW I
    PROVE  Chosen(DropIdleOverlays(Select(t), I), t)
<1>1. DOMAIN Select(t) = Layers(t)
  BY SelectOK
<1>2. QED  BY <1>1 DEF Chosen, DropIdleOverlays

LEMMA ChosenLayers ==
    ASSUME NEW t, IsReading(t), NEW plan, Chosen(plan, t)
    PROVE  /\ <<>> \notin DOMAIN plan
           /\ Sources(t) # {} <=> Base \in DOMAIN plan
           /\ Base \in DOMAIN plan => plan[Base] = BaseLayer(t)
           /\ \A k \in Pushed(t) : /\ On(t, k) \in DOMAIN plan /\ On(t, k) # Base
                                   /\ plan[On(t, k)] = BranchLayer(t, On(t, k))
           /\ \A k \in Clients(t) : /\ WorktreeLayerID(k) # Base /\ \A j \in Pushed(t) : WorktreeLayerID(k) # On(t, j)
                                    /\ WorktreeLayerID(k) \in DOMAIN plan =>
                                          plan[WorktreeLayerID(k)] = Overlay(t, k, WorktreeLayerID(k))
<1>1. <<>> \notin Layers(t)
  BY DEF Layers, Base, Branches, On, BranchLayerID, WorktreeLayerID
<1>2. Sources(t) # {} <=> Base \in Layers(t)
  BY DEF Layers, Branches, On, BranchLayerID, WorktreeLayerID, Base
<1>3. Base[1] # "wt" /\ (Base \in DOMAIN plan => Base \in Layers(t) /\ plan[Base] = BaseLayer(t))
  BY SelectIs DEF Chosen, Base
<1>4. ASSUME NEW k \in Pushed(t)
      PROVE  On(t, k) \in DOMAIN plan /\ On(t, k) # Base /\ plan[On(t, k)] = BranchLayer(t, On(t, k))
  <2>1. On(t, k) \in Layers(t) /\ On(t, k)[1] = "branch" /\ On(t, k) # Base
    BY DEF Layers, Branches, On, BranchLayerID, Base
  <2>2. On(t, k) \in DOMAIN plan
    BY <2>1 DEF Chosen
  <2>3. QED  BY <2>1, <2>2, SelectIs DEF Chosen
<1>5. ASSUME NEW k \in Clients(t)
      PROVE  /\ WorktreeLayerID(k) # Base /\ \A j \in Pushed(t) : WorktreeLayerID(k) # On(t, j)
             /\ WorktreeLayerID(k) \in DOMAIN plan => plan[WorktreeLayerID(k)] = Overlay(t, k, WorktreeLayerID(k))
  <2>   DEFINE l == WorktreeLayerID(k)
  <2>1. l[1] = "wt" /\ l[2] = k[1] /\ l[3] = k[2] /\ l # Base
    BY DEF WorktreeLayerID, Base
  <2>2. \A j : On(t, j)[1] = "branch"
    BY DEF On, BranchLayerID
  <2>3. k \in Worktrees \X Refs
    BY CodeIndexAssumption DEF IsReading, Clients, Live
  <2>4. k = <<l[2], l[3]>>
    BY <2>1, <2>3
  <2>5. l \in Layers(t) => Select(t)[l] = Overlay(t, k, l)
    BY <2>1, <2>4, SelectIs
  <2>6. QED  BY <2>1, <2>2, <2>5 DEF Chosen
<1>6. QED  BY <1>1, <1>2, <1>3, <1>4, <1>5 DEF Chosen

LEMMA UnderIs ==
    ASSUME NEW t, IsReading(t), NEW plan, Chosen(plan, t), NEW k \in Clients(t), WorktreeLayerID(k) \in DOMAIN plan
    PROVE  /\ Ancestors(plan, WorktreeLayerID(k)) = Under(t, k)
           /\ k \in Pushed(t) => Ancestors(plan, On(t, k)) = Bases(t)
           /\ Ancestors(plan, Base) = {}
           /\ \A m \in Bases(t) : m = Base
<1>   DEFINE l == WorktreeLayerID(k)
<1>a. Base \in DOMAIN plan => plan[Base].parent = <<>>
  <2>1. BaseLayer(t).parent = <<>>
    BY DEF BaseLayer
  <2>2. QED  BY <2>1, ChosenLayers
<1>b. k \in Pushed(t) => On(t, k) \in DOMAIN plan /\ plan[On(t, k)].parent = Bottom(t)
  <2>1. BranchLayer(t, On(t, k)).parent = Bottom(t)
    BY DEF BranchLayer
  <2>2. QED  BY <2>1, ChosenLayers
<1>c. plan[l].parent = IF k \in Pushed(t) THEN On(t, k) ELSE Bottom(t)
  <2>1. Overlay(t, k, l).parent = IF k \in Pushed(t) THEN On(t, k) ELSE Bottom(t)
    BY DEF Overlay
  <2>2. QED  BY <2>1, ChosenLayers
<1>d. <<>> \notin DOMAIN plan
  BY ChosenLayers
<1>1. ParentOf(plan, Base) = {}
  BY <1>a, <1>d DEF ParentOf
<1>2. (IF Bottom(t) \in DOMAIN plan THEN {Bottom(t)} ELSE {}) = Bases(t)
  BY ChosenLayers DEF Bottom, Bases
<1>3. k \in Pushed(t) => ParentOf(plan, On(t, k)) = Bases(t)
  BY <1>b, <1>2 DEF ParentOf
<1>4. ParentOf(plan, l) = IF k \in Pushed(t) THEN {On(t, k)} ELSE Bases(t)
  BY <1>b, <1>c, <1>2 DEF ParentOf
<1>5. \A m \in Bases(t) : m = Base
  BY DEF Bases
<1>6. UNION {ParentOf(plan, m) : m \in Bases(t)} = {}
  BY <1>1, <1>5
<1>7. Ancestors(plan, Base) = {}
  BY <1>1, AncestorsIs
<1>8. k \in Pushed(t) => Ancestors(plan, On(t, k)) = Bases(t)
  BY <1>3, <1>6, AncestorsIs
<1>   HIDE DEF l
<1>9. Ancestors(plan, l) = Under(t, k)
  BY <1>3, <1>4, <1>6, AncestorsIs DEF Under
<1>10. QED  BY <1>5, <1>7, <1>8, <1>9 DEF l

(* No tombstones in the base, and nothing without sources.                  *)
LEMMA BaseFilesPlain ==
    ASSUME NEW t
    PROVE  /\ \A p \in DOMAIN BaseOf(t) : ~ BaseOf(t)[p].del
           /\ Sources(t) = {} => DOMAIN BaseOf(t) = {}
<1>1. \A src, p : PushedFile(t, src, p).del = FALSE
  BY DEF PushedFile
<1>2. \A p \in DOMAIN BaseOf(t) : ~ BaseOf(t)[p].del
  BY <1>1 DEF BaseOf, BaseFiles
<1>3. ASSUME NEW p PROVE PushedState(t, {}, p) = "absent"
  BY DEF PushedState, Reports
<1>4. Sources(t) = {} => DOMAIN BaseOf(t) = {}
  BY <1>3 DEF BaseOf, BaseFiles
<1>5. QED  BY <1>2, <1>4

(* What a view that begins at an overlay shows of a path that the overlay   *)
(* does not have: what lies below.                                          *)
LEMMA BelowShows ==
    ASSUME NEW t, IsReading(t), NEW g, IsGraph(g), Exact(g), NEW plan, plan = PlanFromGraph(g), Chosen(plan, t),
           NEW k \in Clients(t), NEW l, l = WorktreeLayerID(k), l \in DOMAIN plan,
           NEW p, ~ Holds(plan, l, p), NEW shown, shown = Visible(g, View(g, l), p)
    PROVE  /\ p \notin DOMAIN Below(t, k) => shown = {}
           /\ p \in DOMAIN Below(t, k) => \E m \in shown : /\ shown = {m} /\ m # l
                                                           /\ g[m].files[p].oid = Below(t, k)[p].oid
<1>   DEFINE V == {l} \cup Under(t, k)
             on == On(t, k)
             base == BaseOf(t)
             upper == BranchOf(t, on)
<1>1. /\ Ancestors(plan, l) = Under(t, k)
      /\ k \in Pushed(t) => Ancestors(plan, on) = Bases(t)
      /\ Ancestors(plan, Base) = {}
      /\ \A m \in Bases(t) : m = Base
  BY UnderIs
<1>2. View(g, l) = V
  BY <1>1, VisibleIs DEF View
<1>x. shown = Visible(g, V, p)
  BY <1>2
<1>   HIDE DEF V
<1>3. \A m : m \in shown <=> /\ m \in V /\ Holds(plan, m, p) /\ ~ plan[m].files[p].del
                             /\ \A h \in V : ~ (m \in Ancestors(plan, h) /\ Holds(plan, h, p))
  <2>1. \A m : m \in Visible(g, V, p) <=>
                /\ m \in V /\ Holds(plan, m, p) /\ ~ plan[m].files[p].del
                /\ \A h \in V : ~ (m \in Ancestors(plan, h) /\ Holds(plan, h, p))
    BY ShownIs
  <2>2. QED  BY <1>x, <2>1
<1>4. \A m : Holds(plan, m, p) => g[m].files[p].oid = plan[m].files[p].oid
  BY VisibleIs
<1>5. l # Base /\ (k \in Pushed(t) => l # on /\ on # Base /\ on \in DOMAIN plan /\ plan[on] = BranchLayer(t, on))
  BY ChosenLayers
<1>6. Bases(t) # {} => Base \in DOMAIN plan /\ plan[Base] = BaseLayer(t)
  BY ChosenLayers DEF Bases
<1>7. /\ \A q \in DOMAIN base : ~ base[q].del
      /\ p \in DOMAIN base => Bases(t) = {Base}
  BY BaseFilesPlain DEF Bases
<1>8. Bases(t) # {} => (Holds(plan, Base, p) <=> p \in DOMAIN base) /\ plan[Base].files = base
  BY <1>6, HoldsIs DEF BaseLayer
<1>9. k \in Pushed(t) => (Holds(plan, on, p) <=> p \in DOMAIN upper) /\ plan[on].files = upper
  BY <1>5, HoldsIs DEF BranchLayer
<1>10. Below(t, k) = IF k \in Pushed(t) THEN Stack(base, upper) ELSE base
  BY DEF Below
<1>   HIDE DEF on, base, upper
<1>11. CASE k \notin Pushed(t)
  <2>1. V = {l} \cup Bases(t)
    BY <1>11 DEF Under, V
  <2>2. \A m : m \in shown <=> m = Base /\ p \in DOMAIN base
    <3>1. ASSUME NEW m, m \in shown PROVE m = Base /\ p \in DOMAIN base
      BY <1>1, <1>3, <1>8, <2>1, <3>1
    <3>2. ASSUME p \in DOMAIN base PROVE Base \in shown
      <4>1. Base \in V /\ Holds(plan, Base, p) /\ ~ plan[Base].files[p].del
        BY <1>7, <1>8, <2>1, <3>2
      <4>2. \A h \in V : h = l \/ h = Base
        BY <1>1, <2>1
      <4>3. QED  BY <1>1, <1>3, <4>1, <4>2
    <3>3. QED  BY <3>1, <3>2
  <2>3. p \in DOMAIN base => g[Base].files[p].oid = base[p].oid
    BY <1>4, <1>7, <1>8
  <2>4. p \in DOMAIN base => shown = {Base}
    BY <2>2
  <2>5. p \notin DOMAIN base => shown = {}
    BY <2>2
  <2>6. QED  BY <1>5, <1>10, <1>11, <2>3, <2>4, <2>5
<1>12. CASE k \in Pushed(t)
  <2>1. V = {l, on} \cup Bases(t)
    BY <1>12 DEF Under, on, V
  <2>2. \A h \in V : h = l \/ h = on \/ h = Base
    BY <1>1, <2>1
  <2>3. /\ p \in DOMAIN Below(t, k) <=> \/ p \in DOMAIN upper /\ ~ upper[p].del
                                        \/ p \notin DOMAIN upper /\ p \in DOMAIN base
        /\ p \in DOMAIN upper /\ ~ upper[p].del => Below(t, k)[p] = upper[p]
        /\ p \notin DOMAIN upper /\ p \in DOMAIN base => Below(t, k)[p] = base[p]
    BY <1>10, <1>12 DEF Stack
  <2>4. on \in shown <=> p \in DOMAIN upper /\ ~ upper[p].del
    <3>1. on \notin Ancestors(plan, on) /\ on \notin Ancestors(plan, Base)
      BY <1>1, <1>5, <1>12
    <3>2. \A h \in V : ~ (on \in Ancestors(plan, h) /\ Holds(plan, h, p))
      BY <2>2, <3>1
    <3>3. QED  BY <1>3, <1>9, <1>12, <2>1, <3>2
  <2>5. Base \in shown <=> p \notin DOMAIN upper /\ p \in DOMAIN base
    <3>1. ASSUME Base \in shown PROVE p \notin DOMAIN upper /\ p \in DOMAIN base
      <4>1. Base \in Bases(t) /\ p \in DOMAIN base
        BY <1>3, <1>5, <1>8, <1>12, <2>1, <3>1
      <4>2. Base \in Ancestors(plan, on) /\ on \in V
        BY <1>1, <1>12, <2>1, <4>1
      <4>3. QED  BY <1>3, <1>9, <1>12, <3>1, <4>1, <4>2
    <3>2. ASSUME p \notin DOMAIN upper, p \in DOMAIN base PROVE Base \in shown
      <4>1. Base \in V /\ Holds(plan, Base, p) /\ ~ plan[Base].files[p].del
        BY <1>7, <1>8, <2>1, <3>2
      <4>2. ~ Holds(plan, on, p)
        BY <1>9, <1>12, <3>2
      <4>3. QED  BY <1>1, <1>3, <2>2, <4>1, <4>2
    <3>3. QED  BY <3>1, <3>2
  <2>6. l \notin shown /\ \A m \in shown : m = on \/ m = Base
    BY <1>3, <2>2
  <2>7. CASE p \in DOMAIN upper /\ ~ upper[p].del
    <3>1. shown = {on}
      BY <2>4, <2>5, <2>6, <2>7
    <3>2. g[on].files[p].oid = upper[p].oid
      BY <1>4, <1>9, <1>12, <2>7
    <3>3. QED  BY <1>5, <1>12, <2>3, <2>7, <3>1, <3>2
  <2>8. CASE p \notin DOMAIN upper /\ p \in DOMAIN base
    <3>1. shown = {Base}
      BY <2>4, <2>5, <2>6, <2>8
    <3>2. g[Base].files[p].oid = base[p].oid
      BY <1>4, <1>7, <1>8, <2>8
    <3>3. QED  BY <1>5, <2>3, <2>8, <3>1, <3>2
  <2>9. CASE ~ (p \in DOMAIN upper /\ ~ upper[p].del) /\ ~ (p \notin DOMAIN upper /\ p \in DOMAIN base)
    BY <2>3, <2>4, <2>5, <2>6, <2>9
  <2>10. QED  BY <2>7, <2>8, <2>9
<1>13. QED  BY <1>11, <1>12

(* What an overlay has of a path, by what its checkout has.                 *)
LEMMA OverlayFile ==
    ASSUME NEW t, NEW k, NEW below, NEW files, files = OverlayFiles(t, k, below), NEW e, e = t[k].entries, NEW p
    PROVE  /\ p \in DOMAIN e =>
                /\ p \in DOMAIN files <=> e[p].dirty \/ e[p].unpushed
                /\ p \in DOMAIN files => ~ files[p].del /\ files[p].oid = e[p].oid /\ files[p].sha = e[p].sha
           /\ p \notin DOMAIN e =>
                /\ p \in DOMAIN files <=> p \in DOMAIN below
                /\ p \in DOMAIN files => files[p].del
<1>   DEFINE own  == {q \in DOMAIN e : e[q].dirty \/ e[q].unpushed}
             gone == DOMAIN below \ DOMAIN e
             file(q) == [sha |-> e[q].sha, oid |-> e[q].oid, del |-> FALSE]
<1>1. files = [q \in own \cup gone |-> IF q \in gone THEN Tomb ELSE file(q)]
  BY DEF OverlayFiles
<1>2. /\ Tomb.del
      /\ ~ file(p).del /\ file(p).oid = e[p].oid /\ file(p).sha = e[p].sha
  BY DEF Tomb
<1>3. /\ p \in own <=> p \in DOMAIN e /\ (e[p].dirty \/ e[p].unpushed)
      /\ p \in gone <=> p \in DOMAIN below /\ p \notin DOMAIN e
  OBVIOUS
<1>   HIDE DEF own, gone, file
<1>4. DOMAIN files = own \cup gone /\ (p \in DOMAIN files => files[p] = IF p \in gone THEN Tomb ELSE file(p))
  BY <1>1
<1>5. QED  BY <1>2, <1>3, <1>4

(* What the overlay itself has of a path hides everything below.            *)
LEMMA TopShows ==
    ASSUME NEW t, IsReading(t), NEW g, IsGraph(g), Exact(g), NEW plan, plan = PlanFromGraph(g), Chosen(plan, t),
           NEW k \in Clients(t), NEW l, l = WorktreeLayerID(k), l \in DOMAIN plan,
           NEW p, Holds(plan, l, p), NEW shown, shown = Visible(g, View(g, l), p)
    PROVE  shown = IF plan[l].files[p].del THEN {} ELSE {l}
<1>   DEFINE V == View(g, l)
<1>1. /\ Ancestors(plan, l) = Under(t, k)
      /\ k \in Pushed(t) => Ancestors(plan, On(t, k)) = Bases(t)
      /\ Ancestors(plan, Base) = {}
      /\ \A m \in Bases(t) : m = Base
  BY UnderIs
<1>2. Ancestors(g, l) = Ancestors(plan, l)
  BY VisibleIs
<1>3. V = {l} \cup Ancestors(plan, l)
  BY <1>2 DEF View
<1>4. l # Base /\ (k \in Pushed(t) => l # On(t, k))
  BY ChosenLayers
<1>5. \A h \in V : l \notin Ancestors(plan, h)
  <2>1. \A h \in V : h = l \/ h = Base \/ (k \in Pushed(t) /\ h = On(t, k))
    BY <1>1, <1>3 DEF Under
  <2>2. l \notin Ancestors(plan, l)
    BY <1>1, <1>4 DEF Under
  <2>3. QED  BY <1>1, <1>4, <2>1, <2>2
<1>   HIDE DEF V
<1>6. \A m : m \in Visible(g, V, p) <=> /\ m \in V /\ Holds(plan, m, p) /\ ~ plan[m].files[p].del
                                        /\ \A h \in V : ~ (m \in Ancestors(plan, h) /\ Holds(plan, h, p))
  BY ShownIs
<1>7. shown = Visible(g, V, p)
  BY DEF V
<1>8. \A m : m \in shown => m = l
  <2>1. SUFFICES ASSUME NEW m, m \in Visible(g, V, p), m # l PROVE FALSE
    BY <1>7
  <2>2. m \in V /\ \A h \in V : ~ (m \in Ancestors(plan, h) /\ Holds(plan, h, p))
    BY <1>6, <2>1
  <2>3. l \in V /\ m \in Ancestors(plan, l)
    BY <1>3, <2>1, <2>2
  <2>4. QED  BY <2>2, <2>3
<1>9. l \in shown <=> ~ plan[l].files[p].del
  BY <1>3, <1>5, <1>6, <1>7
<1>10. QED  BY <1>8, <1>9

LEMMA OverlayShows ==
    ASSUME NEW t, IsReading(t), AreCheckouts(t), AreNumbered(t), NEW g, IsGraph(g), Exact(g),
           NEW plan, plan = PlanFromGraph(g), Chosen(plan, t), NEW k \in Clients(t), OnCommit(t, k),
           NEW l, l = WorktreeLayerID(k), l \in DOMAIN plan, NEW p, NEW shown, shown = Visible(g, View(g, l), p)
    PROVE  IF p \in DOMAIN t[k].entries
           THEN \E m \in shown : /\ shown = {m} /\ g[m].files[p].oid = t[k].entries[p].oid
                                 /\ m = l => g[m].files[p].sha = t[k].entries[p].sha
           ELSE shown = {}
<1>   DEFINE e == t[k].entries
             below == Below(t, k)
             files == OverlayFiles(t, k, below)
<1>1. plan[l].files = files
  <2>1. Overlay(t, k, l).files = files
    BY DEF Overlay
  <2>2. QED  BY <2>1, ChosenLayers
<1>2. Holds(plan, l, p) <=> p \in DOMAIN files
  BY <1>1, HoldsIs
<1>3. /\ p \in DOMAIN e =>
           /\ p \in DOMAIN files <=> e[p].dirty \/ e[p].unpushed
           /\ p \in DOMAIN files => ~ files[p].del /\ files[p].oid = e[p].oid /\ files[p].sha = e[p].sha
      /\ p \notin DOMAIN e =>
           /\ p \in DOMAIN files <=> p \in DOMAIN below
           /\ p \in DOMAIN files => files[p].del
  BY OverlayFile
<1>4. CASE Holds(plan, l, p)
  <2>1. shown = IF plan[l].files[p].del THEN {} ELSE {l}
    BY <1>4, TopShows
  <2>2. g[l].files[p].oid = plan[l].files[p].oid /\ g[l].files[p].sha = plan[l].files[p].sha
    <3>1. \A m : Holds(plan, m, p) => /\ g[m].files[p].oid = plan[m].files[p].oid
                                      /\ g[m].files[p].sha = plan[m].files[p].sha
      BY VisibleIs
    <3>2. QED  BY <1>4, <3>1
  <2>   HIDE DEF e, files, below
  <2>3. QED  BY <1>1, <1>2, <1>3, <1>4, <2>1, <2>2 DEF e
<1>5. CASE ~ Holds(plan, l, p)
  <2>1. /\ p \notin DOMAIN below => shown = {}
        /\ p \in DOMAIN below => \E m \in shown : shown = {m} /\ m # l /\ g[m].files[p].oid = below[p].oid
    BY <1>5, BelowShows
  <2>2. p \in DOMAIN e => ~ e[p].dirty /\ ~ e[p].unpushed
    BY <1>2, <1>3, <1>5
  <2>3. p \in DOMAIN e => p \in DOMAIN below /\ below[p].oid = e[p].oid
    BY <2>2, CleanIsBelow
  <2>   HIDE DEF e, files, below
  <2>4. QED  BY <1>2, <1>3, <1>5, <2>1, <2>3 DEF e
<1>6. QED  BY <1>4, <1>5

-----------------------------------------------------------------------------
(* The log tells the truth of every tree, and the saved states what the log *)
(* told by then.                                                            *)
THEOREM ToldInvariance == Spec => [](GraphInv /\ HiddenInv /\ ToldInv)
<1>1. Init => GraphInv /\ HiddenInv /\ ToldInv
  BY GraphInit, HiddenInit, ToldInit
<1>2. GraphInv /\ HiddenInv /\ ToldInv /\ [Next]_vars => GraphInv' /\ HiddenInv' /\ ToldInv'
  BY GraphStep, HiddenStep, ToldStep
<1>3. QED  BY <1>1, <1>2, PTL DEF Spec

(* What is selected from at rest are checkouts.                             *)
LEMMA ReadingTold ==
    ASSUME GraphInv, ToldInv, AtRest, NEW t, t = ReadingOf(cursor.trees, trees, removed)
    PROVE  IsReading(t) /\ AreNumbered(t) /\ AreCheckouts(t)
<1>1. /\ IsState(cursor.trees) /\ cursor.seq = Len(log) /\ Len(log) \in Nat
      /\ \A k \in Keys : IsTree(trees[k])
  BY GraphTypes DEF Types, StoreTyped, CursorTyped, AtRest
<1>2. /\ DOMAIN t \subseteq DOMAIN cursor.trees /\ DOMAIN t \subseteq Keys
      /\ \A k \in DOMAIN t : /\ t[k].up = cursor.trees[k].up /\ t[k].head = cursor.trees[k].head
                             /\ t[k].seq = cursor.trees[k].seq /\ t[k].upSeq = cursor.trees[k].upSeq
                             /\ t[k].entries = trees[k]
  BY <1>1 DEF ReadingOf, IsState
<1>3. IsReading(t)
  BY <1>1, <1>2 DEF IsReading
<1>4. AreNumbered(t)
  <2>1. \A k \in DOMAIN cursor.trees : cursor.trees[k].seq \in Nat /\ cursor.trees[k].upSeq \in Nat
    BY <1>1 DEF IsState
  <2>2. QED  BY <1>2, <2>1 DEF AreNumbered
<1>5. ASSUME NEW k \in Live(t)
      PROVE  \E c \in Checkouts[k] : c.up = t[k].up /\ c.head = t[k].head /\ c.entries = t[k].entries
  <2>1. k \in DOMAIN t /\ trees[k] # NoFiles
    BY <1>2 DEF Live, NoFiles
  <2>2. PICK m \in 1 .. Len(log) : /\ LastChange(log, Len(log), k, m) /\ log[m].ref = k[2]
                                   /\ cursor.trees[k].up = log[m].up /\ cursor.trees[k].head = log[m].head
    BY <1>1, <1>2, <2>1 DEF ToldInv, StateTold
  <2>3. PICK n \in 1 .. Len(log) : \E c \in Checkouts[k] :
            /\ LastChange(log, Len(log), k, n) /\ log[n].ref = k[2]
            /\ log[n].up = c.up /\ log[n].head = c.head /\ trees[k] = c.entries
    BY <1>2, <2>1 DEF ToldInv, TreeTold
  <2>4. m = n
    BY <1>1, <2>2, <2>3 DEF LastChange
  <2>5. QED  BY <1>2, <2>1, <2>2, <2>3, <2>4
<1>6. QED  BY <1>3, <1>4, <1>5 DEF AreCheckouts

(* Whose an overlay is, and what it lies on.                                *)
LEMMA OverlayOf ==
    ASSUME NEW t, IsReading(t), NEW plan, Chosen(plan, t), NEW k \in Keys, NEW l, l = WorktreeLayerID(k), l \in DOMAIN plan
    PROVE  /\ k \in Clients(t)
           /\ plan[l].parent = IF k \in Pushed(t) THEN On(t, k) ELSE Bottom(t)
           /\ plan[l].parent # <<>> => plan[l].parent \in DOMAIN plan
<1>1. l[1] = "wt" /\ l[2] = k[1] /\ l[3] = k[2] /\ l # Base /\ l \in Layers(t)
  BY DEF WorktreeLayerID, Base, Chosen
<1>2. k = <<l[2], l[3]>>
  BY <1>1, CodeIndexAssumption
<1>3. k \in Clients(t)
  BY <1>1, <1>2, LayerKinds DEF IsReading
<1>4. plan[l].parent = IF k \in Pushed(t) THEN On(t, k) ELSE Bottom(t)
  <2>1. Overlay(t, k, l).parent = IF k \in Pushed(t) THEN On(t, k) ELSE Bottom(t)
    BY DEF Overlay
  <2>2. QED  BY <1>3, <2>1, ChosenLayers
<1>5. Bottom(t) # <<>> => Bottom(t) \in DOMAIN plan
  BY ChosenLayers DEF Bottom
<1>6. k \in Pushed(t) => On(t, k) \in DOMAIN plan
  BY ChosenLayers
<1>7. QED  BY <1>3, <1>4, <1>5, <1>6

(* The layer below an overlay is at the commit of its checkout.             *)
LEMMA OverlayAt ==
    ASSUME NEW t, IsReading(t), NEW plan, Chosen(plan, t), NEW k \in Keys, NEW l, l = WorktreeLayerID(k), l \in DOMAIN plan,
           NEW below, below = plan[l].parent, below # <<>>, plan[below].commit = t[k].up
    PROVE  OnCommit(t, k)
<1>1. ASSUME k \notin Pushed(t)
      PROVE  Sources(t) # {} /\ PushedCommit(t, CHOOSE s \in Sources(t) : TRUE) = t[k].up
  <2>1. below = Bottom(t)
    BY <1>1, OverlayOf
  <2>2. Sources(t) # {} /\ below = Base
    BY <2>1 DEF Bottom
  <2>3. plan[Base] = BaseLayer(t)
    BY <2>2, ChosenLayers
  <2>4. BaseLayer(t).commit = PushedCommit(t, CHOOSE s \in Sources(t) : TRUE)
    BY DEF BaseLayer
  <2>5. QED  BY <2>2, <2>3, <2>4
<1>2. QED  BY <1>1 DEF OnCommit

(* A checkout's view shows its files, each once and no other, if the layer  *)
(* below is at the commit it was pushed to (SessionSeesCheckout): what the  *)
(* overlay does not have is clean, and all trees of the commit agree on it. *)
THEOREM CheckoutsSeen == Spec => []SessionSeesCheckout
<1>1. ASSUME GraphInv, HiddenInv, ToldInv PROVE SessionSeesCheckout
  <2>1. SUFFICES ASSUME AtRest, ~ spoiled, NEW k \in Keys, WorktreeLayerID(k) \in DOMAIN graph, OnItsCommit(k)
                 PROVE  SeesOwnFiles(k)
    BY DEF SessionSeesCheckout
  <2>   DEFINE t == ReadingOf(cursor.trees, trees, removed)
               plan == PlanFromGraph(graph)
               l == WorktreeLayerID(k)
  <2>2. IsGraph(graph) /\ Exact(graph)
    BY <1>1, <2>1, RestingExact DEF GraphInv
  <2>3. IsReading(t) /\ AreNumbered(t) /\ AreCheckouts(t)
    BY <1>1, <2>1, ReadingTold
  <2>4. PICK I : plan = DropIdleOverlays(Select(t), I)
    BY <1>1, <2>1, RestingSelected DEF Selected
  <2>5. Chosen(plan, t)
    BY <2>3, <2>4, ChosenIs
  <2>6. /\ IsPlan(plan) /\ DOMAIN plan = DOMAIN graph
        /\ \A m \in DOMAIN graph : plan[m].parent = graph[m].parent /\ plan[m].commit = graph[m].commit
    <3>1. /\ IsPlan(plan) /\ DOMAIN plan = DOMAIN graph
          /\ \A m \in DOMAIN graph : Node(plan[m]) = Node(graph[m])
      BY <2>2, GraphPlan
    <3>2. QED  BY <3>1 DEF Node
  <2>   HIDE DEF plan
  <2>7. l \in DOMAIN plan
    BY <2>1, <2>6
  <2>8. k \in Clients(t) /\ OnCommit(t, k)
    <3>   DEFINE below == plan[l].parent
    <3>1. below = graph[l].parent /\ below # <<>> /\ graph[below].commit = cursor.trees[k].up
      BY <2>1, <2>6 DEF OnItsCommit
    <3>2. k \in Clients(t) /\ (below # <<>> => below \in DOMAIN plan)
      BY <2>3, <2>5, <2>7, OverlayOf
    <3>3. t[k].up = cursor.trees[k].up
      BY <3>2 DEF Clients, Live, ReadingOf
    <3>4. plan[below].commit = t[k].up
      BY <2>6, <3>1, <3>2, <3>3
    <3>   HIDE DEF t, l, below
    <3>5. OnCommit(t, k)
      BY <2>3, <2>5, <2>7, <3>1, <3>4, OverlayAt DEF l, below
    <3>6. QED  BY <3>2, <3>5
  <2>9. t[k].entries = trees[k]
    BY <2>8 DEF Clients, Live, ReadingOf
  <2>   HIDE DEF t, l
  <2>10. ASSUME NEW p, NEW shown, shown = Visible(graph, View(graph, l), p)
         PROVE  IF p \in DOMAIN trees[k]
                THEN \E m \in shown : /\ shown = {m} /\ graph[m].files[p].oid = trees[k][p].oid
                                      /\ m = l => graph[m].files[p].sha = trees[k][p].sha
                ELSE shown = {}
    BY <2>2, <2>3, <2>5, <2>7, <2>8, <2>9, <2>10, OverlayShows DEF plan, l
  <2>11. QED  BY <2>10 DEF SeesOwnFiles, l
<1>2. QED  BY <1>1, ToldInvariance, PTL
=============================================================================
