---------------------------- MODULE CatchupProofs ----------------------------
(***************************************************************************)
(* What the catch-up keeps true for any transcript, any number of runs and  *)
(* any batch size: the saved state, the numbers of the stored lines and the *)
(* session's model.                                                         *)
(***************************************************************************)
EXTENDS Catchup, FiniteSetTheorems, WellFoundedInduction, TLAPS

(* The lock may have failed to keep the runs apart, or the transcript may   *)
(* have been replaced, but not both.                                        *)
Fits == gen = 0 \/ ~overlap

(* A run that works on a state.                                             *)
Loaded(r) == pc[r] \in {"size", "read", "upsert", "track", "save", "release"}

(* The lines a run has still to push.                                       *)
Left(r) == IF pc[r] = "track" THEN lines[r].pos \ Batch(r) ELSE lines[r].pos

Generations == saved.gen <= gen /\ \A r \in Runs : st[r].gen <= gen

Apart == ~overlap => \A r, q \in Runs : Pushing(r) /\ Pushing(q) => r = q

(* What a run has in hand are the lines that follow its state's offset.     *)
HasRest(r) ==
    /\ lines[r].gen = gen
    /\ st[r].offset <= lines[r].end /\ lines[r].end <= size
    /\ Left(r) = {p \in written : st[r].offset < p /\ p <= lines[r].end}

RunInv(r) ==
    Fits /\ Loaded(r) =>
        /\ saved.gen <= st[r].gen
        /\ st[r].gen = gen => StateTrue(st[r])
        /\ st[r].gen = gen /\ pc[r] \in {"upsert", "track"} => HasRest(r)

CatchupInv ==
    /\ TypeOK /\ Generations /\ Apart
    /\ SavedStateTrue /\ LinesUnderOwnNumber
    /\ \A r \in Runs : RunInv(r)

(* The history has no excuse for a model that is not the last one named.    *)
Tracked == gen = 0 /\ ~overlap /\ ~untracked

(* Between the upsert of a batch and its models: o is where the batch       *)
(* begins.                                                                  *)
BatchFrom(r, o) ==
    /\ o \in saved.offset .. st[r].offset
    /\ st[r].model = LastNamed(o) /\ ModelAt(o)
    /\ Batch(r) = {p \in written : o < p /\ p <= st[r].offset}

ModelRun(r) ==
    /\ saved.offset <= st[r].offset
    /\ pc[r] # "track" => st[r].model = LastNamed(st[r].offset) /\ ModelAt(st[r].offset)
    /\ pc[r] = "track" => \E o \in 0 .. size : BatchFrom(r, o)

ModelInv ==
    Tracked =>
        /\ saved.model = LastNamed(saved.offset) /\ ModelAt(saved.offset)
        /\ \A r \in Runs : Loaded(r) => ModelRun(r)

-----------------------------------------------------------------------------
(* Positions and their places.                                              *)

LEMMA Bounds == MaxLines \in Nat /\ MaxTruncs \in Nat /\ BatchSize \in Nat /\ BatchSize > 0
  BY CatchupAssumption

LEMMA Positions ==
    ASSUME NEW S \in SUBSET (1 .. MaxLines)
    PROVE  \A q \in S : q \in Nat /\ 1 <= q /\ q <= MaxLines
<1> SUFFICES ASSUME NEW q \in S PROVE q \in Nat /\ 1 <= q /\ q <= MaxLines
  OBVIOUS
<1>1. q \in 1 .. MaxLines OBVIOUS
<1> QED BY <1>1, Bounds

LEMMA FinitePart ==
    ASSUME NEW S \in SUBSET (1 .. MaxLines), NEW T \in SUBSET S
    PROVE  IsFiniteSet(T) /\ Cardinality(T) \in Nat /\ Cardinality(T) <= Cardinality(S)
           /\ (T # {} => Cardinality(T) > 0)
<1>1. IsFiniteSet(1 .. MaxLines) BY FS_Interval, Bounds
<1>2. IsFiniteSet(S) BY <1>1, FS_Subset
<1>3. IsFiniteSet(T) /\ Cardinality(T) <= Cardinality(S) BY <1>2, FS_Subset
<1>4. Cardinality(T) \in Nat BY <1>3, FS_CardinalityType
<1>5. T # {} => Cardinality(T) # 0 BY <1>3, FS_EmptySet
<1> QED BY <1>3, <1>4, <1>5

(* A place is a number between 1 and the position.                          *)
LEMMA RankType ==
    ASSUME NEW S \in SUBSET (1 .. MaxLines), NEW p \in Nat
    PROVE  /\ Rank(S, p) \in Nat /\ Rank(S, p) <= p
           /\ p \in S => Rank(S, p) \in 1 .. MaxLines
<1> DEFINE T == {q \in S : q <= p}
<1>1. T \in SUBSET S /\ Rank(S, p) = Cardinality(T) BY DEF Rank
<1>2. Cardinality(T) \in Nat /\ (T # {} => Cardinality(T) > 0) BY <1>1, FinitePart
<1>3. IsFiniteSet(1 .. p) /\ Cardinality(1 .. p) = IF 1 > p THEN 0 ELSE p - 1 + 1 BY FS_Interval
<1>4. T \in SUBSET (1 .. p)
  <2> SUFFICES ASSUME NEW q \in T PROVE q \in 1 .. p
    OBVIOUS
  <2>1. q \in Nat /\ 1 <= q /\ q <= p BY Positions
  <2> QED BY <2>1
<1>5. Cardinality(T) <= Cardinality(1 .. p) BY <1>3, <1>4, FS_Subset
<1>6. p \in S => p \in T /\ p \in 1 .. MaxLines BY Positions
<1> QED BY <1>1, <1>2, <1>3, <1>5, <1>6, Bounds

(* The places of two positions differ by the lines between them.            *)
LEMMA RankSplit ==
    ASSUME NEW S \in SUBSET (1 .. MaxLines), NEW o \in Nat, NEW n \in Nat, o <= n
    PROVE  Rank(S, n) = Rank(S, o) + Cardinality({q \in S : o < q /\ q <= n})
<1> DEFINE A == {q \in S : q <= o}
           B == {q \in S : o < q /\ q <= n}
           C == {q \in S : q <= n}
<1>1. \A q \in S : q \in Nat BY Positions
<1>2. A \cup B = C
  <2>1. \A q \in S : q \in A \/ q \in B <=> q \in C BY <1>1
  <2> QED BY <2>1
<1>3. A \cap B = {}
  <2>1. \A q \in S : ~(q \in A /\ q \in B) BY <1>1
  <2> QED BY <2>1
<1>4. IsFiniteSet(A) /\ IsFiniteSet(B) /\ Cardinality(A) \in Nat /\ Cardinality(B) \in Nat
  BY FinitePart
<1> HIDE DEF A, B, C
<1>5. Cardinality(A \cup B) = Cardinality(A) + Cardinality(B) - Cardinality(A \cap B)
  BY <1>4, FS_Union
<1>6. Cardinality(A \cap B) = 0 BY <1>3, FS_EmptySet
<1>7. Cardinality(C) = Cardinality(A) + Cardinality(B) - 0 BY <1>2, <1>5, <1>6
<1>8. Cardinality(C) = Cardinality(A) + Cardinality(B) BY <1>4, <1>7
<1> QED BY <1>8 DEF A, B, C, Rank

(* No two lines share a place.                                              *)
LEMMA RankStrict ==
    ASSUME NEW S \in SUBSET (1 .. MaxLines), NEW p \in Nat, NEW q \in S, p < q
    PROVE  Rank(S, p) < Rank(S, q)
<1> DEFINE B == {x \in S : p < x /\ x <= q}
<1>1. q \in Nat BY Positions
<1>2. q \in B BY <1>1
<1>3. Cardinality(B) \in Nat /\ Cardinality(B) > 0 BY <1>2, FinitePart
<1>4. Rank(S, q) = Rank(S, p) + Cardinality(B) BY <1>1, RankSplit
<1>5. Rank(S, p) \in Nat BY RankType
<1> QED BY <1>3, <1>4, <1>5

LEMMA RankInjective ==
    ASSUME NEW S \in SUBSET (1 .. MaxLines), NEW p \in S, NEW q \in S, Rank(S, p) = Rank(S, q)
    PROVE  p = q
<1>1. p \in Nat /\ q \in Nat BY Positions
<1>2. Rank(S, p) \in Nat /\ Rank(S, q) \in Nat BY <1>1, RankType
<1>3. ~(p < q) BY <1>1, <1>2, RankStrict
<1>4. ~(q < p) BY <1>1, <1>2, RankStrict
<1> QED BY <1>1, <1>3, <1>4

LEMMA LeastNat ==
    ASSUME NEW T, T \subseteq Nat, T # {}
    PROVE  \E x \in T : \A y \in T : x <= y
<1>1. PICK x \in T : \A y \in T : ~(<<y, x>> \in OpToRel(<, Nat))
  BY WFMin, NatLessThanWellFounded, Zenon
<1>2. \A y \in T : x <= y
  <2> SUFFICES ASSUME NEW y \in T, ~(x <= y) PROVE FALSE
    OBVIOUS
  <2>1. y < x /\ x \in Nat /\ y \in Nat OBVIOUS
  <2>2. <<y, x>> \in OpToRel(<, Nat) BY <2>1 DEF OpToRel
  <2> QED BY <1>1, <2>2
<1> QED BY <1>2

(* A set of positions has a last one.                                       *)
LEMMA LastOf ==
    ASSUME NEW S \in SUBSET (1 .. MaxLines), S # {}
    PROVE  /\ Max(S) \in S /\ \A p \in S : p <= Max(S)
           /\ \A x \in S : (\A p \in S : p <= x) => x = Max(S)
<1> DEFINE T == {MaxLines - p : p \in S}
<1>1. MaxLines \in Nat /\ \A p \in S : p \in Nat /\ 1 <= p /\ p <= MaxLines BY Bounds, Positions
<1>2. T \subseteq Nat /\ T # {}
  <2>1. \A p \in S : MaxLines - p \in Nat BY <1>1
  <2> QED BY <2>1
<1> HIDE DEF T
<1>4. PICK x \in T : \A y \in T : x <= y BY <1>2, LeastNat
<1>5. PICK m \in S : x = MaxLines - m BY DEF T
<1>6. \A p \in S : m >= p
  <2> SUFFICES ASSUME NEW p \in S PROVE m >= p
    OBVIOUS
  <2>1. MaxLines - p \in T BY DEF T
  <2> QED BY <1>1, <1>4, <1>5, <2>1
<1>7. \E z \in S : \A p \in S : z >= p BY <1>6
<1>8. Max(S) \in S /\ \A p \in S : Max(S) >= p BY <1>7, Zenon DEF Max
<1>9. \A p \in S : p <= Max(S) BY <1>1, <1>8
<1>10. ASSUME NEW y \in S, \A p \in S : p <= y PROVE y = Max(S)
  <2>1. Max(S) <= y /\ y <= Max(S) /\ y \in Nat /\ Max(S) \in Nat BY <1>1, <1>8, <1>9, <1>10
  <2> QED BY <2>1
<1> QED BY <1>8, <1>9, <1>10

(* The first lines of a set are some of it, without a gap.                  *)
LEMMA FirstOf ==
    ASSUME NEW S \in SUBSET (1 .. MaxLines), NEW n \in Nat
    PROVE  /\ First(S, n) \in SUBSET S
           /\ \A p \in First(S, n) : \A q \in S : q <= p => q \in First(S, n)
           /\ S # {} /\ n > 0 => First(S, n) # {}
<1>1. First(S, n) \in SUBSET S BY DEF First
<1>2. ASSUME NEW p \in First(S, n), NEW q \in S, q <= p PROVE q \in First(S, n)
  <2>1. p \in S /\ Rank(S, p) <= n BY DEF First
  <2>2. p \in Nat /\ q \in Nat BY <2>1, Positions
  <2>3. Rank(S, p) \in Nat /\ Rank(S, q) \in Nat BY <2>2, RankType
  <2>4. Rank(S, q) <= Rank(S, p)
    <3>1. CASE q = p BY <2>3, <3>1
    <3>2. CASE q < p BY <2>1, <2>2, <2>3, <3>2, RankStrict
    <3> QED BY <1>2, <2>2, <3>1, <3>2
  <2>5. Rank(S, q) <= n BY <2>1, <2>3, <2>4
  <2> QED BY <2>5 DEF First
<1>3. ASSUME S # {}, n > 0 PROVE First(S, n) # {}
  <2>1. \A p \in S : p \in Nat BY Positions
  <2>2. PICK x \in S : \A y \in S : x <= y BY <1>3, <2>1, LeastNat
  <2>3. {q \in S : q <= x} = {x}
    <3>1. \A q \in S : q <= x => q = x BY <2>1, <2>2
    <3>2. x <= x BY <2>1
    <3> QED BY <3>1, <3>2
  <2>4. Rank(S, x) = 1 BY <2>3, FS_Singleton DEF Rank
  <2>5. x \in First(S, n) BY <1>3, <2>4 DEF First
  <2> QED BY <2>5
<1> QED BY <1>1, <1>2, <1>3

Between(S, o, e) == {p \in S : o < p /\ p <= e}

(* A batch of the lines between o and e is all of them up to its last.      *)
LEMMA BatchShape ==
    ASSUME NEW S \in SUBSET (1 .. MaxLines), NEW o \in Nat, NEW e \in Nat, NEW n \in Nat, n > 0,
           NEW L, L = Between(S, o, e), L # {},
           NEW b, b = First(L, n)
    PROVE  /\ b \in SUBSET (1 .. MaxLines) /\ b # {} /\ b \subseteq L
           /\ Max(b) \in b /\ Max(b) \in Nat /\ Max(b) \in S /\ o < Max(b) /\ Max(b) <= e
           /\ b = Between(S, o, Max(b)) /\ L \ b = Between(S, Max(b), e)
<1> USE DEF Between
<1>1. L \in SUBSET (1 .. MaxLines) /\ L \subseteq S OBVIOUS
<1>2. /\ b \in SUBSET L /\ b # {}
      /\ \A p \in b : \A q \in L : q <= p => q \in b
  BY <1>1, FirstOf
<1>3. b \in SUBSET (1 .. MaxLines) BY <1>1, <1>2
<1>4. PICK m : m = Max(b) OBVIOUS
<1>5. m \in b /\ \A p \in b : p <= m BY <1>2, <1>3, <1>4, LastOf
<1>6. \A p \in S : p \in Nat BY Positions
<1>7. m \in S /\ m \in Nat /\ o < m /\ m <= e BY <1>2, <1>5, <1>6
<1>8. \A q \in S : q \in b <=> o < q /\ q <= m
  <2> SUFFICES ASSUME NEW q \in S PROVE q \in b <=> o < q /\ q <= m
    OBVIOUS
  <2>1. ASSUME q \in b PROVE o < q /\ q <= m BY <1>2, <1>5, <2>1
  <2>2. ASSUME o < q, q <= m PROVE q \in b
    <3>1. q <= e BY <1>6, <1>7, <2>2
    <3>2. q \in L BY <2>2, <3>1
    <3> QED BY <1>2, <1>5, <2>2, <3>2
  <2> QED BY <2>1, <2>2
<1>9. b = {q \in S : o < q /\ q <= m} BY <1>1, <1>2, <1>8
<1>10. L \ b = {q \in S : m < q /\ q <= e}
  <2>1. \A q \in S : q \in L /\ q \notin b <=> m < q /\ q <= e
    <3> SUFFICES ASSUME NEW q \in S PROVE q \in L /\ q \notin b <=> m < q /\ q <= e
      OBVIOUS
    <3>1. q \in Nat BY <1>6
    <3>2. q \in L <=> o < q /\ q <= e OBVIOUS
    <3>3. q \in b <=> o < q /\ q <= m BY <1>8
    <3> QED BY <1>7, <3>1, <3>2, <3>3
  <2> QED BY <1>1, <2>1
<1> QED BY <1>2, <1>3, <1>4, <1>5, <1>7, <1>9, <1>10

(* The lines of the batch follow those before it, one by one.               *)
LEMMA BatchRank ==
    ASSUME NEW S \in SUBSET (1 .. MaxLines), NEW o \in Nat, NEW m \in Nat, o <= m,
           NEW b, b = Between(S, o, m)
    PROVE  /\ \A p \in b : Rank(S, o) + Rank(b, p) = Rank(S, p)
           /\ Rank(S, o) + Cardinality(b) = Rank(S, m)
<1> USE DEF Between
<1>1. \A q \in S : q \in Nat BY Positions
<1>2. ASSUME NEW p \in b PROVE Rank(S, o) + Rank(b, p) = Rank(S, p)
  <2>1. p \in S /\ p \in Nat /\ o < p /\ p <= m BY <1>1
  <2>2. {q \in b : q <= p} = {q \in S : o < q /\ q <= p}
    <3>1. \A q \in S : q \in b /\ q <= p <=> o < q /\ q <= p BY <1>1, <2>1
    <3> QED BY <3>1
  <2>3. o <= p BY <2>1
  <2>4. Rank(S, p) = Rank(S, o) + Cardinality({q \in S : o < q /\ q <= p}) BY <2>1, <2>3, RankSplit
  <2> QED BY <2>2, <2>4 DEF Rank
<1>3. Rank(S, m) = Rank(S, o) + Cardinality({q \in S : o < q /\ q <= m}) BY RankSplit
<1> QED BY <1>2, <1>3

IsPlaces(S) == S \in SUBSET (1 .. MaxLines)

(* An upsert stores each line of the batch under its own number and leaves  *)
(* the other numbers alone.                                                 *)
LEMMA NumberedRight ==
    ASSUME NEW S, IsPlaces(S), NEW o \in Nat, NEW m \in Nat, o <= m,
           NEW g, NEW f, f = Numbered(Between(S, o, m), g, Rank(S, o))
    PROVE  /\ \A p \in Between(S, o, m) : f[Rank(S, p)] = [gen |-> g, pos |-> p]
           /\ \A k \in 1 .. MaxLines :
                (\A p \in Between(S, o, m) : k # Rank(S, p)) => f[k] = stored[k]
<1> USE DEF IsPlaces
<1>0. PICK b : b = Between(S, o, m) OBVIOUS
<1> DEFINE at(k, p) == k = Rank(S, o) + Rank(b, p)
<1>1. \A p \in b : p \in S /\ Rank(S, o) + Rank(b, p) = Rank(S, p)
  <2>1. \A p \in b : Rank(S, o) + Rank(b, p) = Rank(S, p) BY <1>0, BatchRank
  <2>2. \A p \in b : p \in S BY <1>0 DEF Between
  <2> QED BY <2>1, <2>2
<1>2. ASSUME NEW p \in b
      PROVE  Numbered(b, g, Rank(S, o))[Rank(S, p)] = [gen |-> g, pos |-> p]
  <2>1. PICK k : k = Rank(S, p) OBVIOUS
  <2>2. k \in 1 .. MaxLines
    <3>1. p \in S /\ p \in Nat BY <1>1, Positions
    <3> QED BY <2>1, <3>1, RankType
  <2>3. at(k, p) BY <1>1, <2>1
  <2>4. PICK x : x = CHOOSE q \in b : at(k, q) OBVIOUS
  <2>5. x \in b /\ at(k, x) BY <2>3, <2>4, Zenon
  <2>6. Rank(S, x) = Rank(S, p) BY <1>1, <2>1, <2>5
  <2>7. x = p BY <1>1, <2>5, <2>6, RankInjective
  <2>8. Numbered(b, g, Rank(S, o))[k] = [gen |-> g, pos |-> CHOOSE q \in b : at(k, q)]
    BY <2>2, <2>3, Zenon DEF Numbered
  <2> QED BY <2>1, <2>4, <2>7, <2>8
<1>3. ASSUME NEW k \in 1 .. MaxLines, \A p \in b : k # Rank(S, p)
      PROVE  Numbered(b, g, Rank(S, o))[k] = stored[k]
  <2>1. ~ \E p \in b : at(k, p) BY <1>1, <1>3
  <2> QED BY <2>1, Zenon DEF Numbered
<1> QED BY <1>0, <1>2, <1>3

LEMMA NumberedType ==
    ASSUME NEW b \in SUBSET (1 .. MaxLines), NEW g \in 0 .. MaxTruncs, NEW n,
           stored \in [1 .. MaxLines -> Line \cup {None}]
    PROVE  Numbered(b, g, n) \in [1 .. MaxLines -> Line \cup {None}]
<1> DEFINE at(k, p) == k = n + Rank(b, p)
           x(k) == CHOOSE p \in b : at(k, p)
<1>1. ASSUME NEW k \in 1 .. MaxLines, \E p \in b : at(k, p) PROVE [gen |-> g, pos |-> x(k)] \in Line
  <2>1. x(k) \in b BY <1>1, Zenon
  <2> QED BY <2>1 DEF Line
<1>2. \A k \in 1 .. MaxLines :
        (IF \E p \in b : at(k, p) THEN [gen |-> g, pos |-> x(k)] ELSE stored[k]) \in Line \cup {None}
  BY <1>1
<1>3. Numbered(b, g, n) =
        [k \in 1 .. MaxLines |-> IF \E p \in b : at(k, p) THEN [gen |-> g, pos |-> x(k)] ELSE stored[k]]
  BY DEF Numbered
<1> HIDE DEF x, at
<1> QED BY <1>2, <1>3

(* The model last seen is one that some line names, or none.                *)
LEMMA SeenType ==
    ASSUME NEW ps \in SUBSET (1 .. MaxLines), NEW last \in Models
    PROVE  Seen(ps, last) \in Models
<1>1. CASE Named(ps) = {} BY <1>1 DEF Seen
<1>2. CASE Named(ps) # {}
  <2>1. Named(ps) \in SUBSET (1 .. MaxLines) BY DEF Named
  <2>2. Max(Named(ps)) \in 1 .. MaxLines BY <1>2, <2>1, LastOf
  <2> QED BY <1>2, <2>2 DEF Seen, Models
<1> QED BY <1>1, <1>2

LEMMA SetModelType ==
    ASSUME NEW ps \in SUBSET (1 .. MaxLines), NEW last \in Models, NEW m \in Models
    PROVE  SetModel(ps, last, m) \in Models
  BY SeenType DEF SetModel

-----------------------------------------------------------------------------
(* Types.                                                                   *)

LEMMA NewTypes == NewState \in State /\ NoLines \in ReadLines
  BY Bounds DEF NewState, NoLines, State, ReadLines, Models

LEMMA WrittenType ==
    ASSUME TypeOK
    PROVE  /\ written \in SUBSET (1 .. MaxLines) /\ size \in Nat /\ size <= MaxLines
           /\ \A p \in written : p \in Nat /\ 1 <= p /\ p <= size
<1>1. size \in Nat /\ size <= MaxLines BY Bounds DEF TypeOK
<1>2. \A p \in written : p \in 1 .. size BY DEF TypeOK
<1>3. \A p \in written : p \in Nat /\ 1 <= p /\ p <= size BY <1>1, <1>2
<1>4. \A p \in written : p \in 1 .. MaxLines BY <1>1, <1>3, Bounds
<1> QED BY <1>1, <1>3, <1>4

LEMMA BatchType ==
    ASSUME TypeOK, NEW r \in Runs
    PROVE  /\ lines[r].pos \in SUBSET (1 .. MaxLines) /\ lines[r].gen \in 0 .. MaxTruncs
           /\ lines[r].end \in Nat
           /\ Batch(r) \in SUBSET (1 .. MaxLines) /\ Batch(r) \subseteq lines[r].pos
           /\ Cardinality(Batch(r)) \in Nat
           /\ lines[r].pos # {} => Batch(r) # {} /\ Max(Batch(r)) \in Nat
<1>1. lines[r] \in ReadLines BY DEF TypeOK
<1>2. /\ lines[r].pos \in SUBSET (1 .. MaxLines) /\ lines[r].gen \in 0 .. MaxTruncs
      /\ lines[r].end \in Nat
  BY <1>1 DEF ReadLines
<1>3. PICK L \in SUBSET (1 .. MaxLines) : L = lines[r].pos BY <1>2
<1>4. First(L, BatchSize) \in SUBSET L /\ (L # {} => First(L, BatchSize) # {}) BY FirstOf, Bounds
<1>5. Cardinality(First(L, BatchSize)) \in Nat BY <1>4, FinitePart
<1>6. L # {} => Max(First(L, BatchSize)) \in Nat
  <2> SUFFICES ASSUME L # {} PROVE Max(First(L, BatchSize)) \in Nat
    OBVIOUS
  <2>1. Max(First(L, BatchSize)) \in First(L, BatchSize) BY <1>4, LastOf
  <2> QED BY <1>4, <2>1, Positions
<1>7. Batch(r) = First(L, BatchSize) BY <1>3 DEF Batch
<1> QED BY <1>2, <1>3, <1>4, <1>5, <1>6, <1>7

(* One of a run's fields changes.                                           *)
LEMMA FieldTypes ==
    ASSUME NEW s \in State
    PROVE  /\ s.offset \in Nat /\ s.seq \in Nat /\ s.model \in Models /\ s.gen \in 0 .. MaxTruncs
           /\ \A o \in Nat : [s EXCEPT !.offset = o] \in State
           /\ \A o, n \in Nat : [s EXCEPT !.seq = n, !.offset = o] \in State
           /\ \A m \in Models : [s EXCEPT !.model = m] \in State
           /\ \A o, n \in Nat, g \in 0 .. MaxTruncs : [s EXCEPT !.offset = o, !.seq = n, !.gen = g] \in State
  BY DEF State

LEMMA TypeInit == Init => TypeOK
<1> SUFFICES ASSUME Init PROVE TypeOK
  OBVIOUS
<1>1. None \in Models BY DEF Models
<1>2. "idle" \in PCs BY DEF PCs
<1>3. size \in 0 .. MaxLines /\ written \subseteq 1 .. size /\ gen \in 0 .. MaxTruncs
  BY Bounds DEF Init
<1>4. stored \in [1 .. MaxLines -> Line \cup {None}] BY DEF Init
<1> QED BY <1>1, <1>2, <1>3, <1>4, NewTypes DEF Init, TypeOK

LEMMA TypeStep ==
    ASSUME TypeOK, [Next]_vars
    PROVE  TypeOK'
<1> USE Bounds
<1>pc. ASSUME NEW r \in Runs, NEW l \in PCs, Goto(r, l) PROVE pc' \in [Runs -> PCs]
  BY <1>pc DEF Goto, TypeOK
<1>att. ASSUME NEW r \in Runs, NEW n \in {0, 1}, attempt' = [attempt EXCEPT ![r] = n]
        PROVE  attempt' \in [Runs -> {0, 1}]
  BY <1>att DEF TypeOK
<1>st. ASSUME NEW r \in Runs, NEW s \in State, st' = [st EXCEPT ![r] = s] PROVE st' \in [Runs -> State]
  BY <1>st DEF TypeOK
<1>ret. ASSUME NEW r \in Runs, Return(r) PROVE lines' \in [Runs -> ReadLines]
  BY <1>ret, NewTypes DEF Return, TypeOK
<1>labels. {"idle", "open", "stat", "remove", "load", "size", "read", "upsert", "track", "save", "release"} \subseteq PCs
  BY DEF PCs
<1>1. CASE UNCHANGED vars BY <1>1 DEF vars, TypeOK
<1>2. CASE Write
  <2>1. size' \in 0 .. MaxLines /\ written' \subseteq 1 .. size'
    <3>1. size \in Nat /\ size + 1 <= MaxLines /\ size' = size + 1 BY <1>2 DEF Write, TypeOK
    <3>2. \A p \in written : p \in 1 .. size BY DEF TypeOK
    <3>3. \A p \in written' : p \in written \/ p = size + 1 BY <1>2 DEF Write
    <3>4. \A p \in written' : p \in 1 .. size + 1 BY <3>1, <3>2, <3>3
    <3> QED BY <3>1, <3>4
  <2> QED BY <1>2, <2>1 DEF Write, TypeOK
<1>3. CASE Replace
  <2>1. gen' \in 0 .. MaxTruncs BY <1>3 DEF Replace, TypeOK
  <2> QED BY <1>3, <2>1 DEF Replace, TypeOK
<1>4. CASE LockAges BY <1>4 DEF LockAges, TypeOK
<1>5. ASSUME NEW r \in Runs, Hook(r) \/ StatLock(r) PROVE TypeOK'
  <2>1. pc' \in [Runs -> PCs] BY <1>5, <1>pc, <1>labels DEF Hook, StatLock
  <2>2. attempt' \in [Runs -> {0, 1}] BY <1>5, <1>att DEF Hook, StatLock
  <2> QED BY <1>5, <2>1, <2>2 DEF Hook, StatLock, TypeOK
<1>6. ASSUME NEW r \in Runs, OpenLock(r) PROVE TypeOK'
  <2>1. pc' \in [Runs -> PCs] BY <1>6, <1>pc, <1>labels DEF OpenLock
  <2>2. attempt' \in [Runs -> {0, 1}] BY <1>6, <1>att DEF OpenLock, TypeOK
  <2>3. overlap' \in BOOLEAN BY <1>6, Zenon DEF OpenLock, TypeOK
  <2>4. lock' \in {"absent", "fresh", "stale"} BY <1>6 DEF OpenLock, TypeOK
  <2> QED BY <1>6, <2>1, <2>2, <2>3, <2>4 DEF OpenLock, TypeOK
<1>7. ASSUME NEW r \in Runs, RemoveLock(r) PROVE TypeOK'
  <2>1. pc' \in [Runs -> PCs] BY <1>7, <1>pc, <1>labels DEF RemoveLock
  <2>2. attempt' \in [Runs -> {0, 1}] BY <1>7, <1>att DEF RemoveLock
  <2> QED BY <1>7, <2>1, <2>2 DEF RemoveLock, TypeOK
<1>8. ASSUME NEW r \in Runs, LoadState(r) PROVE TypeOK'
  <2>1. pc' \in [Runs -> PCs] BY <1>8, <1>pc, <1>labels DEF LoadState
  <2>2. st' \in [Runs -> State] BY <1>8, <1>st DEF LoadState, TypeOK
  <2> QED BY <1>8, <2>1, <2>2 DEF LoadState, TypeOK
<1>9. ASSUME NEW r \in Runs, CheckSize(r) PROVE TypeOK'
  <2>1. pc' \in [Runs -> PCs] BY <1>9, <1>pc, <1>labels DEF CheckSize
  <2>2. st[r] \in State /\ gen \in 0 .. MaxTruncs BY DEF TypeOK
  <2>3. Restart(st[r]) \in State BY <2>2, FieldTypes DEF Restart
  <2>4. st' = [st EXCEPT ![r] = IF size < st[r].offset THEN Restart(st[r]) ELSE st[r]]
    BY <1>9 DEF CheckSize
  <2>5. st' \in [Runs -> State] BY <1>st, <2>2, <2>3, <2>4
  <2> QED BY <1>9, <2>1, <2>5 DEF CheckSize, TypeOK
<1>10. ASSUME NEW r \in Runs, Read(r) PROVE TypeOK'
  <2>1. pc' \in [Runs -> PCs] BY <1>10, <1>pc, <1>labels DEF Read
  <2>2. st[r].offset \in Nat BY FieldTypes DEF TypeOK
  <2>3. {p \in written : p > st[r].offset} \in SUBSET (1 .. MaxLines) BY WrittenType
  <2>4. LinesFrom(st[r].offset) \in ReadLines BY <2>2, <2>3 DEF LinesFrom, ReadLines, TypeOK
  <2>5. lines' \in [Runs -> ReadLines] BY <1>10, <2>4 DEF Read, TypeOK
  <2> QED BY <1>10, <2>1, <2>5 DEF Read, TypeOK
<1>11. ASSUME NEW r \in Runs, Upsert(r) PROVE TypeOK'
  <2>1. pc' \in [Runs -> PCs] BY <1>11, <1>pc, <1>labels DEF Upsert
  <2>2. lines[r].pos # {} BY <1>11 DEF Upsert
  <2>3. /\ lines[r].gen \in 0 .. MaxTruncs /\ Batch(r) \in SUBSET (1 .. MaxLines)
        /\ Cardinality(Batch(r)) \in Nat /\ Max(Batch(r)) \in Nat
    BY <2>2, BatchType
  <2>4. st[r] \in State /\ st[r].seq \in Nat BY FieldTypes DEF TypeOK
  <2>5. st' = [st EXCEPT ![r] = [st[r] EXCEPT !.seq = st[r].seq + Cardinality(Batch(r)), !.offset = Max(Batch(r))]]
    BY <1>11, <2>4 DEF Upsert, TypeOK
  <2>6. [st[r] EXCEPT !.seq = st[r].seq + Cardinality(Batch(r)), !.offset = Max(Batch(r))] \in State
    <3>1. st[r].seq + Cardinality(Batch(r)) \in Nat BY <2>3, <2>4
    <3> QED BY <2>3, <2>4, <3>1, FieldTypes
  <2>7. st' \in [Runs -> State] BY <1>st, <2>5, <2>6
  <2>8. stored' \in [1 .. MaxLines -> Line \cup {None}]
    BY <1>11, <2>3, NumberedType DEF Upsert, TypeOK
  <2> QED BY <1>11, <2>1, <2>7, <2>8 DEF Upsert, TypeOK
<1>12. ASSUME NEW r \in Runs, Track(r) PROVE TypeOK'
  <2>1. pc' \in [Runs -> PCs] BY <1>12, <1>pc, <1>labels DEF Track
  <2>2. Batch(r) \in SUBSET (1 .. MaxLines) /\ lines[r] \in ReadLines BY BatchType DEF TypeOK
  <2>3. st[r] \in State /\ st[r].model \in Models /\ model \in Models BY FieldTypes DEF TypeOK
  <2>4. Seen(Batch(r), st[r].model) \in Models /\ SetModel(Batch(r), st[r].model, model) \in Models
    BY <2>2, <2>3, SeenType, SetModelType
  <2>5. [st[r] EXCEPT !.model = Seen(Batch(r), st[r].model)] \in State BY <2>3, <2>4, FieldTypes
  <2>6. st' = [st EXCEPT ![r] = [st[r] EXCEPT !.model = Seen(Batch(r), st[r].model)]]
    BY <1>12, <2>3 DEF Track, TypeOK
  <2>7. st' \in [Runs -> State] BY <1>st, <2>5, <2>6
  <2>8. [lines[r] EXCEPT !.pos = lines[r].pos \ Batch(r)] \in ReadLines BY <2>2 DEF ReadLines
  <2>9. lines' = [lines EXCEPT ![r] = [lines[r] EXCEPT !.pos = lines[r].pos \ Batch(r)]]
    BY <1>12, <2>2 DEF Track, TypeOK
  <2>10. lines' \in [Runs -> ReadLines] BY <2>8, <2>9 DEF TypeOK
  <2> QED BY <1>12, <2>1, <2>4, <2>7, <2>10 DEF Track, TypeOK
<1>13. ASSUME NEW r \in Runs, UpsertFails(r) PROVE TypeOK'
  <2>1. pc' \in [Runs -> PCs] BY <1>13, <1>pc, <1>labels DEF UpsertFails
  <2>2. lines' \in [Runs -> ReadLines] BY <1>13, <1>ret DEF UpsertFails
  <2>3. fails' \in Nat BY <1>13 DEF UpsertFails, TypeOK
  <2> QED BY <1>13, <2>1, <2>2, <2>3 DEF UpsertFails, TypeOK
<1>14. ASSUME NEW r \in Runs, TrackFails(r) PROVE TypeOK'
  <2>1. pc' \in [Runs -> PCs] BY <1>14, <1>pc, <1>labels DEF TrackFails
  <2>2. lines' \in [Runs -> ReadLines] BY <1>14, <1>ret DEF TrackFails
  <2>3. fails' \in Nat /\ untracked' \in BOOLEAN BY <1>14 DEF TrackFails, TypeOK
  <2>4. Batch(r) \in SUBSET (1 .. MaxLines) BY BatchType
  <2>5. st[r] \in State /\ st[r].model \in Models /\ model \in Models BY FieldTypes DEF TypeOK
  <2>6. PICK n \in 0 .. Cardinality(Batch(r)) : \E k \in {n, n - 1} \cap Nat :
          /\ st' = [st EXCEPT ![r].model = Seen(First(Batch(r), k), @)]
          /\ model' = SetModel(First(Batch(r), n), st[r].model, model)
    BY <1>14 DEF TrackFails
  <2>7. PICK k \in {n, n - 1} \cap Nat :
          /\ st' = [st EXCEPT ![r].model = Seen(First(Batch(r), k), @)]
          /\ model' = SetModel(First(Batch(r), n), st[r].model, model)
    BY <2>6
  <2>8. First(Batch(r), k) \in SUBSET (1 .. MaxLines) /\ First(Batch(r), n) \in SUBSET (1 .. MaxLines)
    BY <2>4 DEF First
  <2>9. Seen(First(Batch(r), k), st[r].model) \in Models /\ model' \in Models
    BY <2>5, <2>7, <2>8, SeenType, SetModelType
  <2>10. [st[r] EXCEPT !.model = Seen(First(Batch(r), k), st[r].model)] \in State BY <2>5, <2>9, FieldTypes
  <2>11. st' = [st EXCEPT ![r] = [st[r] EXCEPT !.model = Seen(First(Batch(r), k), st[r].model)]]
    BY <2>5, <2>7 DEF TypeOK
  <2>12. st' \in [Runs -> State] BY <1>st, <2>10, <2>11
  <2> QED BY <1>14, <2>1, <2>2, <2>3, <2>9, <2>12 DEF TrackFails, TypeOK
<1>15. ASSUME NEW r \in Runs, Pushed(r) PROVE TypeOK'
  <2>1. pc' \in [Runs -> PCs] BY <1>15, <1>pc, <1>labels DEF Pushed
  <2>2. lines' \in [Runs -> ReadLines] BY <1>15, <1>ret DEF Pushed
  <2>3. st[r] \in State /\ st[r].offset \in Nat BY FieldTypes DEF TypeOK
  <2>4. lines[r].end \in Nat BY BatchType
  <2>5. PICK o \in Nat : o = IF lines[r].end > st[r].offset THEN lines[r].end ELSE st[r].offset
    BY <2>3, <2>4
  <2>6. st' = [st EXCEPT ![r] = [st[r] EXCEPT !.offset = o]] BY <1>15, <2>3, <2>5 DEF Pushed, TypeOK
  <2>7. [st[r] EXCEPT !.offset = o] \in State BY <2>3, FieldTypes
  <2>8. st' \in [Runs -> State] BY <1>st, <2>6, <2>7
  <2> QED BY <1>15, <2>1, <2>2, <2>8 DEF Pushed, TypeOK
<1>16. ASSUME NEW r \in Runs, Save(r) PROVE TypeOK'
  <2>1. pc' \in [Runs -> PCs] BY <1>16, <1>pc, <1>labels DEF Save
  <2> QED BY <1>16, <2>1 DEF Save, TypeOK
<1>17. ASSUME NEW r \in Runs, SaveFails(r) PROVE TypeOK'
  <2>1. pc' \in [Runs -> PCs] BY <1>17, <1>pc, <1>labels DEF SaveFails
  <2>2. fails' \in Nat BY <1>17 DEF SaveFails, TypeOK
  <2> QED BY <1>17, <2>1, <2>2 DEF SaveFails, TypeOK
<1>18. ASSUME NEW r \in Runs, Release(r) PROVE TypeOK'
  <2>1. pc' \in [Runs -> PCs] BY <1>18, <1>pc, <1>labels DEF Release
  <2>2. lines' \in [Runs -> ReadLines] BY <1>18, <1>ret DEF Release
  <2>3. st' \in [Runs -> State] BY <1>18, <1>st, NewTypes DEF Release
  <2> QED BY <1>18, <2>1, <2>2, <2>3 DEF Release, TypeOK
<1>19. ASSUME NEW r \in Runs, Crash(r) PROVE TypeOK'
  <2>1. pc' \in [Runs -> PCs] BY <1>19, <1>pc, <1>labels DEF Crash
  <2>2. lines' \in [Runs -> ReadLines] BY <1>19, <1>ret DEF Crash
  <2>3. st' \in [Runs -> State] BY <1>19, <1>st, NewTypes DEF Crash
  <2>4. attempt' \in [Runs -> {0, 1}] BY <1>19, <1>att DEF Crash
  <2>5. crashes' \in Nat BY <1>19 DEF Crash, TypeOK
  <2> QED BY <1>19, <2>1, <2>2, <2>3, <2>4, <2>5 DEF Crash, TypeOK
<1> QED BY <1>1, <1>2, <1>3, <1>4, <1>5, <1>6, <1>7, <1>8, <1>9, <1>10, <1>11, <1>12, <1>13, <1>14,
           <1>15, <1>16, <1>17, <1>18, <1>19 DEF Next, RunStep

-----------------------------------------------------------------------------
(* The saved state and the numbers.                                         *)

(* A state s agrees with n lines, w of them with text, of generation g, and *)
(* with the lines f that are stored.                                        *)
Agrees(s, n, w, g, f) ==
    /\ s.offset <= n /\ s.seq = Rank(w, s.offset)
    /\ \A p \in w : p <= s.offset => f[Rank(w, p)] = [gen |-> g, pos |-> p]

LEMMA TrueAgrees ==
    /\ StateTrue(saved) <=> Agrees(saved, size, written, gen, stored)
    /\ StateTrue(saved)' <=> Agrees(saved', size', written', gen', stored')
    /\ \A r \in Runs : /\ StateTrue(st[r]) <=> Agrees(st[r], size, written, gen, stored)
                       /\ StateTrue(st[r])' <=> Agrees(st'[r], size', written', gen', stored')
  BY DEF StateTrue, Agrees, Number, Texts

LEMMA GenTypes ==
    ASSUME TypeOK
    PROVE  gen \in Nat /\ saved.gen \in Nat /\ \A r \in Runs : st[r].gen \in Nat
<1>1. gen \in 0 .. MaxTruncs /\ saved \in State /\ \A r \in Runs : st[r] \in State BY DEF TypeOK
<1>2. saved.gen \in 0 .. MaxTruncs /\ \A r \in Runs : st[r].gen \in 0 .. MaxTruncs
  BY <1>1, FieldTypes
<1> QED BY <1>1, <1>2, Bounds

(* A step of run r that leaves the file and the stored lines alone.         *)
Quiet(r) ==
    /\ UNCHANGED <<size, written, gen, stored>>
    /\ \A q \in Runs \ {r} : pc'[q] = pc[q] /\ st'[q] = st[q] /\ lines'[q] = lines[q]

LEMMA OthersKept ==
    ASSUME CatchupInv, NEW r \in Runs, Quiet(r), NEW q \in Runs \ {r}, Fits' => Fits,
           Fits' /\ Loaded(q) => saved'.gen <= st[q].gen
    PROVE  RunInv(q)'
<1>1. RunInv(q) BY DEF CatchupInv
<1>2. pc'[q] = pc[q] /\ st'[q] = st[q] /\ lines'[q] = lines[q] /\ UNCHANGED <<size, written, gen, stored>>
  BY DEF Quiet
<1>3. Loaded(q)' <=> Loaded(q) BY <1>2 DEF Loaded
<1>4. HasRest(q)' <=> HasRest(q) BY <1>2 DEF HasRest, Left, Batch
<1>5. StateTrue(st[q])' <=> StateTrue(st[q]) BY <1>2, TrueAgrees
<1> QED BY <1>1, <1>2, <1>3, <1>4, <1>5 DEF RunInv

LEMMA QuietStep ==
    ASSUME CatchupInv, TypeOK', NEW r \in Runs, Quiet(r), overlap => overlap',
           Apart', RunInv(r)', SavedStateTrue', saved'.gen <= gen, st'[r].gen <= gen,
           \A q \in Runs \ {r} : Fits' /\ Loaded(q) => saved'.gen <= st[q].gen
    PROVE  CatchupInv'
<1>1. UNCHANGED <<size, written, gen, stored>> BY DEF Quiet
<1>2. Fits' => Fits BY <1>1 DEF Fits
<1>3. \A q \in Runs \ {r} : RunInv(q)' BY <1>2, OthersKept
<1>4. Generations' BY <1>1 DEF CatchupInv, Generations, Quiet
<1>5. LinesUnderOwnNumber' BY <1>1 DEF CatchupInv, LinesUnderOwnNumber, Number
<1> QED BY <1>3, <1>4, <1>5 DEF CatchupInv

(* One that saves nothing and takes no lock.                                *)
LEMMA QuietRun ==
    ASSUME CatchupInv, TypeOK', NEW r \in Runs, Quiet(r), UNCHANGED <<overlap, saved>>,
           Pushing(r)' => Pushing(r), RunInv(r)', st'[r].gen <= gen
    PROVE  CatchupInv'
<1>1. UNCHANGED <<size, written, gen, stored>> BY DEF Quiet
<1>2. Apart'
  <2>1. \A q \in Runs : Pushing(q)' => Pushing(q)
    BY DEF Quiet, Pushing
  <2> QED BY <2>1 DEF CatchupInv, Apart
<1>3. Fits' <=> Fits BY <1>1 DEF Fits
<1>4. SavedStateTrue' BY <1>1, TrueAgrees DEF CatchupInv, SavedStateTrue
<1>5. \A q \in Runs \ {r} : Fits' /\ Loaded(q) => saved'.gen <= st[q].gen
  BY <1>3 DEF CatchupInv, RunInv
<1>6. saved'.gen <= gen BY DEF CatchupInv, Generations
<1> QED BY <1>2, <1>4, <1>5, <1>6, QuietStep

(* acquireLock, but for the step that takes the lock.                       *)
LEMMA LockSteps ==
    ASSUME CatchupInv, TypeOK', NEW r \in Runs,
           Hook(r) \/ StatLock(r) \/ RemoveLock(r) \/ (OpenLock(r) /\ lock # "absent")
    PROVE  CatchupInv'
<1>1. pc \in [Runs -> PCs] BY DEF CatchupInv, TypeOK
<1>2. /\ UNCHANGED <<size, written, gen, stored, saved, st, lines, overlap>>
      /\ \E l \in {"open", "stat", "idle", "remove"} : Goto(r, l)
  BY DEF Hook, StatLock, RemoveLock, OpenLock
<1>3. Quiet(r) BY <1>1, <1>2 DEF Quiet, Goto
<1>4. ~Pushing(r)' /\ ~Loaded(r)' BY <1>1, <1>2 DEF Pushing, Loaded, Goto
<1>5. RunInv(r)' BY <1>4 DEF RunInv
<1>6. st'[r].gen <= gen BY <1>2 DEF CatchupInv, Generations
<1> QED BY <1>2, <1>3, <1>4, <1>5, <1>6, QuietRun

(* Taking it: the history records a run that has not ended.                 *)
LEMMA LockTaken ==
    ASSUME CatchupInv, TypeOK', NEW r \in Runs, OpenLock(r), lock = "absent"
    PROVE  CatchupInv'
<1>1. pc \in [Runs -> PCs] BY DEF CatchupInv, TypeOK
<1>2. /\ UNCHANGED <<size, written, gen, stored, saved, st, lines>>
      /\ Goto(r, "load")
      /\ overlap' = (overlap \/ \E q \in Runs : Pushing(q))
  BY DEF OpenLock
<1>3. Quiet(r) BY <1>1, <1>2 DEF Quiet, Goto
<1>4. ~Loaded(r)' BY <1>1, <1>2 DEF Loaded, Goto
<1>5. RunInv(r)' BY <1>4 DEF RunInv
<1>6. overlap => overlap' BY <1>2
<1>7. Apart'
  <2> SUFFICES ASSUME ~overlap', NEW x \in Runs, NEW y \in Runs, Pushing(x)', Pushing(y)'
               PROVE  x = y
    BY DEF Apart
  <2>1. \A q \in Runs : ~Pushing(q) BY <1>2
  <2>2. \A q \in Runs \ {r} : ~Pushing(q)' BY <1>3, <2>1 DEF Quiet, Pushing
  <2> QED BY <2>2
<1>8. Fits' => Fits BY <1>2 DEF Fits
<1>9. SavedStateTrue' BY <1>2, <1>6, TrueAgrees DEF CatchupInv, SavedStateTrue
<1>10. \A q \in Runs \ {r} : Fits' /\ Loaded(q) => saved'.gen <= st[q].gen
  BY <1>2, <1>8 DEF CatchupInv, RunInv
<1>11. saved'.gen <= gen /\ st'[r].gen <= gen BY <1>2 DEF CatchupInv, Generations
<1> QED BY <1>3, <1>5, <1>6, <1>7, <1>9, <1>10, <1>11, QuietStep

(* loadState.                                                               *)
LEMMA LoadKeeps ==
    ASSUME CatchupInv, TypeOK', NEW r \in Runs, LoadState(r)
    PROVE  CatchupInv'
<1>1. pc \in [Runs -> PCs] /\ st \in [Runs -> State] BY DEF CatchupInv, TypeOK
<1>2. /\ UNCHANGED <<size, written, gen, stored, saved, lines, overlap>>
      /\ pc[r] = "load" /\ pc'[r] = "size" /\ st'[r] = saved
      /\ pc' = [pc EXCEPT ![r] = "size"] /\ st' = [st EXCEPT ![r] = saved]
  BY <1>1 DEF LoadState, Goto
<1>3. Quiet(r) BY <1>1, <1>2 DEF Quiet
<1>4. Pushing(r) BY <1>2 DEF Pushing
<1>5. saved.gen <= gen /\ saved.gen \in Nat BY GenTypes DEF CatchupInv, Generations
<1>6. RunInv(r)'
  <2>1. Fits' /\ st'[r].gen = gen' => StateTrue(st[r])'
    BY <1>2, TrueAgrees DEF CatchupInv, SavedStateTrue, Fits
  <2> QED BY <1>2, <1>5, <2>1 DEF RunInv
<1> QED BY <1>2, <1>3, <1>4, <1>5, <1>6, QuietRun

(* A transcript that got shorter.                                           *)
LEMMA SizeKeeps ==
    ASSUME CatchupInv, TypeOK', NEW r \in Runs, CheckSize(r)
    PROVE  CatchupInv'
<1>1. pc \in [Runs -> PCs] /\ st \in [Runs -> State] BY DEF CatchupInv, TypeOK
<1>2. /\ UNCHANGED <<size, written, gen, stored, saved, lines, overlap>>
      /\ pc[r] = "size" /\ pc'[r] = "read"
      /\ pc' = [pc EXCEPT ![r] = "read"]
      /\ st'[r] = IF size < st[r].offset THEN Restart(st[r]) ELSE st[r]
      /\ st' = [st EXCEPT ![r] = IF size < st[r].offset THEN Restart(st[r]) ELSE st[r]]
  BY <1>1 DEF CheckSize, Goto
<1>3. Quiet(r) BY <1>1, <1>2 DEF Quiet
<1>4. Pushing(r) /\ Loaded(r) BY <1>2 DEF Pushing, Loaded
<1>5. gen \in Nat /\ saved.gen <= gen /\ saved.gen \in Nat /\ st[r].gen <= gen /\ st[r].gen \in Nat
  BY GenTypes DEF CatchupInv, Generations
<1>6. RunInv(r) /\ (Fits' <=> Fits) BY <1>2 DEF CatchupInv, Fits
<1>7. CASE size < st[r].offset
  <2>1. st[r] \in State BY <1>1
  <2>2. st'[r].gen = gen /\ st'[r].offset = 0 /\ st'[r].seq = 0
    BY <1>2, <1>7, <2>1 DEF Restart, State
  <2>3. Agrees(st'[r], size', written', gen', stored')
    <3>1. written \in SUBSET (1 .. MaxLines) /\ size \in Nat BY WrittenType DEF CatchupInv
    <3>2. Rank(written, 0) \in Nat /\ Rank(written, 0) <= 0 BY <3>1, RankType
    <3>3. \A p \in written : ~(p <= 0) BY <3>1, Positions
    <3>4. Rank(written, 0) = 0 /\ 0 <= size BY <3>1, <3>2
    <3> QED BY <1>2, <2>2, <3>3, <3>4 DEF Agrees
  <2>4. RunInv(r)' BY <1>2, <1>5, <2>2, <2>3, TrueAgrees DEF RunInv
  <2> QED BY <1>2, <1>3, <1>4, <1>5, <2>2, <2>4, QuietRun
<1>8. CASE ~(size < st[r].offset)
  <2>1. st'[r] = st[r] BY <1>2, <1>8
  <2>2. Fits' /\ st'[r].gen = gen' => StateTrue(st[r])'
    BY <1>2, <1>4, <1>6, <2>1, TrueAgrees DEF RunInv
  <2>3. RunInv(r)' BY <1>2, <1>4, <1>6, <2>1, <2>2 DEF RunInv
  <2> QED BY <1>2, <1>3, <1>4, <1>5, <2>1, <2>3, QuietRun
<1> QED BY <1>7, <1>8

(* ReadLines.                                                               *)
LEMMA ReadKeeps ==
    ASSUME CatchupInv, TypeOK', NEW r \in Runs, Read(r)
    PROVE  CatchupInv'
<1>1. pc \in [Runs -> PCs] /\ lines \in [Runs -> ReadLines] BY DEF CatchupInv, TypeOK
<1>2. /\ UNCHANGED <<size, written, gen, stored, saved, st, overlap>>
      /\ pc[r] = "read" /\ pc'[r] = "upsert"
      /\ pc' = [pc EXCEPT ![r] = "upsert"]
      /\ lines' = [lines EXCEPT ![r] = LinesFrom(st[r].offset)]
      /\ lines'[r] = LinesFrom(st[r].offset)
  BY <1>1 DEF Read, Goto
<1>3. Quiet(r) BY <1>1, <1>2 DEF Quiet
<1>4. Pushing(r) /\ Loaded(r) BY <1>2 DEF Pushing, Loaded
<1>5. RunInv(r) /\ (Fits' <=> Fits) /\ st[r].gen <= gen BY <1>2 DEF CatchupInv, Fits, Generations
<1>6. ASSUME Fits, st[r].gen = gen PROVE HasRest(r)'
  <2>1. st[r].offset <= size BY <1>4, <1>5, <1>6 DEF RunInv, StateTrue
  <2>2. st[r].offset \in Nat BY FieldTypes DEF CatchupInv, TypeOK
  <2>3. size \in Nat /\ \A p \in written : p \in Nat /\ p <= size BY WrittenType DEF CatchupInv
  <2>4. lines'[r].gen = gen /\ lines'[r].end = size /\ lines'[r].pos = {p \in written : p > st[r].offset}
    BY <1>2, <2>1, <2>2, <2>3 DEF LinesFrom
  <2>5. lines'[r].pos = {p \in written : st[r].offset < p /\ p <= lines'[r].end}
    <3>1. \A p \in written : p > st[r].offset <=> st[r].offset < p /\ p <= size BY <2>2, <2>3
    <3> QED BY <2>4, <3>1
  <2>6. size <= size BY <2>3
  <2> QED BY <1>2, <2>1, <2>4, <2>5, <2>6 DEF HasRest, Left
<1>7. Fits' /\ st'[r].gen = gen' => StateTrue(st[r])'
  BY <1>2, <1>4, <1>5, TrueAgrees DEF RunInv
<1>8. RunInv(r)' BY <1>2, <1>4, <1>5, <1>6, <1>7 DEF RunInv
<1> QED BY <1>2, <1>3, <1>4, <1>5, <1>8, QuietRun

(* The models of a batch, recorded or not: neither moves the state.         *)
LEMMA TrackKeeps ==
    ASSUME CatchupInv, TypeOK', NEW r \in Runs, Track(r)
    PROVE  CatchupInv'
<1>1. /\ pc \in [Runs -> PCs] /\ st \in [Runs -> State] /\ st[r] \in State
      /\ lines \in [Runs -> ReadLines] /\ lines[r] \in ReadLines
  BY DEF CatchupInv, TypeOK
<1>2. /\ UNCHANGED <<size, written, gen, stored, saved, overlap>>
      /\ pc[r] = "track" /\ pc'[r] = "upsert"
      /\ pc' = [pc EXCEPT ![r] = "upsert"]
      /\ st' = [st EXCEPT ![r].model = Seen(Batch(r), @)]
      /\ lines' = [lines EXCEPT ![r].pos = @ \ Batch(r)]
  BY <1>1 DEF Track, Goto
<1>3. /\ st'[r].offset = st[r].offset /\ st'[r].seq = st[r].seq /\ st'[r].gen = st[r].gen
      /\ lines'[r].pos = lines[r].pos \ Batch(r)
      /\ lines'[r].gen = lines[r].gen /\ lines'[r].end = lines[r].end
  BY <1>1, <1>2 DEF State, ReadLines
<1>4. Quiet(r) BY <1>1, <1>2 DEF Quiet
<1>5. Pushing(r) /\ Loaded(r) BY <1>2 DEF Pushing, Loaded
<1>6. RunInv(r) /\ (Fits' <=> Fits) /\ st[r].gen <= gen BY <1>2 DEF CatchupInv, Fits, Generations
<1>7. StateTrue(st[r])' <=> StateTrue(st[r]) BY <1>2, <1>3, TrueAgrees DEF Agrees
<1>8. HasRest(r) => HasRest(r)' BY <1>2, <1>3 DEF HasRest, Left
<1>9. RunInv(r)' BY <1>2, <1>3, <1>5, <1>6, <1>7, <1>8 DEF RunInv
<1> QED BY <1>2, <1>3, <1>4, <1>5, <1>6, <1>9, QuietRun

LEMMA FailuresKeep ==
    ASSUME CatchupInv, TypeOK', NEW r \in Runs, TrackFails(r) \/ UpsertFails(r) \/ SaveFails(r)
    PROVE  CatchupInv'
<1>1. /\ pc \in [Runs -> PCs] /\ st \in [Runs -> State] /\ st[r] \in State
      /\ lines \in [Runs -> ReadLines]
  BY DEF CatchupInv, TypeOK
<1>2. /\ UNCHANGED <<size, written, gen, stored, saved, overlap>>
      /\ Pushing(r) /\ Loaded(r)
      /\ \E l \in {"save", "release"} : pc' = [pc EXCEPT ![r] = l]
      /\ lines' = [lines EXCEPT ![r] = NoLines] \/ lines' = lines
  BY DEF TrackFails, UpsertFails, SaveFails, Goto, Return, Pushing, Loaded
<1>3. \E m : st' = [st EXCEPT ![r].model = m]
  <2>1. CASE TrackFails(r) BY <2>1 DEF TrackFails
  <2>2. CASE st' = st
    <3>1. st' = [st EXCEPT ![r].model = st[r].model] BY <1>1, <2>2 DEF State
    <3> QED BY <3>1
  <2> QED BY <2>1, <2>2 DEF UpsertFails, SaveFails
<1>4. st'[r].offset = st[r].offset /\ st'[r].seq = st[r].seq /\ st'[r].gen = st[r].gen
  BY <1>1, <1>3 DEF State
<1>5. Quiet(r)
  <2>1. \A q \in Runs \ {r} : st'[q] = st[q] BY <1>1, <1>3
  <2> QED BY <1>1, <1>2, <2>1 DEF Quiet
<1>6. RunInv(r) /\ (Fits' <=> Fits) /\ st[r].gen <= gen BY <1>2 DEF CatchupInv, Fits, Generations
<1>7. StateTrue(st[r])' <=> StateTrue(st[r]) BY <1>2, <1>4, TrueAgrees DEF Agrees
<1>8. pc'[r] \notin {"upsert", "track"} BY <1>1, <1>2
<1>9. RunInv(r)' BY <1>2, <1>4, <1>6, <1>7, <1>8 DEF RunInv
<1> QED BY <1>2, <1>4, <1>5, <1>6, <1>9, QuietRun

(* All lines are pushed: the offset goes to the end of the read.            *)
LEMMA PushedKeeps ==
    ASSUME CatchupInv, TypeOK', NEW r \in Runs, Pushed(r)
    PROVE  CatchupInv'
<1>1. /\ pc \in [Runs -> PCs] /\ st \in [Runs -> State] /\ st[r] \in State
      /\ lines \in [Runs -> ReadLines]
  BY DEF CatchupInv, TypeOK
<1>2. /\ UNCHANGED <<size, written, gen, stored, saved, overlap>>
      /\ pc[r] = "upsert" /\ pc'[r] = "save" /\ lines[r].pos = {}
      /\ pc' = [pc EXCEPT ![r] = "save"]
      /\ st' = [st EXCEPT ![r].offset = IF lines[r].end > @ THEN lines[r].end ELSE @]
      /\ lines' = [lines EXCEPT ![r] = NoLines]
  BY <1>1 DEF Pushed, Goto, Return
<1>3. /\ st'[r].seq = st[r].seq /\ st'[r].gen = st[r].gen
      /\ st'[r].offset = IF lines[r].end > st[r].offset THEN lines[r].end ELSE st[r].offset
  BY <1>1, <1>2 DEF State
<1>4. Quiet(r) BY <1>1, <1>2 DEF Quiet
<1>5. Pushing(r) /\ Loaded(r) BY <1>2 DEF Pushing, Loaded
<1>6. RunInv(r) /\ (Fits' <=> Fits) /\ st[r].gen <= gen BY <1>2 DEF CatchupInv, Fits, Generations
<1>7. ASSUME Fits, st[r].gen = gen PROVE StateTrue(st[r])'
  <2>1. Agrees(st[r], size, written, gen, stored) /\ HasRest(r)
    BY <1>2, <1>5, <1>6, <1>7, TrueAgrees DEF RunInv
  <2>2. written \in SUBSET (1 .. MaxLines) BY WrittenType DEF CatchupInv
  <2>3. st[r].offset \in Nat /\ lines[r].end \in Nat BY <1>1, FieldTypes, BatchType DEF CatchupInv
  <2>4. /\ st[r].offset <= lines[r].end /\ lines[r].end <= size
        /\ {p \in written : st[r].offset < p /\ p <= lines[r].end} = {}
    BY <1>2, <2>1 DEF HasRest, Left
  <2>5. st'[r].offset = lines[r].end BY <1>3, <2>3, <2>4
  <2>6. Rank(written, lines[r].end) = Rank(written, st[r].offset)
    <3>1. Rank(written, lines[r].end)
            = Rank(written, st[r].offset) + Cardinality({p \in written : st[r].offset < p /\ p <= lines[r].end})
      BY <2>2, <2>3, <2>4, RankSplit
    <3>2. Cardinality({p \in written : st[r].offset < p /\ p <= lines[r].end}) = 0
      BY <2>4, FS_EmptySet
    <3>3. Rank(written, st[r].offset) \in Nat BY <2>2, <2>3, RankType
    <3> QED BY <3>1, <3>2, <3>3
  <2>7. \A p \in written : p <= lines[r].end => p <= st[r].offset
    <3>1. \A p \in written : p \in Nat BY <2>2, Positions
    <3>2. \A p \in written : ~(st[r].offset < p /\ p <= lines[r].end) BY <2>4
    <3> QED BY <2>3, <3>1, <3>2
  <2>8. Agrees(st'[r], size', written', gen', stored')
    BY <1>2, <1>3, <2>1, <2>4, <2>5, <2>6, <2>7 DEF Agrees
  <2> QED BY <2>8, TrueAgrees
<1>8. RunInv(r)' BY <1>2, <1>3, <1>5, <1>6, <1>7 DEF RunInv
<1> QED BY <1>2, <1>3, <1>4, <1>5, <1>6, <1>8, QuietRun

(* saveState.                                                               *)
LEMMA SaveKeeps ==
    ASSUME CatchupInv, TypeOK', NEW r \in Runs, Save(r)
    PROVE  CatchupInv'
<1>1. pc \in [Runs -> PCs] BY DEF CatchupInv, TypeOK
<1>2. /\ UNCHANGED <<size, written, gen, stored, st, lines, overlap>>
      /\ pc[r] = "save" /\ pc'[r] = "release" /\ saved' = st[r]
      /\ pc' = [pc EXCEPT ![r] = "release"]
  BY <1>1 DEF Save, Goto
<1>3. Quiet(r) BY <1>1, <1>2 DEF Quiet
<1>4. Pushing(r) /\ Loaded(r) BY <1>2 DEF Pushing, Loaded
<1>5. RunInv(r) /\ (Fits' <=> Fits) /\ st[r].gen <= gen BY <1>2 DEF CatchupInv, Fits, Generations
<1>6. gen \in Nat /\ \A q \in Runs : st[q].gen \in Nat /\ st[q].gen <= gen
  BY GenTypes DEF CatchupInv, Generations
<1>7. SavedStateTrue' BY <1>2, <1>4, <1>5, TrueAgrees DEF SavedStateTrue, RunInv, Fits
<1>8. Apart'
  <2>1. \A q \in Runs : Pushing(q)' => Pushing(q) BY <1>3, <1>4 DEF Quiet, Pushing
  <2> QED BY <1>2, <2>1 DEF CatchupInv, Apart
<1>9. StateTrue(st[r])' <=> StateTrue(st[r]) BY <1>2, TrueAgrees
<1>10. RunInv(r)' BY <1>2, <1>4, <1>5, <1>6, <1>9 DEF RunInv
<1>11. ASSUME NEW q \in Runs \ {r}, Fits', Loaded(q) PROVE saved'.gen <= st[q].gen
  <2>1. CASE gen = 0 BY <1>2, <1>6, <2>1
  <2>2. CASE ~overlap
    <3>1. Pushing(q) BY <1>11 DEF Loaded, Pushing
    <3> QED BY <1>4, <2>2, <3>1 DEF CatchupInv, Apart
  <2> QED BY <1>5, <1>11, <2>1, <2>2 DEF Fits
<1> QED BY <1>2, <1>3, <1>6, <1>7, <1>8, <1>10, <1>11, QuietStep

(* A run that ends, or dies.                                                *)
LEMMA EndKeeps ==
    ASSUME CatchupInv, TypeOK', NEW r \in Runs, Release(r) \/ Crash(r)
    PROVE  CatchupInv'
<1>1. /\ pc \in [Runs -> PCs] /\ st \in [Runs -> State] /\ lines \in [Runs -> ReadLines]
      /\ gen \in Nat
  BY GenTypes DEF CatchupInv, TypeOK
<1>2. /\ UNCHANGED <<size, written, gen, stored, saved, overlap>>
      /\ pc' = [pc EXCEPT ![r] = "idle"] /\ st' = [st EXCEPT ![r] = NewState]
      /\ lines' = [lines EXCEPT ![r] = NoLines]
  BY DEF Release, Crash, Goto, Return
<1>3. Quiet(r) BY <1>1, <1>2 DEF Quiet
<1>4. ~Pushing(r)' /\ ~Loaded(r)' BY <1>1, <1>2 DEF Pushing, Loaded
<1>5. RunInv(r)' BY <1>4 DEF RunInv
<1>6. st'[r].gen <= gen BY <1>1, <1>2 DEF NewState
<1> QED BY <1>2, <1>3, <1>4, <1>5, <1>6, QuietRun

(* The transcript grows: the numbers of its lines do not change.            *)
LEMMA RankGrows ==
    ASSUME TypeOK, Write
    PROVE  /\ \A p \in Nat : p <= size => Rank(written', p) = Rank(written, p)
           /\ \A p \in written' : p \in Nat /\ (p <= size => p \in written)
           /\ written \subseteq written' /\ size' = size + 1
<1>1. size' = size + 1 /\ written' \in {written, written \cup {size + 1}} BY DEF Write
<1>2. size \in Nat /\ \A p \in written : p \in Nat /\ p <= size BY WrittenType
<1>3. \A p \in written' : p \in written \/ p = size + 1 BY <1>1
<1>4. \A p \in written' : p \in Nat /\ (p <= size => p \in written) BY <1>2, <1>3
<1>5. written \subseteq written' BY <1>1
<1>6. ASSUME NEW p \in Nat, p <= size PROVE Rank(written', p) = Rank(written, p)
  <2>1. \A q \in written' : q <= p => q \in written BY <1>2, <1>4, <1>6
  <2>2. {q \in written' : q <= p} = {q \in written : q <= p} BY <1>5, <2>1
  <2> QED BY <2>2 DEF Rank
<1> QED BY <1>1, <1>4, <1>5, <1>6

LEMMA WriteKeeps ==
    ASSUME CatchupInv, TypeOK', Write
    PROVE  CatchupInv'
<1>1. TypeOK BY DEF CatchupInv
<1>2. UNCHANGED <<gen, stored, saved, pc, st, lines, overlap>> BY DEF Write
<1>3. size \in Nat /\ \A p \in written : p \in Nat /\ p <= size BY <1>1, WrittenType
<1>4. /\ \A p \in Nat : p <= size => Rank(written', p) = Rank(written, p)
      /\ \A p \in written' : p \in Nat /\ (p <= size => p \in written)
      /\ written \subseteq written' /\ size' = size + 1
  BY <1>1, RankGrows
<1>5. ASSUME NEW s \in State, Agrees(s, size, written, gen, stored)
      PROVE  Agrees(s, size', written', gen', stored')
  <2>1. s.offset \in Nat /\ s.offset <= size BY <1>5, FieldTypes DEF Agrees
  <2>2. s.offset <= size' BY <1>3, <1>4, <2>1
  <2>3. s.seq = Rank(written', s.offset) BY <1>4, <1>5, <2>1 DEF Agrees
  <2>4. ASSUME NEW p \in written', p <= s.offset
        PROVE  stored'[Rank(written', p)] = [gen |-> gen', pos |-> p]
    <3>1. p \in Nat /\ p <= size BY <1>3, <1>4, <2>1, <2>4
    <3>2. p \in written /\ Rank(written', p) = Rank(written, p) BY <1>4, <3>1
    <3> QED BY <1>2, <1>5, <2>4, <3>2 DEF Agrees
  <2> QED BY <2>2, <2>3, <2>4 DEF Agrees
<1>6. saved \in State /\ \A r \in Runs : st[r] \in State BY DEF CatchupInv, TypeOK
<1>7. (Fits' <=> Fits) /\ Generations' /\ Apart'
  BY <1>2 DEF CatchupInv, Fits, Generations, Apart, Pushing
<1>8. SavedStateTrue' BY <1>2, <1>5, <1>6, TrueAgrees DEF CatchupInv, SavedStateTrue
<1>9. LinesUnderOwnNumber'
  <2> SUFFICES ASSUME gen = 0, NEW k \in 1 .. MaxLines, stored[k] # None
               PROVE  \E p \in written' : k = Rank(written', p) /\ stored[k] = [gen |-> 0, pos |-> p]
    BY <1>2 DEF LinesUnderOwnNumber, Number
  <2>1. PICK p \in written : k = Rank(written, p) /\ stored[k] = [gen |-> 0, pos |-> p]
    BY DEF CatchupInv, LinesUnderOwnNumber, Number
  <2>2. p \in written' /\ Rank(written', p) = Rank(written, p) BY <1>3, <1>4
  <2> QED BY <2>1, <2>2
<1>10. ASSUME NEW r \in Runs PROVE RunInv(r)'
  <2>1. RunInv(r) BY DEF CatchupInv
  <2>2. Loaded(r)' <=> Loaded(r) BY <1>2 DEF Loaded
  <2>3. StateTrue(st[r]) => StateTrue(st[r])' BY <1>2, <1>5, <1>6, TrueAgrees
  <2>4. HasRest(r) => HasRest(r)'
    <3> SUFFICES ASSUME HasRest(r) PROVE HasRest(r)'
      OBVIOUS
    <3>1. st[r].offset \in Nat /\ lines[r].end \in Nat /\ lines[r].end <= size
      BY <1>1, <1>6, FieldTypes, BatchType DEF HasRest
    <3>2. {p \in written' : st[r].offset < p /\ p <= lines[r].end}
            = {p \in written : st[r].offset < p /\ p <= lines[r].end}
      <4>1. \A p \in written' : p <= lines[r].end => p \in written BY <1>3, <1>4, <3>1
      <4> QED BY <1>4, <4>1
    <3>3. Left(r)' = Left(r) BY <1>2 DEF Left, Batch
    <3>4. lines[r].end <= size' BY <1>3, <1>4, <3>1
    <3> QED BY <1>2, <3>2, <3>3, <3>4 DEF HasRest
  <2> QED BY <1>2, <1>7, <2>1, <2>2, <2>3, <2>4 DEF RunInv
<1> QED BY <1>7, <1>8, <1>9, <1>10 DEF CatchupInv

(* It is replaced: no state counts the new file yet.                        *)
LEMMA ReplaceKeeps ==
    ASSUME CatchupInv, TypeOK', Replace
    PROVE  CatchupInv'
<1>1. UNCHANGED <<saved, pc, st, overlap>> /\ gen' = gen + 1 BY DEF Replace
<1>2. /\ gen \in Nat /\ saved.gen \in Nat /\ saved.gen <= gen
      /\ \A r \in Runs : st[r].gen \in Nat /\ st[r].gen <= gen
  BY GenTypes DEF CatchupInv, Generations
<1>3. Generations' /\ gen' # 0 /\ saved'.gen # gen' /\ \A r \in Runs : st'[r].gen # gen'
  BY <1>1, <1>2 DEF Generations
<1>4. SavedStateTrue' /\ LinesUnderOwnNumber' BY <1>3 DEF SavedStateTrue, LinesUnderOwnNumber
<1>5. Apart' BY <1>1 DEF CatchupInv, Apart, Pushing
<1>6. (Fits' => Fits) /\ \A r \in Runs : Loaded(r)' <=> Loaded(r) BY <1>1, <1>3 DEF Fits, Loaded
<1>7. \A r \in Runs : RunInv(r)' BY <1>1, <1>3, <1>6 DEF CatchupInv, RunInv
<1> QED BY <1>3, <1>4, <1>5, <1>7 DEF CatchupInv

(* The lock ages, or nothing happens.                                       *)
LEMMA IdleKeeps ==
    ASSUME CatchupInv, TypeOK', LockAges \/ UNCHANGED vars
    PROVE  CatchupInv'
<1>1. UNCHANGED <<size, written, gen, stored, saved, pc, st, lines, overlap>>
  BY DEF LockAges, vars
<1>2. (Fits' <=> Fits) /\ Generations' /\ Apart'
  BY <1>1 DEF CatchupInv, Fits, Generations, Apart, Pushing
<1>3. SavedStateTrue' /\ LinesUnderOwnNumber'
  BY <1>1, TrueAgrees DEF CatchupInv, SavedStateTrue, LinesUnderOwnNumber, Number
<1>4. ASSUME NEW r \in Runs PROVE RunInv(r)'
  <2>1. StateTrue(st[r])' <=> StateTrue(st[r]) BY <1>1, TrueAgrees
  <2>2. (HasRest(r)' <=> HasRest(r)) /\ (Loaded(r)' <=> Loaded(r))
    BY <1>1 DEF HasRest, Left, Batch, Loaded
  <2>3. RunInv(r) BY DEF CatchupInv
  <2> QED BY <1>1, <1>2, <2>1, <2>2, <2>3 DEF RunInv
<1> QED BY <1>2, <1>3, <1>4 DEF CatchupInv

(* What a batch of run r is when the run's state counts this file.          *)
LEMMA BatchOfRun ==
    ASSUME CatchupInv, NEW r \in Runs, Fits, pc[r] = "upsert", lines[r].pos # {}, st[r].gen = gen
    PROVE  \E m \in Nat :
              /\ m = Max(Batch(r)) /\ m \in written /\ st[r].offset < m /\ m <= lines[r].end
              /\ lines[r].end <= size /\ lines[r].gen = gen
              /\ Batch(r) = {q \in written : st[r].offset < q /\ q <= m}
              /\ lines[r].pos \ Batch(r) = {q \in written : m < q /\ q <= lines[r].end}
<1>1. TypeOK /\ Loaded(r) /\ RunInv(r) BY DEF CatchupInv, Loaded
<1>2. HasRest(r) BY <1>1 DEF RunInv
<1>3. st[r].offset \in Nat /\ lines[r].end \in Nat BY <1>1, FieldTypes, BatchType DEF TypeOK
<1>4. PICK S \in SUBSET (1 .. MaxLines) : S = written BY <1>1, WrittenType
<1>5. PICK o \in Nat : o = st[r].offset BY <1>3
<1>6. PICK e \in Nat : e = lines[r].end BY <1>3
<1>7. PICK L : L = lines[r].pos OBVIOUS
<1>8. PICK b : b = Batch(r) OBVIOUS
<1>9. L = Between(S, o, e) /\ L # {} /\ b = First(L, BatchSize)
  BY <1>2, <1>4, <1>5, <1>6, <1>7, <1>8 DEF HasRest, Left, Batch, Between
<1>10. /\ Max(b) \in b /\ Max(b) \in Nat /\ Max(b) \in S /\ o < Max(b) /\ Max(b) <= e
       /\ b = Between(S, o, Max(b)) /\ L \ b = Between(S, Max(b), e)
  <2>1. BatchSize \in Nat /\ BatchSize > 0 BY Bounds
  <2> QED BY <1>9, <2>1, BatchShape
<1> QED BY <1>2, <1>4, <1>5, <1>6, <1>7, <1>8, <1>10 DEF HasRest, Between

LEMMA UpsertTrue ==
    ASSUME CatchupInv, NEW r \in Runs, Fits, Upsert(r), st[r].gen = gen
    PROVE  /\ \A p \in written : stored'[Rank(written, p)] \in {stored[Rank(written, p)], [gen |-> gen, pos |-> p]}
           /\ \A k \in 1 .. MaxLines :
                stored'[k] = stored[k] \/ \E p \in written : k = Rank(written, p) /\ stored'[k] = [gen |-> gen, pos |-> p]
           /\ Agrees(st'[r], size, written, gen, stored')
           /\ st'[r].offset <= lines[r].end /\ lines[r].end <= size /\ lines[r].gen = gen
           /\ lines[r].pos \ Batch(r) = {p \in written : st'[r].offset < p /\ p <= lines[r].end}
<1>1. TypeOK /\ Loaded(r) /\ RunInv(r) BY DEF CatchupInv, Loaded, Upsert
<1>2. pc[r] = "upsert" /\ lines[r].pos # {} BY DEF Upsert
<1>3. st[r] \in State /\ st \in [Runs -> State] BY <1>1 DEF TypeOK
<1>4. PICK o \in Nat : o = st[r].offset BY <1>3, FieldTypes
<1>5. written \in SUBSET (1 .. MaxLines) /\ size \in Nat BY <1>1, WrittenType
<1>6. PICK m \in Nat :
        /\ m = Max(Batch(r)) /\ m \in written /\ o < m /\ m <= lines[r].end
        /\ lines[r].end <= size /\ lines[r].gen = gen
        /\ Batch(r) = {q \in written : o < q /\ q <= m}
        /\ lines[r].pos \ Batch(r) = {q \in written : m < q /\ q <= lines[r].end}
  BY <1>2, <1>4, BatchOfRun
<1>7. Agrees(st[r], size, written, gen, stored) BY <1>1, TrueAgrees DEF RunInv
<1>8. st[r].seq = Rank(written, o) BY <1>4, <1>7 DEF Agrees
<1>9. stored' = Numbered(Batch(r), gen, Rank(written, o)) BY <1>6, <1>8 DEF Upsert
<1>10. o <= m BY <1>6
<1>11. /\ \A p \in Batch(r) : stored'[Rank(written, p)] = [gen |-> gen, pos |-> p]
       /\ \A k \in 1 .. MaxLines : (\A p \in Batch(r) : k # Rank(written, p)) => stored'[k] = stored[k]
  <2>1. Batch(r) = Between(written, o, m) /\ m \in Nat BY <1>6 DEF Between
  <2>2. PICK S : S = written /\ IsPlaces(S) BY <1>5 DEF IsPlaces
  <2>3. PICK b : b = Batch(r) OBVIOUS
  <2>4. PICK g : g = gen OBVIOUS
  <2>5. b = Between(S, o, m) BY <2>1, <2>2, <2>3
  <2>6. PICK f : f = stored' OBVIOUS
  <2>7. f = Numbered(Between(S, o, m), g, Rank(S, o)) BY <1>9, <2>2, <2>3, <2>4, <2>5, <2>6
  <2>8. ASSUME NEW p \in Between(S, o, m) PROVE f[Rank(S, p)] = [gen |-> g, pos |-> p]
    BY <1>10, <2>2, <2>7, NumberedRight
  <2>9. ASSUME NEW k \in 1 .. MaxLines, \A p \in Between(S, o, m) : k # Rank(S, p)
        PROVE  f[k] = stored[k]
    BY <1>10, <2>2, <2>7, <2>9, NumberedRight
  <2> QED BY <2>2, <2>3, <2>4, <2>5, <2>6, <2>8, <2>9
<1>12. /\ st'[r].offset = m /\ st'[r].seq = Rank(written, o) + Cardinality(Batch(r))
       /\ st'[r].gen = gen
  BY <1>3, <1>6, <1>8 DEF Upsert, State
<1>13. Rank(written, o) + Cardinality(Batch(r)) = Rank(written, m)
  <2>1. Batch(r) = Between(written, o, m) /\ m \in Nat BY <1>6 DEF Between
  <2>2. PICK S \in SUBSET (1 .. MaxLines) : S = written BY <1>5
  <2>3. PICK b : b = Batch(r) OBVIOUS
  <2>4. b = Between(S, o, m) BY <2>1, <2>2, <2>3
  <2>5. Rank(S, o) + Cardinality(b) = Rank(S, m) BY <1>10, <2>1, <2>4, BatchRank
  <2> QED BY <2>2, <2>3, <2>5
<1>14. Batch(r) \subseteq written BY <1>6
<1>15. ASSUME NEW p \in written
       PROVE  stored'[Rank(written, p)] \in {stored[Rank(written, p)], [gen |-> gen, pos |-> p]}
  <2>1. CASE p \in Batch(r) BY <1>11, <2>1
  <2>2. CASE p \notin Batch(r)
    <3>1. \A q \in Batch(r) : Rank(written, p) # Rank(written, q)
      BY <1>5, <1>14, <2>2, RankInjective
    <3>2. p \in Nat BY <1>5, Positions
    <3>3. Rank(written, p) \in 1 .. MaxLines BY <1>5, <3>2, RankType
    <3> QED BY <1>11, <3>1, <3>3
  <2> QED BY <2>1, <2>2
<1>16. ASSUME NEW k \in 1 .. MaxLines
       PROVE  stored'[k] = stored[k] \/ \E p \in written : k = Rank(written, p) /\ stored'[k] = [gen |-> gen, pos |-> p]
  BY <1>11, <1>14
<1>17. m <= size BY <1>1, <1>6, WrittenType
<1>18. ASSUME NEW p \in written, p <= m PROVE stored'[Rank(written, p)] = [gen |-> gen, pos |-> p]
  <2>1. CASE p \in Batch(r) BY <1>11, <2>1
  <2>2. CASE p \notin Batch(r)
    <3>1. p \in Nat BY <1>5, Positions
    <3>2. p <= o BY <1>6, <1>18, <2>2, <3>1
    <3>3. stored[Rank(written, p)] = [gen |-> gen, pos |-> p] BY <1>4, <1>7, <3>2 DEF Agrees
    <3> QED BY <1>15, <3>3
  <2> QED BY <2>1, <2>2
<1>19. Agrees(st'[r], size, written, gen, stored') BY <1>12, <1>13, <1>17, <1>18 DEF Agrees
<1> QED BY <1>6, <1>12, <1>15, <1>16, <1>19

(* UpsertTranscriptLines.                                                   *)
LEMMA UpsertKeeps ==
    ASSUME CatchupInv, TypeOK', NEW r \in Runs, Upsert(r)
    PROVE  CatchupInv'
<1>1. pc \in [Runs -> PCs] /\ st \in [Runs -> State] /\ st[r] \in State BY DEF CatchupInv, TypeOK
<1>2. /\ UNCHANGED <<size, written, gen, saved, lines, overlap>>
      /\ pc[r] = "upsert" /\ pc'[r] = "track" /\ lines[r].pos # {}
      /\ pc' = [pc EXCEPT ![r] = "track"]
      /\ st' = [st EXCEPT ![r].seq = @ + Cardinality(Batch(r)), ![r].offset = Max(Batch(r))]
  BY <1>1 DEF Upsert, Goto
<1>3. st'[r].gen = st[r].gen /\ \A q \in Runs \ {r} : st'[q] = st[q] /\ pc'[q] = pc[q]
  BY <1>1, <1>2 DEF State
<1>4. Pushing(r) /\ Loaded(r) /\ RunInv(r) BY <1>2 DEF CatchupInv, Pushing, Loaded
<1>5. /\ gen \in Nat /\ saved.gen \in Nat /\ saved.gen <= gen
      /\ \A q \in Runs : st[q].gen \in Nat /\ st[q].gen <= gen
  BY GenTypes DEF CatchupInv, Generations
<1>6. Generations' BY <1>2, <1>3, <1>5 DEF Generations
<1>7. \A q \in Runs : Pushing(q)' => Pushing(q) BY <1>3, <1>4 DEF Pushing
<1>8. Apart' BY <1>2, <1>7 DEF CatchupInv, Apart
<1>9. Fits' <=> Fits BY <1>2 DEF Fits
<1>10. CASE Fits /\ st[r].gen = gen
  <2>1. /\ \A p \in written : stored'[Rank(written, p)] \in {stored[Rank(written, p)], [gen |-> gen, pos |-> p]}
        /\ \A k \in 1 .. MaxLines :
             stored'[k] = stored[k] \/ \E p \in written : k = Rank(written, p) /\ stored'[k] = [gen |-> gen, pos |-> p]
        /\ Agrees(st'[r], size, written, gen, stored')
        /\ st'[r].offset <= lines[r].end /\ lines[r].end <= size /\ lines[r].gen = gen
        /\ lines[r].pos \ Batch(r) = {p \in written : st'[r].offset < p /\ p <= lines[r].end}
    BY <1>10, UpsertTrue
  <2>2. \A s : Agrees(s, size, written, gen, stored) => Agrees(s, size', written', gen', stored')
    BY <1>2, <2>1 DEF Agrees
  <2>3. SavedStateTrue' BY <1>2, <2>2, TrueAgrees DEF CatchupInv, SavedStateTrue
  <2>4. LinesUnderOwnNumber'
    <3> SUFFICES ASSUME gen = 0, NEW k \in 1 .. MaxLines, stored'[k] # None
                 PROVE  \E p \in written : k = Rank(written, p) /\ stored'[k] = [gen |-> 0, pos |-> p]
      BY <1>2 DEF LinesUnderOwnNumber, Number
    <3>1. CASE stored'[k] = stored[k]
      BY <3>1 DEF CatchupInv, LinesUnderOwnNumber, Number
    <3>2. CASE stored'[k] # stored[k] BY <2>1, <3>2
    <3> QED BY <3>1, <3>2
  <2>5. ASSUME NEW q \in Runs \ {r} PROVE RunInv(q)'
    <3>1. RunInv(q) BY DEF CatchupInv
    <3>2. StateTrue(st[q]) => StateTrue(st[q])' BY <1>3, <2>2, TrueAgrees
    <3>3. (Loaded(q)' <=> Loaded(q)) /\ (HasRest(q)' <=> HasRest(q))
      BY <1>2, <1>3 DEF Loaded, HasRest, Left, Batch
    <3> QED BY <1>2, <1>3, <1>9, <3>1, <3>2, <3>3 DEF RunInv
  <2>6. RunInv(r)'
    <3>1. StateTrue(st[r])' BY <1>2, <2>1, TrueAgrees
    <3>2. HasRest(r)' BY <1>2, <2>1 DEF HasRest, Left, Batch
    <3> QED BY <1>2, <1>3, <1>4, <1>10, <3>1, <3>2 DEF RunInv
  <2> QED BY <1>6, <1>8, <2>3, <2>4, <2>5, <2>6 DEF CatchupInv
<1>11. CASE Fits /\ st[r].gen # gen
  <2>1. st[r].gen < gen /\ gen # 0 /\ ~overlap BY <1>5, <1>11 DEF Fits
  <2>2. saved.gen <= st[r].gen BY <1>4, <1>11 DEF RunInv
  <2>3. saved.gen # gen BY <1>5, <2>1, <2>2
  <2>4. SavedStateTrue' /\ LinesUnderOwnNumber'
    BY <1>2, <2>1, <2>3 DEF SavedStateTrue, LinesUnderOwnNumber
  <2>5. ASSUME NEW q \in Runs \ {r} PROVE RunInv(q)'
    <3>1. ~Pushing(q) BY <1>4, <2>1 DEF CatchupInv, Apart
    <3>2. ~Loaded(q)' BY <1>3, <3>1 DEF Loaded, Pushing
    <3> QED BY <3>2 DEF RunInv
  <2>6. st'[r].gen # gen' /\ saved'.gen <= st'[r].gen BY <1>2, <1>3, <1>11, <2>2
  <2>7. RunInv(r)' BY <2>6 DEF RunInv
  <2> QED BY <1>6, <1>8, <2>4, <2>5, <2>7 DEF CatchupInv
<1>12. CASE ~Fits
  <2>1. SavedStateTrue' /\ LinesUnderOwnNumber' /\ \A q \in Runs : RunInv(q)'
    BY <1>2, <1>9, <1>12 DEF SavedStateTrue, LinesUnderOwnNumber, RunInv, Fits
  <2> QED BY <1>6, <1>8, <2>1 DEF CatchupInv
<1> QED BY <1>10, <1>11, <1>12

LEMMA CatchupStep ==
    ASSUME CatchupInv, [Next]_vars
    PROVE  CatchupInv'
<1>1. TypeOK' BY TypeStep DEF CatchupInv
<1>2. ASSUME NEW r \in Runs,
             Hook(r) \/ RunStep(r) \/ UpsertFails(r) \/ TrackFails(r) \/ SaveFails(r) \/ Crash(r)
      PROVE  CatchupInv'
  BY <1>1, <1>2, LockSteps, LockTaken, LoadKeeps, SizeKeeps, ReadKeeps, UpsertKeeps, TrackKeeps,
     PushedKeeps, SaveKeeps, EndKeeps, FailuresKeep DEF RunStep
<1> QED BY <1>1, <1>2, WriteKeeps, ReplaceKeeps, IdleKeeps DEF Next

LEMMA CatchupStart == Init => CatchupInv
<1> SUFFICES ASSUME Init PROVE CatchupInv
  OBVIOUS
<1>1. TypeOK BY TypeInit
<1>2. \A r \in Runs : ~Pushing(r) /\ ~Loaded(r) BY DEF Init, Pushing, Loaded
<1>3. Generations BY DEF Init, Generations, NewState
<1>4. Apart /\ \A r \in Runs : RunInv(r) BY <1>2 DEF Apart, RunInv
<1>5. Agrees(saved, size, written, gen, stored)
  <2>1. Rank({}, 0) = 0
    <3>1. {q \in {} : q <= 0} = {} OBVIOUS
    <3> QED BY <3>1, FS_EmptySet DEF Rank
  <2> QED BY <2>1 DEF Init, NewState, Agrees
<1>6. SavedStateTrue BY <1>5, TrueAgrees DEF SavedStateTrue
<1>7. LinesUnderOwnNumber BY DEF Init, LinesUnderOwnNumber
<1> QED BY <1>1, <1>3, <1>4, <1>6, <1>7 DEF CatchupInv

(* The inductive invariant of the catch-up: which runs may push, and what   *)
(* the state and the lines of each of them say of the file.                 *)
THEOREM CatchupInvariance == Spec => []CatchupInv
<1>1. CatchupInv /\ [Next]_vars => CatchupInv' BY CatchupStep
<1> QED BY <1>1, CatchupStart, PTL DEF Spec

(* The variables keep their types.                                          *)
THEOREM CatchupTypes == Spec => []TypeOK
<1>1. CatchupInv => TypeOK BY DEF CatchupInv
<1> QED BY <1>1, CatchupInvariance, PTL

(* For any transcript, any number of runs, any batch size and any number of *)
(* failed calls and crashes: the saved offset and number agree with the     *)
(* file, and every line before the offset is stored under its own number.   *)
THEOREM SavedStateHolds == Spec => []SavedStateTrue
<1>1. CatchupInv => SavedStateTrue BY DEF CatchupInv
<1> QED BY <1>1, CatchupInvariance, PTL

(* And runs that push a growing transcript at the same time never store a   *)
(* line under another one's number.                                         *)
THEOREM LinesKeepTheirNumbers == Spec => []LinesUnderOwnNumber
<1>1. CatchupInv => LinesUnderOwnNumber BY DEF CatchupInv
<1> QED BY <1>1, CatchupInvariance, PTL

-----------------------------------------------------------------------------
(* The session's model.                                                     *)

(* The model last seen after two stretches of lines is the one seen after   *)
(* the second, starting from the first.                                     *)
LEMMA SeenInTurn ==
    ASSUME NEW A \in SUBSET (1 .. MaxLines), NEW B \in SUBSET (1 .. MaxLines), NEW last,
           \A a \in A, b \in B : a < b
    PROVE  Seen(A \cup B, last) = Seen(B, Seen(A, last))
<1>1. Named(A \cup B) = Named(A) \cup Named(B) BY DEF Named
<1>2. CASE Named(B) = {} BY <1>1, <1>2 DEF Seen
<1>3. CASE Named(B) # {}
  <2>1. Named(A \cup B) \in SUBSET (1 .. MaxLines) /\ Named(B) \in SUBSET (1 .. MaxLines) BY DEF Named
  <2>2. Named(A \cup B) # {} BY <1>1, <1>3
  <2>3. Max(Named(B)) \in Named(B) /\ \A p \in Named(B) : p <= Max(Named(B)) BY <1>3, <2>1, LastOf
  <2>4. PICK m : m = Max(Named(B)) OBVIOUS
  <2>5. m \in Named(A \cup B) /\ m \in B BY <1>1, <2>3, <2>4 DEF Named
  <2>6. ASSUME NEW p \in Named(A \cup B) PROVE p <= m
    <3>1. CASE p \in Named(B) BY <2>3, <2>4, <3>1
    <3>2. CASE p \in Named(A)
      <4>1. p \in A BY <3>2 DEF Named
      <4>2. p < m /\ p \in Nat /\ m \in Nat BY <2>5, <4>1, Positions
      <4> QED BY <4>2
    <3> QED BY <1>1, <3>1, <3>2
  <2>7. m = Max(Named(A \cup B)) BY <2>1, <2>2, <2>5, <2>6, LastOf
  <2> QED BY <1>3, <2>2, <2>4, <2>7 DEF Seen
<1> QED BY <1>2, <1>3

(* Lines that name no other model than the last one change nothing.         *)
LEMMA SeenSame ==
    ASSUME NEW B \in SUBSET (1 .. MaxLines), NEW last, \A p \in Named(B) : LineModel[p] = last
    PROVE  Seen(B, last) = last
<1>1. CASE Named(B) = {} BY <1>1 DEF Seen
<1>2. CASE Named(B) # {}
  <2>1. Named(B) \in SUBSET (1 .. MaxLines) BY DEF Named
  <2>2. Max(Named(B)) \in Named(B) BY <1>2, <2>1, LastOf
  <2> QED BY <1>2, <2>2 DEF Seen
<1> QED BY <1>1, <1>2

(* The model last named among the first n lines of a file.                  *)
NamedTo(w, n) == Seen({p \in w : p <= n}, None)

SomewhereFrom(o, n, w, m) == \E k \in o .. n : m = NamedTo(w, k)

LEMMA NamedOn ==
    ASSUME NEW w \in SUBSET (1 .. MaxLines), NEW o \in Nat, NEW n \in Nat, o <= n
    PROVE  NamedTo(w, n) = Seen(Between(w, o, n), NamedTo(w, o))
<1> DEFINE A == {p \in w : p <= o}
           B == Between(w, o, n)
<1>1. \A p \in w : p \in Nat BY Positions
<1>2. A \in SUBSET (1 .. MaxLines) /\ B \in SUBSET (1 .. MaxLines) BY DEF Between
<1>3. \A a \in A, b \in B : a < b BY <1>1 DEF Between
<1>4. {p \in w : p <= n} = A \cup B
  <2>1. \A p \in w : p <= n <=> p \in A \/ p \in B BY <1>1 DEF Between
  <2>2. A \subseteq w /\ B \subseteq w BY DEF Between
  <2> QED BY <2>1, <2>2
<1>5. Seen(A \cup B, None) = Seen(B, Seen(A, None)) BY <1>2, <1>3, SeenInTurn
<1> QED BY <1>4, <1>5 DEF NamedTo

(* The model is unchanged where a stretch of lines only repeats it.         *)
LEMMA NamedSame ==
    ASSUME NEW w \in SUBSET (1 .. MaxLines), NEW o \in Nat, NEW k \in Nat, NEW n \in Nat,
           o <= k, k <= n, \A p \in Named(Between(w, o, n)) : LineModel[p] = NamedTo(w, o)
    PROVE  NamedTo(w, k) = NamedTo(w, o)
<1>1. \A p \in w : p \in Nat BY Positions
<1>2. Between(w, o, k) \in SUBSET (1 .. MaxLines) BY DEF Between
<1>3. Between(w, o, k) \subseteq Between(w, o, n)
  <2>1. \A p \in w : p <= k => p <= n BY <1>1
  <2> QED BY <2>1 DEF Between
<1>4. \A p \in Named(Between(w, o, k)) : LineModel[p] = NamedTo(w, o) BY <1>3 DEF Named
<1>5. Seen(Between(w, o, k), NamedTo(w, o)) = NamedTo(w, o) BY <1>2, <1>4, SeenSame
<1> QED BY <1>5, NamedOn

LEMMA ModelForms ==
    /\ LastNamed(saved.offset) = NamedTo(written, saved.offset)
    /\ LastNamed(saved.offset)' = NamedTo(written', saved'.offset)
    /\ ModelAt(saved.offset) <=> SomewhereFrom(saved.offset, size, written, model)
    /\ ModelAt(saved.offset)' <=> SomewhereFrom(saved'.offset, size', written', model')
    /\ \A r \in Runs :
         /\ LastNamed(st[r].offset) = NamedTo(written, st[r].offset)
         /\ LastNamed(st[r].offset)' = NamedTo(written', st'[r].offset)
         /\ ModelAt(st[r].offset) <=> SomewhereFrom(st[r].offset, size, written, model)
         /\ ModelAt(st[r].offset)' <=> SomewhereFrom(st'[r].offset, size', written', model')
    /\ \A o :
         /\ LastNamed(o) = NamedTo(written, o) /\ LastNamed(o)' = NamedTo(written', o)
         /\ ModelAt(o) <=> SomewhereFrom(o, size, written, model)
         /\ ModelAt(o)' <=> SomewhereFrom(o, size', written', model')
  BY DEF LastNamed, Texts, ModelAt, NamedTo, SomewhereFrom

(* What the history's silence says of the runs.                             *)
LEMMA TrackedRuns ==
    ASSUME CatchupInv, Tracked
    PROVE  /\ Fits /\ saved.offset \in Nat /\ saved.offset <= size
           /\ written \in SUBSET (1 .. MaxLines) /\ size \in Nat
           /\ \A r \in Runs : Loaded(r) =>
                /\ st[r].gen = gen /\ st[r].offset \in Nat /\ st[r].offset <= size
                /\ pc[r] \in {"upsert", "track"} => HasRest(r)
           /\ \A r, q \in Runs : Loaded(r) /\ Loaded(q) => r = q
<1>1. TypeOK /\ gen = 0 /\ ~overlap BY DEF CatchupInv, Tracked
<1>2. gen \in Nat /\ saved.gen = gen /\ \A r \in Runs : st[r].gen = gen
  BY <1>1, GenTypes DEF CatchupInv, Generations
<1>3. StateTrue(saved) BY <1>1, <1>2 DEF CatchupInv, SavedStateTrue
<1>4. saved.offset \in Nat /\ \A r \in Runs : st[r].offset \in Nat BY <1>1, FieldTypes DEF TypeOK
<1>5. written \in SUBSET (1 .. MaxLines) /\ size \in Nat BY <1>1, WrittenType
<1>6. Fits BY <1>1 DEF Fits
<1>7. ASSUME NEW r \in Runs, Loaded(r)
      PROVE  st[r].offset <= size /\ (pc[r] \in {"upsert", "track"} => HasRest(r))
  BY <1>2, <1>6, <1>7 DEF CatchupInv, RunInv, StateTrue
<1>8. \A r, q \in Runs : Loaded(r) /\ Loaded(q) => r = q BY <1>1 DEF CatchupInv, Apart, Loaded, Pushing
<1>9. saved.offset <= size BY <1>3 DEF StateTrue
<1> QED BY <1>2, <1>4, <1>5, <1>6, <1>7, <1>8, <1>9

(* A step of run r that changes neither the file nor what is known of it.   *)
LEMMA ModelQuiet ==
    ASSUME CatchupInv, ModelInv, NEW r \in Runs, Quiet(r), UNCHANGED <<saved, model>>,
           Tracked' => Tracked, Tracked' /\ Loaded(r)' => ModelRun(r)'
    PROVE  ModelInv'
<1>1. UNCHANGED <<size, written, gen, stored>> BY DEF Quiet
<1> SUFFICES ASSUME Tracked' PROVE /\ LastNamed(saved.offset)' = saved'.model /\ ModelAt(saved.offset)'
                                   /\ \A q \in Runs : Loaded(q)' => ModelRun(q)'
  BY DEF ModelInv
<1>2. LastNamed(saved.offset)' = saved'.model /\ ModelAt(saved.offset)'
  BY <1>1, ModelForms DEF ModelInv
<1>3. ASSUME NEW q \in Runs \ {r}, Loaded(q)' PROVE ModelRun(q)'
  <2>1. pc'[q] = pc[q] /\ st'[q] = st[q] /\ lines'[q] = lines[q] BY DEF Quiet
  <2>2. Loaded(q) BY <1>3, <2>1 DEF Loaded
  <2>3. ModelRun(q) BY <2>2 DEF ModelInv
  <2>4. pc'[q] # "track" => st'[q].model = LastNamed(st[q].offset)' /\ ModelAt(st[q].offset)'
    BY <1>1, <2>1, <2>3, ModelForms DEF ModelRun
  <2>5. \A o : BatchFrom(q, o) => BatchFrom(q, o)'
    BY <1>1, <2>1, ModelForms DEF BatchFrom, Batch
  <2> QED BY <1>1, <2>1, <2>3, <2>4, <2>5 DEF ModelRun
<1> QED BY <1>2, <1>3

LEMMA ModelSteps1 ==
    ASSUME CatchupInv, ModelInv, NEW r \in Runs,
           \/ Hook(r) \/ StatLock(r) \/ RemoveLock(r) \/ OpenLock(r)
           \/ Release(r) \/ Crash(r)
    PROVE  ModelInv'
<1>1. /\ pc \in [Runs -> PCs] /\ st \in [Runs -> State] /\ lines \in [Runs -> ReadLines]
  BY DEF CatchupInv, TypeOK
<1>2. UNCHANGED <<size, written, gen, stored, saved, model, untracked>> /\ (overlap => overlap')
  <2>1. UNCHANGED <<size, written, gen, stored, saved, model, untracked>>
    BY DEF Hook, StatLock, RemoveLock, OpenLock, Release, Crash
  <2>2. overlap' = overlap \/ overlap' = (overlap \/ \E q \in Runs : Pushing(q))
    BY DEF Hook, StatLock, RemoveLock, OpenLock, Release, Crash
  <2>3. overlap => overlap' BY <2>2, Zenon
  <2> QED BY <2>1, <2>3
<1>3. \E l \in {"open", "stat", "idle", "remove", "load"} : pc' = [pc EXCEPT ![r] = l]
  BY DEF Hook, StatLock, RemoveLock, OpenLock, Release, Crash, Goto
<1>4. \A q \in Runs \ {r} : st'[q] = st[q] /\ lines'[q] = lines[q]
  BY <1>1 DEF Hook, StatLock, RemoveLock, OpenLock, Release, Crash, Return
<1>5. Quiet(r) BY <1>1, <1>2, <1>3, <1>4 DEF Quiet
<1>6. ~Loaded(r)' BY <1>1, <1>3 DEF Loaded
<1>7. Tracked' => Tracked BY <1>2 DEF Tracked
<1> QED BY <1>2, <1>5, <1>6, <1>7, ModelQuiet

LEMMA ModelSteps2 ==
    ASSUME CatchupInv, ModelInv, NEW r \in Runs,
           LoadState(r) \/ CheckSize(r) \/ Read(r) \/ UpsertFails(r) \/ SaveFails(r)
    PROVE  ModelInv'
<1>1. /\ pc \in [Runs -> PCs] /\ st \in [Runs -> State] /\ lines \in [Runs -> ReadLines]
  BY DEF CatchupInv, TypeOK
<1>2. UNCHANGED <<size, written, gen, stored, saved, model, untracked, overlap>>
  BY DEF LoadState, CheckSize, Read, UpsertFails, SaveFails
<1>3. \E l \in {"size", "read", "upsert", "save", "release"} : pc' = [pc EXCEPT ![r] = l]
  BY DEF LoadState, CheckSize, Read, UpsertFails, SaveFails, Goto
<1>4. \A q \in Runs \ {r} : st'[q] = st[q] /\ lines'[q] = lines[q]
  BY <1>1 DEF LoadState, CheckSize, Read, UpsertFails, SaveFails, Return
<1>5. Quiet(r) BY <1>1, <1>2, <1>3, <1>4 DEF Quiet
<1>6. Tracked' => Tracked BY <1>2 DEF Tracked
<1>7. pc'[r] # "track" BY <1>1, <1>3
<1>8. ASSUME Tracked' PROVE ModelRun(r)'
  <2>1. Tracked BY <1>6, <1>8
  <2>2. saved.offset \in Nat /\ saved.model = NamedTo(written, saved.offset)
        /\ SomewhereFrom(saved.offset, size, written, model)
    BY <2>1, TrackedRuns, ModelForms DEF ModelInv
  <2>3. CASE LoadState(r)
    <3>1. st'[r] = saved BY <1>1, <2>3 DEF LoadState
    <3>2. saved.offset <= saved.offset BY <2>2
    <3> QED BY <1>2, <1>7, <2>2, <3>1, <3>2, ModelForms DEF ModelRun
  <2>4. CASE CheckSize(r) \/ Read(r) \/ UpsertFails(r) \/ SaveFails(r)
    <3>1. Loaded(r) /\ pc[r] # "track"
      BY <2>4 DEF CheckSize, Read, UpsertFails, SaveFails, Loaded
    <3>2. ModelRun(r) BY <2>1, <3>1 DEF ModelInv
    <3>3. st[r].offset \in Nat /\ st[r].offset <= size /\ size \in Nat BY <2>1, <3>1, TrackedRuns
    <3>4. ~(size < st[r].offset) BY <3>3
    <3>5. st'[r] = st[r] BY <1>1, <2>4, <3>4 DEF CheckSize, Read, UpsertFails, SaveFails
    <3> QED BY <1>2, <1>7, <3>1, <3>2, <3>5, ModelForms DEF ModelRun
  <2> QED BY <2>3, <2>4
<1> QED BY <1>2, <1>5, <1>6, <1>8, ModelQuiet

(* The batch is stored and its models are not recorded yet.                 *)
LEMMA ModelUpsert ==
    ASSUME CatchupInv, ModelInv, NEW r \in Runs, Upsert(r)
    PROVE  ModelInv'
<1>1. /\ pc \in [Runs -> PCs] /\ st \in [Runs -> State] /\ st[r] \in State BY DEF CatchupInv, TypeOK
<1>2. UNCHANGED <<size, written, gen, saved, model, untracked, overlap, lines>> BY DEF Upsert
<1>3. /\ pc[r] = "upsert" /\ pc'[r] = "track" /\ lines[r].pos # {}
      /\ st'[r].model = st[r].model /\ st'[r].offset = Max(Batch(r))
  BY <1>1 DEF Upsert, Goto, State
<1> SUFFICES ASSUME Tracked' PROVE /\ LastNamed(saved.offset)' = saved'.model /\ ModelAt(saved.offset)'
                                   /\ \A q \in Runs : Loaded(q)' => ModelRun(q)'
  BY DEF ModelInv
<1>4. Tracked BY <1>2 DEF Tracked
<1>5. Loaded(r) /\ ModelRun(r) BY <1>3, <1>4 DEF Loaded, ModelInv
<1>6. LastNamed(saved.offset)' = saved'.model /\ ModelAt(saved.offset)'
  BY <1>2, <1>4, ModelForms DEF ModelInv
<1>7. ASSUME NEW q \in Runs \ {r} PROVE ~Loaded(q)'
  <2>1. ~Loaded(q) BY <1>4, <1>5, TrackedRuns
  <2>2. pc'[q] = pc[q] BY <1>1 DEF Upsert, Goto
  <2> QED BY <2>1, <2>2 DEF Loaded
<1>8. ModelRun(r)'
  <2>1. Fits /\ st[r].gen = gen /\ st[r].offset \in Nat BY <1>4, <1>5, TrackedRuns
  <2>2. PICK o \in Nat : o = st[r].offset BY <2>1
  <2>3. PICK m \in Nat : /\ m = Max(Batch(r)) /\ o < m /\ m <= lines[r].end /\ lines[r].end <= size
                         /\ Batch(r) = {p \in written : o < p /\ p <= m}
    BY <1>3, <2>1, <2>2, BatchOfRun
  <2>4. saved.offset \in Nat /\ saved.offset <= o /\ size \in Nat
    BY <1>4, <1>5, <2>2, TrackedRuns DEF ModelRun
  <2>5. lines[r].end \in Nat BY BatchType DEF CatchupInv
  <2>6. o \in saved'.offset .. st'[r].offset /\ o \in 0 .. size' BY <1>2, <1>3, <2>3, <2>4, <2>5
  <2>7. st'[r].model = LastNamed(o)' /\ ModelAt(o)'
    BY <1>2, <1>3, <1>5, <2>2, ModelForms DEF ModelRun
  <2>8. Batch(r)' = {p \in written' : o < p /\ p <= st'[r].offset}
    BY <1>2, <1>3, <2>3 DEF Batch
  <2>9. BatchFrom(r, o)' BY <2>6, <2>7, <2>8 DEF BatchFrom
  <2>10. saved'.offset <= st'[r].offset BY <1>2, <1>3, <2>3, <2>4
  <2> QED BY <1>3, <2>6, <2>9, <2>10 DEF ModelRun
<1> QED BY <1>6, <1>7, <1>8

(* The models of the batch are recorded.                                    *)
LEMMA ModelTrack ==
    ASSUME CatchupInv, ModelInv, NEW r \in Runs, Track(r)
    PROVE  ModelInv'
<1>1. /\ pc \in [Runs -> PCs] /\ st \in [Runs -> State] /\ st[r] \in State BY DEF CatchupInv, TypeOK
<1>2. UNCHANGED <<size, written, gen, saved, untracked, overlap>> BY DEF Track
<1>3. /\ pc[r] = "track" /\ pc'[r] = "upsert"
      /\ st'[r].model = Seen(Batch(r), st[r].model) /\ st'[r].offset = st[r].offset
      /\ model' = SetModel(Batch(r), st[r].model, model)
  BY <1>1 DEF Track, Goto, State
<1> SUFFICES ASSUME Tracked' PROVE /\ LastNamed(saved.offset)' = saved'.model /\ ModelAt(saved.offset)'
                                   /\ \A q \in Runs : Loaded(q)' => ModelRun(q)'
  BY DEF ModelInv
<1>4. Tracked BY <1>2 DEF Tracked
<1>5. Loaded(r) /\ ModelRun(r) BY <1>3, <1>4 DEF Loaded, ModelInv
<1>6. ASSUME NEW q \in Runs \ {r} PROVE ~Loaded(q)'
  <2>1. ~Loaded(q) BY <1>4, <1>5, TrackedRuns
  <2>2. pc'[q] = pc[q] BY <1>1 DEF Track, Goto
  <2> QED BY <2>1, <2>2 DEF Loaded
<1>7. /\ saved.offset \in Nat /\ st[r].offset \in Nat /\ st[r].offset <= size /\ size \in Nat
      /\ written \in SUBSET (1 .. MaxLines)
  BY <1>4, <1>5, TrackedRuns
<1>8. PICK n \in Nat : n = st[r].offset BY <1>7
<1>9. PICK w \in SUBSET (1 .. MaxLines) : w = written BY <1>7
<1>10. PICK o \in 0 .. size : BatchFrom(r, o) BY <1>3, <1>5 DEF ModelRun
<1>11. /\ o \in Nat /\ saved.offset <= o /\ o <= n /\ n <= size
       /\ st[r].model = NamedTo(w, o) /\ SomewhereFrom(o, size, w, model)
       /\ Batch(r) = Between(w, o, n)
  BY <1>7, <1>8, <1>9, <1>10, ModelForms DEF BatchFrom, Between
<1>12. st'[r].model = NamedTo(w, n) BY <1>3, <1>11, NamedOn
<1>13. SomewhereFrom(n, size, w, model')
  <2>1. n \in n .. size BY <1>7, <1>11
  <2>2. CASE \A p \in Named(Between(w, o, n)) : LineModel[p] = NamedTo(w, o)
    <3>1. model' = model BY <1>3, <1>11, <2>2 DEF SetModel
    <3>2. PICK k \in o .. size : model = NamedTo(w, k) BY <1>11 DEF SomewhereFrom
    <3>3. k \in Nat /\ o <= k /\ k <= size BY <1>7, <1>11
    <3>4. CASE k >= n
      <4>1. k \in n .. size BY <1>7, <3>3, <3>4
      <4> QED BY <3>1, <3>2, <4>1 DEF SomewhereFrom
    <3>5. CASE k < n
      <4>1. k <= n /\ n <= n BY <3>3, <3>5
      <4>2. NamedTo(w, k) = NamedTo(w, o) BY <1>11, <2>2, <3>3, <4>1, NamedSame
      <4>3. NamedTo(w, n) = NamedTo(w, o) BY <1>11, <2>2, <4>1, NamedSame
      <4> QED BY <2>1, <3>1, <3>2, <4>2, <4>3 DEF SomewhereFrom
    <3> QED BY <3>3, <3>4, <3>5
  <2>3. CASE ~ \A p \in Named(Between(w, o, n)) : LineModel[p] = NamedTo(w, o)
    <3>1. model' = Seen(Between(w, o, n), NamedTo(w, o)) BY <1>3, <1>11, <2>3 DEF SetModel
    <3>2. model' = NamedTo(w, n) BY <1>11, <3>1, NamedOn
    <3> QED BY <2>1, <3>2 DEF SomewhereFrom
  <2> QED BY <2>2, <2>3
<1>14. ModelRun(r)'
  BY <1>2, <1>3, <1>8, <1>9, <1>5, <1>12, <1>13, ModelForms DEF ModelRun
<1>15. ModelAt(saved.offset)'
  <2>1. PICK k \in n .. size : model' = NamedTo(w, k) BY <1>13 DEF SomewhereFrom
  <2>2. k \in saved.offset .. size BY <1>7, <1>11
  <2>3. SomewhereFrom(saved.offset, size, w, model') BY <2>1, <2>2 DEF SomewhereFrom
  <2> QED BY <1>2, <1>9, <2>3, ModelForms
<1>16. LastNamed(saved.offset)' = saved'.model BY <1>2, <1>4, ModelForms DEF ModelInv
<1> QED BY <1>6, <1>14, <1>15, <1>16

(* Trailing blank lines are consumed.                                       *)
LEMMA ModelPushed ==
    ASSUME CatchupInv, ModelInv, NEW r \in Runs, Pushed(r)
    PROVE  ModelInv'
<1>1. /\ pc \in [Runs -> PCs] /\ st \in [Runs -> State] /\ st[r] \in State
      /\ lines \in [Runs -> ReadLines]
  BY DEF CatchupInv, TypeOK
<1>2. UNCHANGED <<size, written, gen, stored, saved, model, untracked, overlap>> BY DEF Pushed
<1>3. /\ pc[r] = "upsert" /\ pc'[r] = "save" /\ lines[r].pos = {}
      /\ st'[r].model = st[r].model
      /\ st'[r].offset = IF lines[r].end > st[r].offset THEN lines[r].end ELSE st[r].offset
  BY <1>1 DEF Pushed, Goto, State
<1>4. Quiet(r) BY <1>1, <1>2 DEF Quiet, Pushed, Goto, Return
<1>5. Tracked' => Tracked BY <1>2 DEF Tracked
<1>6. ASSUME Tracked' PROVE ModelRun(r)'
  <2>1. Tracked BY <1>5, <1>6
  <2>2. Loaded(r) /\ ModelRun(r) BY <1>3, <2>1 DEF Loaded, ModelInv
  <2>3. /\ saved.offset \in Nat /\ st[r].offset \in Nat /\ size \in Nat
        /\ written \in SUBSET (1 .. MaxLines) /\ HasRest(r)
    BY <1>3, <2>1, <2>2, TrackedRuns
  <2>4. lines[r].end \in Nat BY BatchType DEF CatchupInv
  <2>5. PICK o \in Nat : o = st[r].offset BY <2>3
  <2>6. PICK n \in Nat : n = lines[r].end BY <2>4
  <2>7. PICK w \in SUBSET (1 .. MaxLines) : w = written BY <2>3
  <2>8. saved.offset <= o /\ o <= n /\ n <= size /\ Between(w, o, n) = {}
    BY <1>3, <2>2, <2>3, <2>5, <2>6, <2>7 DEF HasRest, Left, ModelRun, Between
  <2>9. st'[r].offset = n BY <1>3, <2>5, <2>6, <2>8
  <2>10. \A p \in Named(Between(w, o, n)) : LineModel[p] = NamedTo(w, o) BY <2>8 DEF Named
  <2>11. n <= n BY <2>6
  <2>12. NamedTo(w, n) = NamedTo(w, o) BY <2>8, <2>10, <2>11, NamedSame
  <2>13. st[r].model = NamedTo(w, o) /\ SomewhereFrom(o, size, w, model)
    BY <1>3, <2>2, <2>5, <2>7, ModelForms DEF ModelRun
  <2>14. SomewhereFrom(n, size, w, model)
    <3>1. PICK k \in o .. size : model = NamedTo(w, k) BY <2>13 DEF SomewhereFrom
    <3>2. k \in Nat /\ o <= k /\ k <= size BY <2>3
    <3>3. CASE k >= n
      <4>1. k \in n .. size BY <2>3, <3>2, <3>3
      <4> QED BY <3>1, <4>1 DEF SomewhereFrom
    <3>4. CASE k < n
      <4>1. k <= n BY <3>2, <3>4
      <4>2. NamedTo(w, k) = NamedTo(w, o) BY <2>10, <3>2, <4>1, NamedSame
      <4>3. n \in n .. size BY <2>3, <2>8
      <4> QED BY <2>12, <3>1, <4>2, <4>3 DEF SomewhereFrom
    <3> QED BY <3>2, <3>3, <3>4
  <2>15. saved'.offset <= st'[r].offset BY <1>2, <2>3, <2>8, <2>9
  <2> QED BY <1>2, <1>3, <2>7, <2>9, <2>12, <2>13, <2>14, <2>15, ModelForms DEF ModelRun
<1> QED BY <1>2, <1>4, <1>5, <1>6, ModelQuiet

(* saveState.                                                               *)
LEMMA ModelSave ==
    ASSUME CatchupInv, ModelInv, NEW r \in Runs, Save(r)
    PROVE  ModelInv'
<1>1. pc \in [Runs -> PCs] BY DEF CatchupInv, TypeOK
<1>2. /\ UNCHANGED <<size, written, gen, model, untracked, overlap, st>>
      /\ pc[r] = "save" /\ pc'[r] = "release" /\ saved' = st[r]
  BY <1>1 DEF Save, Goto
<1> SUFFICES ASSUME Tracked' PROVE /\ LastNamed(saved.offset)' = saved'.model /\ ModelAt(saved.offset)'
                                   /\ \A q \in Runs : Loaded(q)' => ModelRun(q)'
  BY DEF ModelInv
<1>3. Tracked BY <1>2 DEF Tracked
<1>4. Loaded(r) /\ ModelRun(r) BY <1>2, <1>3 DEF Loaded, ModelInv
<1>5. ASSUME NEW q \in Runs \ {r} PROVE ~Loaded(q)'
  <2>1. ~Loaded(q) BY <1>3, <1>4, TrackedRuns
  <2>2. pc'[q] = pc[q] BY <1>1 DEF Save, Goto
  <2> QED BY <2>1, <2>2 DEF Loaded
<1>6. LastNamed(saved.offset)' = saved'.model /\ ModelAt(saved.offset)'
  BY <1>2, <1>4, ModelForms DEF ModelRun
<1>7. ModelRun(r)'
  <2>1. st[r].offset \in Nat BY <1>3, <1>4, TrackedRuns
  <2>2. saved'.offset <= st'[r].offset BY <1>2, <2>1
  <2> QED BY <1>2, <1>4, <2>2, ModelForms DEF ModelRun
<1> QED BY <1>5, <1>6, <1>7

(* The transcript grows.                                                    *)
LEMMA ModelWrite ==
    ASSUME CatchupInv, ModelInv, Write
    PROVE  ModelInv'
<1>1. TypeOK BY DEF CatchupInv
<1>2. UNCHANGED <<gen, saved, model, pc, st, lines, overlap, untracked>> BY DEF Write
<1>3. size \in Nat /\ \A p \in written : p \in Nat /\ p <= size BY <1>1, WrittenType
<1>4. /\ \A p \in written' : p \in Nat /\ (p <= size => p \in written)
      /\ written \subseteq written' /\ size' = size + 1
  BY <1>1, RankGrows
<1>5. ASSUME NEW n \in Nat, n <= size PROVE NamedTo(written', n) = NamedTo(written, n)
  <2>1. \A p \in written' : p <= n => p \in written BY <1>3, <1>4, <1>5
  <2>2. {p \in written' : p <= n} = {p \in written : p <= n} BY <1>4, <2>1
  <2> QED BY <2>2 DEF NamedTo
<1>6. ASSUME NEW o \in Nat, SomewhereFrom(o, size, written, model)
      PROVE  SomewhereFrom(o, size', written', model')
  <2>1. PICK k \in o .. size : model = NamedTo(written, k) BY <1>6 DEF SomewhereFrom
  <2>2. k \in Nat /\ k <= size /\ k \in o .. size' BY <1>3, <1>4
  <2>3. NamedTo(written', k) = NamedTo(written, k) BY <1>5, <2>2
  <2> QED BY <1>2, <2>1, <2>2, <2>3 DEF SomewhereFrom
<1> SUFFICES ASSUME Tracked' PROVE /\ LastNamed(saved.offset)' = saved'.model /\ ModelAt(saved.offset)'
                                   /\ \A q \in Runs : Loaded(q)' => ModelRun(q)'
  BY DEF ModelInv
<1>7. Tracked BY <1>2 DEF Tracked
<1>8. LastNamed(saved.offset)' = saved'.model /\ ModelAt(saved.offset)'
  <2>1. saved.offset \in Nat /\ saved.offset <= size BY <1>7, TrackedRuns
  <2> QED BY <1>2, <1>5, <1>6, <1>7, <2>1, ModelForms DEF ModelInv
<1>9. ASSUME NEW q \in Runs, Loaded(q)' PROVE ModelRun(q)'
  <2>1. Loaded(q) /\ ModelRun(q) BY <1>2, <1>7, <1>9 DEF Loaded, ModelInv
  <2>2. st[q].offset \in Nat /\ st[q].offset <= size BY <1>7, <2>1, TrackedRuns
  <2>3. pc[q] # "track" => st'[q].model = LastNamed(st[q].offset)' /\ ModelAt(st[q].offset)'
    BY <1>2, <1>5, <1>6, <2>1, <2>2, ModelForms DEF ModelRun
  <2>4. ASSUME NEW o \in 0 .. size, BatchFrom(q, o) PROVE BatchFrom(q, o)' /\ o \in 0 .. size'
    <3>1. o \in Nat /\ o <= size /\ o \in 0 .. size' BY <1>3, <1>4
    <3>2. st[q].model = LastNamed(o)' /\ ModelAt(o)' BY <1>5, <1>6, <2>4, <3>1, ModelForms DEF BatchFrom
    <3>3. {p \in written' : o < p /\ p <= st[q].offset} = {p \in written : o < p /\ p <= st[q].offset}
      <4>1. \A p \in written' : p <= st[q].offset => p \in written BY <1>3, <1>4, <2>2
      <4> QED BY <1>4, <4>1
    <3> QED BY <1>2, <2>4, <3>1, <3>2, <3>3 DEF BatchFrom, Batch
  <2> QED BY <1>2, <2>1, <2>3, <2>4 DEF ModelRun
<1> QED BY <1>8, <1>9

LEMMA ModelIdle ==
    ASSUME CatchupInv, ModelInv, LockAges \/ UNCHANGED vars
    PROVE  ModelInv'
<1>1. UNCHANGED <<size, written, gen, saved, model, pc, st, lines, overlap, untracked>>
  BY DEF LockAges, vars
<1>2. (Tracked' <=> Tracked) /\ \A q \in Runs : Loaded(q)' <=> Loaded(q) BY <1>1 DEF Tracked, Loaded
<1>3. \A q \in Runs : \A o : BatchFrom(q, o) => BatchFrom(q, o)'
  BY <1>1, ModelForms DEF BatchFrom, Batch
<1>4. ASSUME NEW q \in Runs, ModelRun(q) PROVE ModelRun(q)'
  BY <1>1, <1>3, <1>4, ModelForms DEF ModelRun
<1> QED BY <1>1, <1>2, <1>4, ModelForms DEF ModelInv

LEMMA ModelStep ==
    ASSUME CatchupInv, ModelInv, [Next]_vars
    PROVE  ModelInv'
<1>1. CASE Replace
  <2>1. gen' = gen + 1 /\ gen \in Nat BY <1>1, GenTypes DEF Replace, CatchupInv
  <2>2. ~Tracked' BY <2>1 DEF Tracked
  <2> QED BY <2>2 DEF ModelInv
<1>2. ASSUME NEW r \in Runs, TrackFails(r) PROVE ModelInv'
  <2>1. ~Tracked' BY <1>2 DEF TrackFails, Tracked
  <2> QED BY <2>1 DEF ModelInv
<1>3. ASSUME NEW r \in Runs,
             Hook(r) \/ RunStep(r) \/ UpsertFails(r) \/ TrackFails(r) \/ SaveFails(r) \/ Crash(r)
      PROVE  ModelInv'
  BY <1>2, <1>3, ModelSteps1, ModelSteps2, ModelUpsert, ModelTrack, ModelPushed, ModelSave DEF RunStep
<1> QED BY <1>1, <1>3, ModelWrite, ModelIdle DEF Next

LEMMA ModelStart == Init => ModelInv
<1> SUFFICES ASSUME Init PROVE ModelInv
  OBVIOUS
<1>1. \A r \in Runs : ~Loaded(r) BY DEF Init, Loaded
<1>2. NamedTo({}, 0) = None
  <2>1. {p \in {} : p <= 0} = {} OBVIOUS
  <2>2. Named({}) = {} BY DEF Named
  <2> QED BY <2>1, <2>2 DEF NamedTo, Seen
<1>3. saved.model = LastNamed(saved.offset) BY <1>2, ModelForms DEF Init, NewState
<1>4. SomewhereFrom(saved.offset, size, written, model) BY <1>2 DEF Init, NewState, SomewhereFrom
<1> QED BY <1>1, <1>3, <1>4, ModelForms DEF ModelInv

(* For any transcript, batch size and number of runs, failed upserts, saves *)
(* and crashes: between runs the session's model is the one last named by   *)
(* the lines before the offset, or by those that a dead run had pushed.     *)
THEOREM ModelFollowsPushedLines == Spec => []ModelOfPushedLines
<1>1. CatchupInv /\ ModelInv /\ [Next]_vars => (CatchupInv /\ ModelInv)' BY CatchupStep, ModelStep
<1>2. Init => CatchupInv /\ ModelInv BY CatchupStart, ModelStart
<1>3. CatchupInv /\ ModelInv => ModelOfPushedLines
  BY DEF ModelInv, ModelOfPushedLines, Tracked
<1> QED BY <1>1, <1>2, <1>3, PTL DEF Spec
=============================================================================
