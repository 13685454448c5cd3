---------------------------- MODULE PalaceProofs ----------------------------
(***************************************************************************)
(* The planning service on its stores, proved for any number of clients,    *)
(* calls, documents and faults and for every menu of requests.              *)
(***************************************************************************)
EXTENDS Palace, TLAPS

(* Versions with their stamps, wherever a document or a read of one is.     *)
Written ==
    {<<1, 1>>}
    \cup {<<stored[d].ver, stored[d].updated>> : d \in {e \in Docs : stored[e] # None}}
    \cup {<<copy[x[1]][x[2]].ver, copy[x[1]][x[2]].updated>> : x \in {y \in Clients \X Docs : copy[y[1]][y[2]] # None}}
    \cup {<<op[o].snap.ver, op[o].snap.updated>> : o \in {p \in Agents : op[p] # None}}
    \cup {<<op[o].base, op[o].stamp>> : o \in {p \in Agents : driver = "clued" /\ op[p] # None /\ op[p].base # 0}}

(* A version has one stamp, and neither is beyond what clocks may say.      *)
StampInv ==
    /\ now >= 1
    /\ \A w \in Written : w[1] \in 1 .. writes /\ w[2] \in 1 .. now + Skew
    /\ \A v, w \in Written : v[1] = w[1] => v[2] = w[2]

(* The steps an operation of each kind takes.                               *)
StepInv ==
    \A o \in Agents : op[o] # None =>
        /\ op[o].step \in {"lock", "takeover", "reread", "recheck", "unlock"} => op[o].kind = "claim"
        /\ op[o].step = "takeover" => driver = "file"
        /\ op[o].kind \in {"pull", "push"} => driver = "clued"
        /\ op[o].kind \in {"status", "create"} => op[o].arg \in Statuses
        /\ op[o].step = "save" => op[o].kind \in {"edit", "status", "claim"}

(* o has read the document it will write.                                   *)
HasRead(o) ==
    /\ op[o] # None
    /\ \/ op[o].step = "put" /\ op[o].kind # "pull"
       \/ op[o].step = "save"
       \/ op[o].step = "gate" /\ op[o].kind \in {"status", "claim", "delete"}

(* Until its client reads or writes a newer version, the stamp it will send *)
(* is that of its own read, unless it has none.                             *)
IfMatchInv ==
    \A o \in Agents : driver = "clued" /\ HasRead(o) =>
        op[o].reseen \/ seen[ClientOf[o]][op[o].doc] \in {0, op[o].stamp}

(* A sync that must not replace a newer document has an older one's stamp.  *)
PushInv ==
    \A o \in Agents : op[o] # None /\ op[o].kind = "push" /\ op[o].step = "put" /\ op[o].arg # "overwrite" =>
        op[o].stamp = 0 \/ op[o].snap.updated >= op[o].stamp

(* What a client remembers, and what its operations read, is no later than  *)
(* a clock may say.                                                         *)
SeenInv ==
    /\ \A c \in Clients, d \in Docs : IF driver = "file" THEN seen[c][d] = 0 ELSE seen[c][d] <= now + Skew
    /\ \A o \in Agents : driver = "clued" /\ op[o] # None => op[o].stamp <= now + Skew

(* save's stamp is no further behind the one that was read than the clocks  *)
(* are apart.                                                               *)
SaveInv ==
    \A o \in Agents : op[o] # None /\ op[o].step = "put" /\ op[o].kind \in Saves =>
        /\ op[o].at \in 1 .. now + Skew
        /\ driver = "clued" => op[o].stamp <= op[o].at + Skew

DependenciesFinished(d) == \A e \in Docs : <<d, e>> \in Depends => e \in finished

(* A document of d, wherever it is, was started after its dependencies.     *)
Started(d, doc) == d \notin ungated /\ doc.status # "ready" => DependenciesFinished(d)

DependInv ==
    /\ \A d \in Docs : stored[d] # None => Started(d, stored[d])
    /\ \A c \in Clients, d \in Docs : copy[c][d] # None => Started(d, copy[c][d])
    /\ \A o \in Agents : op[o] # None => Started(op[o].doc, op[o].snap)
    /\ \A o \in Agents :
         op[o] # None /\ op[o].step \in {"save", "put"} /\ op[o].kind \in {"status", "claim"} /\ ~ op[o].force
           /\ op[o].doc \notin ungated /\ Target(o) # "ready" => DependenciesFinished(op[o].doc)
    /\ \A d \in Docs : stored[d] # None /\ stored[d].status = "complete" => d \in finished

(* The claim o has the lock of its document.                                *)
HasLock(o) == lock[op[o].doc] = [holder |-> o, taken |-> op[o].taken]

LeaseInv == driver = "clued" => \A o \in Agents : InClaim(o) => Overran(o) \/ HasLock(o)

Orderly == driver = "file" /\ ~ overran /\ crashes = 0

LockFileInv ==
    /\ driver = "file" => \A o \in Agents : Overran(o) => overran
    /\ Orderly =>
         /\ \A o \in Agents : InClaim(o) => HasLock(o)
         /\ \A o \in Agents : op[o] # None => op[o].step # "takeover"
         /\ \A d \in Docs : lock[d] # None =>
               InClaim(lock[d].holder) /\ op[lock[d].holder].doc = d /\ HasLock(lock[d].holder)

(* A claim that may still write.                                            *)
MayWin(o) ==
    op[o] # None /\ op[o].kind = "claim" /\ op[o].step \in {"gate", "save", "put"} /\ ~ op[o].force

(* Nobody but o was told to hold d, unless without having looked.           *)
NobodyElse(d, o) == \A p \in grants[d] : p = o \/ <<d, p>> \in unchecked

(* A claim that found the document free is the only one that may be told    *)
(* to hold it.                                                              *)
FoundFree ==
    Orderly =>
        \A o \in Agents : MayWin(o) =>
            NobodyElse(op[o].doc, o) \/ \E b \in clobbers : b.doc = op[o].doc /\ b.kind # "claim"

PalaceInv ==
    /\ TypeOK
    /\ StampInv /\ StepInv /\ IfMatchInv /\ PushInv /\ SeenInv /\ SaveInv
    /\ DependInv
    /\ LeaseInv /\ LockFileInv
    /\ FoundFree /\ HeldByWinner
    /\ LostUpdateOnlyKnown

-----------------------------------------------------------------------------
(* Operations move.                                                         *)

(* r is the operation s, its reseen apart.                                  *)
Like(r, s) ==
    /\ r.kind = s.kind /\ r.arg = s.arg /\ r.force = s.force /\ r.doc = s.doc /\ r.step = s.step
    /\ r.snap = s.snap /\ r.base = s.base /\ r.stamp = s.stamp /\ r.taken = s.taken /\ r.at = s.at
    /\ s.reseen => r.reseen

Ops == [Agents -> Operation \cup {None}]

(* The operation in slot q goes on as x, which may have been reseen.        *)
GoesOn(q, x) == IF x = None THEN op'[q] = None ELSE op'[q] \in Operation /\ Like(op'[q], x)

(* q is marked when its client reads ds in st and has worked on an older    *)
(* version.                                                                 *)
MarkedBy(o, st, ds, q) ==
    driver = "clued" /\ op[q] # None /\ op[q].doc \in ds /\ ClientOf[q] = ClientOf[o]
       /\ Version(st[op[q].doc]) # op[q].base => op'[q].reseen

LEMMA MarkOne ==
    ASSUME NEW r \in Operation, NEW s, s = [r EXCEPT !.reseen = TRUE]
    PROVE  s \in Operation /\ Like(s, r) /\ s.reseen
BY DEF Operation, Like

LEMMA LikeItself == ASSUME NEW r PROVE Like(r, r)
BY DEF Like

LEMMA ReseenOps ==
    ASSUME NEW f \in Ops, NEW o \in Agents, NEW st, NEW ds, NEW g, g = ReseenIn(st, f, o, ds)
    PROVE  /\ g \in Ops
           /\ \A q \in Agents : IF f[q] = None THEN g[q] = None ELSE g[q] \in Operation /\ Like(g[q], f[q])
           /\ \A q \in Agents : driver = "clued" /\ f[q] # None /\ f[q].doc \in ds /\ ClientOf[q] = ClientOf[o]
                                  /\ Version(st[f[q].doc]) # f[q].base => g[q].reseen
<1>1. ASSUME NEW q \in Agents
      PROVE  /\ IF f[q] = None THEN g[q] = None ELSE g[q] \in Operation /\ Like(g[q], f[q])
             /\ driver = "clued" /\ f[q] # None /\ f[q].doc \in ds /\ ClientOf[q] = ClientOf[o]
                  /\ Version(st[f[q].doc]) # f[q].base => g[q].reseen
  <2>1. PICK s : s = [f[q] EXCEPT !.reseen = TRUE] OBVIOUS
  <2>2. f[q] # None => f[q] \in Operation BY DEF Ops
  <2>3. f[q] # None => s \in Operation /\ Like(s, f[q]) /\ s.reseen BY <2>1, <2>2, MarkOne
  <2>4. Like(f[q], f[q]) BY LikeItself
  <2>5. g[q] = IF /\ driver = "clued" /\ f[q] # None /\ f[q].doc \in ds
                  /\ ClientOf[q] = ClientOf[o] /\ Version(st[f[q].doc]) # f[q].base
               THEN s ELSE f[q]
    BY <2>1 DEF ReseenIn
  <2> QED BY <2>2, <2>3, <2>4, <2>5
<1>2. g = [q \in Agents |-> g[q]] BY DEF ReseenIn
<1>3. \A q \in Agents : g[q] \in Operation \cup {None} BY <1>1
<1> QED BY <1>1, <1>2, <1>3 DEF Ops

(* o goes on as x, and its client reads ds in st.                           *)
LEMMA MovesReading ==
    ASSUME op \in Ops, NEW o \in Agents, NEW st, NEW ds, NEW x \in Operation \cup {None},
           op' = ReseenIn(st, [op EXCEPT ![o] = x], o, ds)
    PROVE  /\ op' \in Ops
           /\ GoesOn(o, x)
           /\ x # None /\ op[o] # None /\ x.doc = op[o].doc /\ x.base = op[o].base => MarkedBy(o, st, ds, o)
           /\ \A q \in Agents \ {o} : GoesOn(q, op[q]) /\ MarkedBy(o, st, ds, q)
<1>1. PICK f : f = [op EXCEPT ![o] = x] OBVIOUS
<1>2. f \in Ops /\ f[o] = x /\ \A q \in Agents \ {o} : f[q] = op[q] BY <1>1 DEF Ops
<1>3. PICK g : g = ReseenIn(st, f, o, ds) OBVIOUS
<1>4. /\ g \in Ops
      /\ \A q \in Agents : IF f[q] = None THEN g[q] = None ELSE g[q] \in Operation /\ Like(g[q], f[q])
      /\ \A q \in Agents : driver = "clued" /\ f[q] # None /\ f[q].doc \in ds /\ ClientOf[q] = ClientOf[o]
                             /\ Version(st[f[q].doc]) # f[q].base => g[q].reseen
  BY <1>2, <1>3, ReseenOps
<1>5. op' = g BY <1>1, <1>3
<1> QED BY <1>2, <1>4, <1>5 DEF GoesOn, MarkedBy

(* The same, when o begins or begins again with x.                          *)
LEMMA MovesAfresh ==
    ASSUME op \in Ops, NEW o \in Agents, NEW st, NEW ds, NEW x \in Operation \cup {None},
           op' = [ReseenIn(st, op, o, ds) EXCEPT ![o] = x]
    PROVE  /\ op' \in Ops
           /\ op'[o] = x
           /\ \A q \in Agents \ {o} : GoesOn(q, op[q]) /\ MarkedBy(o, st, ds, q)
<1>1. PICK g : g = ReseenIn(st, op, o, ds) OBVIOUS
<1>2. /\ g \in Ops
      /\ \A q \in Agents : IF op[q] = None THEN g[q] = None ELSE g[q] \in Operation /\ Like(g[q], op[q])
      /\ \A q \in Agents : driver = "clued" /\ op[q] # None /\ op[q].doc \in ds /\ ClientOf[q] = ClientOf[o]
                             /\ Version(st[op[q].doc]) # op[q].base => g[q].reseen
  BY <1>1, ReseenOps
<1>3. op' \in Ops /\ op'[o] = x /\ \A q \in Agents \ {o} : op'[q] = g[q] BY <1>1, <1>2 DEF Ops
<1> QED BY <1>2, <1>3 DEF GoesOn, MarkedBy

(* The same, when nothing is read.                                          *)
LEMMA MovesAlone ==
    ASSUME op \in Ops, NEW o \in Agents, NEW x \in Operation \cup {None}, op' = [op EXCEPT ![o] = x]
    PROVE  /\ op' \in Ops
           /\ op'[o] = x
           /\ \A q \in Agents \ {o} : op'[q] = op[q] /\ GoesOn(q, op[q]) /\ \A st : MarkedBy(o, st, {}, q)
<1>1. op' \in Ops /\ op'[o] = x /\ \A q \in Agents \ {o} : op'[q] = op[q] BY DEF Ops
<1>2. ASSUME NEW q \in Agents, op'[q] = op[q] PROVE GoesOn(q, op[q])
  <2>1. Like(op[q], op[q]) BY LikeItself
  <2> QED BY <1>2, <2>1 DEF GoesOn, Ops
<1> QED BY <1>1, <1>2 DEF MarkedBy

LEMMA GotoOne ==
    ASSUME op \in Ops, NEW o \in Agents, op[o] # None, NEW s \in Steps
    PROVE  \E x \in Operation : /\ x = [op[o] EXCEPT !.step = s] /\ Goto(o, s) = [op EXCEPT ![o] = x]
                                /\ x.step = s /\ x.kind = op[o].kind /\ x.arg = op[o].arg /\ x.force = op[o].force
                                /\ x.doc = op[o].doc /\ x.snap = op[o].snap /\ x.base = op[o].base
                                /\ x.stamp = op[o].stamp /\ x.taken = op[o].taken /\ x.reseen = op[o].reseen /\ x.at = op[o].at
<1>1. PICK x : x = [op[o] EXCEPT !.step = s] OBVIOUS
<1>2. op[o] \in Operation BY DEF Ops
<1>3. /\ x \in Operation
      /\ x.step = s /\ x.kind = op[o].kind /\ x.arg = op[o].arg /\ x.force = op[o].force
      /\ x.doc = op[o].doc /\ x.snap = op[o].snap /\ x.base = op[o].base
      /\ x.stamp = op[o].stamp /\ x.taken = op[o].taken /\ x.reseen = op[o].reseen /\ x.at = op[o].at
  BY <1>1, <1>2 DEF Operation
<1>4. Goto(o, s) = [op EXCEPT ![o] = x] BY <1>1 DEF Goto, Ops
<1> QED BY <1>1, <1>3, <1>4

(* Returning: a claim unlocks, everything else ends.                        *)
LEMMA ReturnOne ==
    ASSUME op \in Ops, NEW o \in Agents, op[o] # None
    PROVE  \E x \in Operation \cup {None} :
              /\ Return(o) = [op EXCEPT ![o] = x]
              /\ IF op[o].kind = "claim"
                 THEN /\ x # None /\ x.step = "unlock" /\ x.kind = "claim" /\ x.arg = op[o].arg /\ x.force = op[o].force
                      /\ x.doc = op[o].doc /\ x.snap = op[o].snap /\ x.base = op[o].base
                      /\ x.stamp = op[o].stamp /\ x.taken = op[o].taken /\ x.at = op[o].at
                 ELSE x = None
<1>1. CASE op[o].kind = "claim"
  <2>1. "unlock" \in Steps BY DEF Steps
  <2>2. PICK x \in Operation : /\ Goto(o, "unlock") = [op EXCEPT ![o] = x]
                               /\ x.step = "unlock" /\ x.kind = op[o].kind /\ x.arg = op[o].arg
                               /\ x.force = op[o].force /\ x.doc = op[o].doc /\ x.snap = op[o].snap
                               /\ x.base = op[o].base /\ x.stamp = op[o].stamp /\ x.taken = op[o].taken /\ x.at = op[o].at
    BY <2>1, GotoOne
  <2>3. Return(o) = [op EXCEPT ![o] = x] BY <1>1, <2>2 DEF Return
  <2>4. x # None BY NoOperationAssumption
  <2> QED BY <1>1, <2>2, <2>3, <2>4
<1>2. CASE op[o].kind # "claim"
  BY <1>2 DEF Return
<1> QED BY <1>1, <1>2

-----------------------------------------------------------------------------
(* Documents move.                                                          *)

(* The stamp of the write just made.                                        *)
Fresh == CHOOSE u : \E d \in Docs : stored'[d] # None /\ stored'[d].ver = writes + 1 /\ u = stored'[d].updated

(* A version and its stamp are known, or are those of the write just made.  *)
Source(v, u) ==
    <<v, u>> \in Written \/ (writes' = writes + 1 /\ v = writes' /\ u = Fresh /\ u \in 1 .. now' + Skew)

(* A document of d as a step may leave it somewhere.                        *)
Good(d, x) ==
    /\ Source(x.ver, x.updated)
    /\ d \in ungated' \/ x.status = "ready" \/ DependenciesFinished(d)

(* Histories grow, and the documents in both stores are good ones.          *)
GoodStores ==
    /\ driver' = driver /\ now' \in Nat /\ now' >= now /\ writes' \in {writes, writes + 1}
    /\ ungated \subseteq ungated' /\ finished \subseteq finished'
    /\ \A d \in Docs : stored'[d] # None /\ stored'[d] # stored[d] =>
          Good(d, stored'[d]) /\ (stored'[d].status = "complete" => d \in finished')
    /\ \A c \in Clients, d \in Docs : copy'[c][d] # None /\ copy'[c][d] # copy[c][d] => Good(d, copy'[c][d])

(* What o's client now remembers of ds is what the server has.              *)
GoodSeen(o, ds) ==
    \A c \in Clients, d \in Docs :
        \/ seen'[c][d] \in {0, seen[c][d]}
        \/ /\ driver = "clued" /\ c = ClientOf[o] /\ d \in ds
           /\ stored'[d] # None /\ seen'[c][d] = stored'[d].updated

(* The operation in slot o, as o's step leaves it.                          *)
GoodOperation(o) ==
    op'[o] # None =>
        /\ Good(op'[o].doc, op'[o].snap)
        /\ driver = "clued" /\ op'[o].base # 0 => Source(op'[o].base, op'[o].stamp)
        /\ op'[o].step \in {"lock", "takeover", "reread", "recheck", "unlock"} => op'[o].kind = "claim"
        /\ op'[o].step = "takeover" => driver = "file"
        /\ op'[o].kind \in {"pull", "push"} => driver = "clued"
        /\ op'[o].kind \in {"status", "create"} => op'[o].arg \in Statuses
        /\ op'[o].step = "save" => op'[o].kind \in {"edit", "status", "claim"}
        /\ driver = "clued" => op'[o].stamp <= now' + Skew
        /\ op'[o].step = "put" /\ op'[o].kind \in Saves =>
              op'[o].at \in 1 .. now' + Skew /\ (driver = "clued" => op'[o].stamp <= op'[o].at + Skew)
        /\ op'[o].kind = "push" /\ op'[o].step = "put" /\ op'[o].arg # "overwrite" =>
              op'[o].stamp = 0 \/ op'[o].snap.updated >= op'[o].stamp
        /\ op'[o].step \in {"save", "put"} /\ op'[o].kind \in {"status", "claim"} /\ ~ op'[o].force
             /\ op'[o].doc \notin ungated' /\ Target(o)' # "ready" => DependenciesFinished(op'[o].doc)

(* The stamp a writer will send is its own read's.                          *)
OwnStamp(o) == op[o].reseen \/ seen[ClientOf[o]][op[o].doc] \in {0, op[o].stamp}

LEMMA WrittenHas ==
    /\ \A d \in Docs : stored[d] # None => <<stored[d].ver, stored[d].updated>> \in Written
    /\ \A c \in Clients, d \in Docs : copy[c][d] # None => <<copy[c][d].ver, copy[c][d].updated>> \in Written
    /\ \A o \in Agents : op[o] # None => <<op[o].snap.ver, op[o].snap.updated>> \in Written
    /\ \A o \in Agents : driver = "clued" /\ op[o] # None /\ op[o].base # 0 => <<op[o].base, op[o].stamp>> \in Written
    /\ <<1, 1>> \in Written
<1>1. \A c \in Clients, d \in Docs : copy[c][d] # None => <<copy[c][d].ver, copy[c][d].updated>> \in Written
  <2> SUFFICES ASSUME NEW c \in Clients, NEW d \in Docs, copy[c][d] # None
               PROVE  <<copy[c][d].ver, copy[c][d].updated>> \in Written
    OBVIOUS
  <2>1. PICK x : x = <<c, d>> OBVIOUS
  <2>2. x \in Clients \X Docs /\ x[1] = c /\ x[2] = d BY <2>1
  <2> QED BY <2>2 DEF Written
<1> QED BY <1>1 DEF Written

LEMMA WrittenStep ==
    ASSUME StampInv, now \in Nat, writes \in Nat, GoodStores,
           \A w \in Written' : \E v, u : w = <<v, u>> /\ Source(v, u)
    PROVE  StampInv'
<1>1. \A w \in Written' : w \in Written \/ (writes' = writes + 1 /\ w[1] = writes' /\ w[2] = Fresh /\ w[2] \in 1 .. now' + Skew)
  <2> SUFFICES ASSUME NEW w \in Written'
               PROVE  w \in Written \/ (writes' = writes + 1 /\ w[1] = writes' /\ w[2] = Fresh /\ w[2] \in 1 .. now' + Skew)
    OBVIOUS
  <2>1. PICK v, u : w = <<v, u>> /\ Source(v, u) OBVIOUS
  <2>2. w[1] = v /\ w[2] = u BY <2>1
  <2> QED BY <2>1, <2>2 DEF Source
<1>2. \A w \in Written : w[1] \in 1 .. writes /\ w[2] \in 1 .. now + Skew BY DEF StampInv
<1>3. \A v, w \in Written : v[1] = w[1] => v[2] = w[2] BY DEF StampInv
<1>4. <<1, 1>> \in Written BY WrittenHas
<1>5. writes >= 1 /\ Skew \in Nat BY <1>2, <1>4, DocStoreAssumption
<1>6. now' \in Nat /\ now' >= now /\ writes' \in {writes, writes + 1} BY DEF GoodStores
<1>7. \A w \in Written' : w[1] \in 1 .. writes' /\ w[2] \in 1 .. now' + Skew BY <1>1, <1>2, <1>5, <1>6
<1>8. \A v, w \in Written' : v[1] = w[1] => v[2] = w[2]
  <2> SUFFICES ASSUME NEW v \in Written', NEW w \in Written', v[1] = w[1] PROVE v[2] = w[2] OBVIOUS
  <2>1. CASE v \in Written /\ w \in Written BY <1>3, <2>1
  <2>2. CASE v \notin Written \/ w \notin Written
    <3>1. writes' = writes + 1 BY <1>1, <2>2
    <3>2. \A x \in Written : x[1] # writes' BY <1>2, <3>1
    <3>3. v[2] = Fresh /\ w[2] = Fresh BY <1>1, <2>2, <3>2
    <3> QED BY <3>3
  <2> QED BY <2>1, <2>2
<1>9. now' >= 1 BY <1>6 DEF StampInv
<1> QED BY <1>7, <1>8, <1>9 DEF StampInv

LEMMA StampsStep ==
    ASSUME TypeOK, StampInv, GoodStores, \A q \in Agents : GoodOperation(q) \/ GoesOn(q, op[q])
    PROVE  StampInv'
<1>1. now \in Nat /\ writes \in Nat BY DEF TypeOK, StoreTypeOK
<1>2. ASSUME NEW d \in Docs, stored'[d] # None PROVE Source(stored'[d].ver, stored'[d].updated)
  BY <1>2, WrittenHas DEF GoodStores, Good, Source
<1>3. ASSUME NEW c \in Clients, NEW d \in Docs, copy'[c][d] # None PROVE Source(copy'[c][d].ver, copy'[c][d].updated)
  BY <1>3, WrittenHas DEF GoodStores, Good, Source
<1>4. ASSUME NEW q \in Agents, op'[q] # None
      PROVE  /\ Source(op'[q].snap.ver, op'[q].snap.updated)
             /\ driver = "clued" /\ op'[q].base # 0 => Source(op'[q].base, op'[q].stamp)
  <2>1. CASE GoodOperation(q) BY <1>4, <2>1 DEF GoodOperation, Good
  <2>2. CASE GoesOn(q, op[q])
    <3>1. op[q] # None /\ op'[q].snap = op[q].snap /\ op'[q].base = op[q].base /\ op'[q].stamp = op[q].stamp
      BY <1>4, <2>2 DEF GoesOn, Like
    <3> QED BY <3>1, WrittenHas DEF Source
  <2> QED BY <2>1, <2>2
<1>5. ASSUME NEW w \in Written' PROVE \E v, u : w = <<v, u>> /\ Source(v, u)
  <2>1. CASE w = <<1, 1>> BY <2>1, WrittenHas DEF Source
  <2>2. CASE \E d \in Docs : stored'[d] # None /\ w = <<stored'[d].ver, stored'[d].updated>> BY <1>2, <2>2
  <2>3. CASE \E c \in Clients, d \in Docs : copy'[c][d] # None /\ w = <<copy'[c][d].ver, copy'[c][d].updated>>
    BY <1>3, <2>3
  <2>4. CASE \E q \in Agents : op'[q] # None /\ w = <<op'[q].snap.ver, op'[q].snap.updated>> BY <1>4, <2>4
  <2>5. CASE \E q \in Agents : driver' = "clued" /\ op'[q] # None /\ op'[q].base # 0 /\ w = <<op'[q].base, op'[q].stamp>>
    BY <1>4, <2>5 DEF GoodStores
  <2> QED BY <1>5, <2>1, <2>2, <2>3, <2>4, <2>5 DEF Written
<1> QED BY <1>1, <1>5, WrittenStep

LEMMA StepsStep ==
    ASSUME TypeOK, StepInv, PushInv, SaveInv, GoodStores, \A q \in Agents : GoodOperation(q) \/ GoesOn(q, op[q])
    PROVE  StepInv' /\ PushInv' /\ SaveInv'
<1>0. now \in Nat /\ now' \in Nat /\ now' >= now /\ Skew \in Nat
  BY DocStoreAssumption DEF TypeOK, StoreTypeOK, GoodStores
<1>1. ASSUME NEW q \in Agents, op'[q] # None
      PROVE  /\ op'[q].step \in {"lock", "takeover", "reread", "recheck", "unlock"} => op'[q].kind = "claim"
             /\ op'[q].step = "takeover" => driver' = "file"
             /\ op'[q].kind \in {"pull", "push"} => driver' = "clued"
             /\ op'[q].kind \in {"status", "create"} => op'[q].arg \in Statuses
             /\ op'[q].step = "save" => op'[q].kind \in {"edit", "status", "claim"}
             /\ op'[q].step = "put" /\ op'[q].kind \in Saves =>
                   op'[q].at \in 1 .. now' + Skew /\ (driver' = "clued" => op'[q].stamp <= op'[q].at + Skew)
             /\ op'[q].kind = "push" /\ op'[q].step = "put" /\ op'[q].arg # "overwrite" =>
                   op'[q].stamp = 0 \/ op'[q].snap.updated >= op'[q].stamp
  <2>1. driver' = driver BY DEF GoodStores
  <2>2. CASE GoodOperation(q) BY <1>1, <2>1, <2>2 DEF GoodOperation
  <2>3. CASE GoesOn(q, op[q])
    <3>1. op[q] # None /\ Like(op'[q], op[q]) BY <1>1, <2>3 DEF GoesOn
    <3>2. op[q].step = "put" /\ op[q].kind \in Saves =>
             op[q].at \in 1 .. now' + Skew /\ (driver = "clued" => op[q].stamp <= op[q].at + Skew)
      BY <1>0, <3>1 DEF SaveInv
    <3> QED BY <2>1, <3>1, <3>2 DEF StepInv, PushInv, Like
  <2> QED BY <2>2, <2>3
<1> QED BY <1>1 DEF StepInv, PushInv, SaveInv

LEMMA SeenStep ==
    ASSUME TypeOK, SeenInv, StampInv', GoodStores, NEW o, NEW ds, GoodSeen(o, ds),
           \A q \in Agents : GoodOperation(q) \/ GoesOn(q, op[q])
    PROVE  SeenInv'
<1>1. now \in Nat /\ now' \in Nat /\ now' >= now /\ driver' = driver /\ Skew \in Nat
  BY DocStoreAssumption DEF TypeOK, StoreTypeOK, GoodStores
<1>2. ASSUME NEW c \in Clients, NEW d \in Docs
      PROVE  IF driver' = "file" THEN seen'[c][d] = 0 ELSE seen'[c][d] <= now' + Skew
  <2>1. seen[c][d] \in Nat BY DEF TypeOK, StoreTypeOK
  <2>2. CASE seen'[c][d] \in {0, seen[c][d]} BY <1>1, <2>1, <2>2 DEF SeenInv
  <2>3. CASE driver = "clued" /\ stored'[d] # None /\ seen'[c][d] = stored'[d].updated
    <3>1. PICK w : w = <<stored'[d].ver, stored'[d].updated>> OBVIOUS
    <3>2. w \in Written' /\ w[2] = stored'[d].updated BY <2>3, <3>1 DEF Written
    <3> QED BY <1>1, <2>3, <3>2 DEF StampInv
  <2> QED BY <2>2, <2>3 DEF GoodSeen
<1>3. ASSUME NEW q \in Agents, driver' = "clued", op'[q] # None PROVE op'[q].stamp <= now' + Skew
  <2>1. CASE GoodOperation(q) BY <1>1, <1>3, <2>1 DEF GoodOperation
  <2>2. CASE GoesOn(q, op[q])
    <3>1. op[q] # None /\ op'[q].stamp = op[q].stamp BY <1>3, <2>2 DEF GoesOn, Like
    <3>2. op[q].stamp \in Nat BY <3>1 DEF TypeOK, Operation
    <3> QED BY <1>1, <1>3, <3>1, <3>2 DEF SeenInv
  <2> QED BY <2>1, <2>2
<1> QED BY <1>2, <1>3 DEF SeenInv

LEMMA DependStep ==
    ASSUME TypeOK, DependInv, GoodStores, \A q \in Agents : GoodOperation(q) \/ GoesOn(q, op[q])
    PROVE  DependInv'
<1>1. \A d : DependenciesFinished(d) => DependenciesFinished(d)' BY DEF DependenciesFinished, GoodStores
<1>2. ASSUME NEW d, NEW x, Started(d, x) \/ Good(d, x) PROVE d \notin ungated' /\ x.status # "ready" => DependenciesFinished(d)'
  BY <1>1, <1>2 DEF Started, Good, GoodStores
<1>3. ASSUME NEW d \in Docs, stored'[d] # None
      PROVE  /\ d \notin ungated' /\ stored'[d].status # "ready" => DependenciesFinished(d)'
             /\ stored'[d].status = "complete" => d \in finished'
  <2>1. Started(d, stored'[d]) \/ Good(d, stored'[d]) BY <1>3 DEF DependInv, GoodStores
  <2>2. stored'[d].status = "complete" => d \in finished' BY <1>3 DEF DependInv, GoodStores
  <2> QED BY <1>2, <2>1, <2>2
<1>4. ASSUME NEW c \in Clients, NEW d \in Docs, copy'[c][d] # None
      PROVE  d \notin ungated' /\ copy'[c][d].status # "ready" => DependenciesFinished(d)'
  <2>1. Started(d, copy'[c][d]) \/ Good(d, copy'[c][d]) BY <1>4 DEF DependInv, GoodStores
  <2> QED BY <1>2, <2>1
<1>5. ASSUME NEW q \in Agents, op'[q] # None
      PROVE  /\ op'[q].doc \notin ungated' /\ op'[q].snap.status # "ready" => DependenciesFinished(op[q].doc)'
             /\ op'[q].step \in {"save", "put"} /\ op'[q].kind \in {"status", "claim"} /\ ~ op'[q].force
                  /\ op'[q].doc \notin ungated' /\ Target(q)' # "ready" => DependenciesFinished(op[q].doc)'
  <2>1. CASE GoodOperation(q)
    <3>1. Good(op'[q].doc, op'[q].snap) BY <1>5, <2>1 DEF GoodOperation
    <3>2. PICK d, x : d = op'[q].doc /\ x = op'[q].snap OBVIOUS
    <3>3. d \notin ungated' /\ x.status # "ready" => DependenciesFinished(d)' BY <1>2, <3>1, <3>2
    <3>4. op'[q].step \in {"save", "put"} /\ op'[q].kind \in {"status", "claim"} /\ ~ op'[q].force
             /\ d \notin ungated' /\ Target(q)' # "ready" => DependenciesFinished(d)'
      BY <1>1, <1>5, <2>1, <3>2 DEF GoodOperation
    <3> QED BY <2>1, <3>2, <3>3, <3>4
  <2>2. CASE GoesOn(q, op[q])
    <3>1. op[q] # None /\ Like(op'[q], op[q]) BY <1>5, <2>2 DEF GoesOn
    <3>2. PICK d, x : d = op[q].doc /\ x = op[q].snap OBVIOUS
    <3>3. op'[q].doc = d /\ op'[q].snap = x /\ Target(q)' = Target(q) BY <3>1, <3>2 DEF Like, Target
    <3>4. Started(d, x) BY <3>1, <3>2 DEF DependInv
    <3>5. d \notin ungated' /\ x.status # "ready" => DependenciesFinished(d)' BY <1>2, <3>4
    <3>6. ungated \subseteq ungated' BY DEF GoodStores
    <3>7. op'[q].step \in {"save", "put"} /\ op'[q].kind \in {"status", "claim"} /\ ~ op'[q].force
             /\ d \notin ungated' /\ Target(q)' # "ready" => DependenciesFinished(d)'
      BY <1>1, <3>1, <3>2, <3>3, <3>6 DEF DependInv, Like
    <3> QED BY <3>3, <3>5, <3>7
  <2> QED BY <2>1, <2>2
<1> QED BY <1>3, <1>4, <1>5 DEF DependInv, Started

(* No document's stamp is beyond what a clock may say.                      *)
LEMMA StampsBelow ==
    ASSUME StampInv
    PROVE  /\ \A d \in Docs : stored[d] # None => stored[d].ver \in 1 .. writes /\ stored[d].updated \in 1 .. now + Skew
           /\ \A c \in Clients, d \in Docs : copy[c][d] # None => copy[c][d].updated \in 1 .. now + Skew
<1>1. \A v, u : <<v, u>> \in Written => v \in 1 .. writes /\ u \in 1 .. now + Skew
  <2> SUFFICES ASSUME NEW v, NEW u, <<v, u>> \in Written PROVE v \in 1 .. writes /\ u \in 1 .. now + Skew OBVIOUS
  <2>1. PICK w : w = <<v, u>> OBVIOUS
  <2>2. w \in Written /\ w[1] = v /\ w[2] = u BY <2>1
  <2> QED BY <2>2 DEF StampInv
<1> QED BY <1>1, WrittenHas

(* q works on with what it has read.                                        *)
KeepsRead(q) ==
    /\ op[q] # None
    /\ op'[q].doc = op[q].doc /\ op'[q].base = op[q].base /\ op'[q].stamp = op[q].stamp
    /\ op[q].reseen => op'[q].reseen

(* The stamp is still q's own when q's client reads: the version it reads   *)
(* is q's, which has one stamp, or q is marked.                             *)
LEMMA StampKept ==
    ASSUME TypeOK', StampInv', NEW o, NEW q \in Agents, NEW ds, driver = "clued", driver' = driver,
           GoodSeen(o, ds), op'[q] # None, KeepsRead(q), MarkedBy(o, stored', ds, q), OwnStamp(q)
    PROVE  OwnStamp(q)'
<1> SUFFICES ASSUME ~ op'[q].reseen PROVE seen'[ClientOf[q]][op'[q].doc] \in {0, op'[q].stamp}
  BY DEF OwnStamp
<1>1. PICK c, d : c = ClientOf[q] /\ d = op'[q].doc OBVIOUS
<1>2. c \in Clients /\ d \in Docs BY <1>1, PalaceAssumption DEF TypeOK, Operation
<1>3. seen[c][d] \in {0, op'[q].stamp} BY <1>1 DEF OwnStamp, KeepsRead
<1>4. CASE seen'[c][d] \in {0, seen[c][d]} BY <1>1, <1>3, <1>4
<1>5. CASE c = ClientOf[o] /\ d \in ds /\ stored'[d] # None /\ seen'[c][d] = stored'[d].updated
  <2>1. stored'[d].ver = op'[q].base BY <1>1, <1>5 DEF MarkedBy, KeepsRead, Version
  <2>2. <<stored'[d].ver, stored'[d].updated>> \in Written' BY <1>2, <1>5 DEF Written
  <2>3. PICK v, u : v = stored'[d].ver /\ u = stored'[d].updated OBVIOUS
  <2>4. PICK w : w = <<v, u>> OBVIOUS
  <2>5. w \in Written' /\ w[1] = v /\ w[2] = u BY <2>2, <2>3, <2>4
  <2>6. v # 0 BY <2>5 DEF StampInv
  <2>7. <<op'[q].base, op'[q].stamp>> \in Written' BY <2>1, <2>3, <2>6 DEF Written
  <2>8. PICK s : s = op'[q].stamp OBVIOUS
  <2>9. PICK x : x = <<v, s>> OBVIOUS
  <2>10. x \in Written' /\ x[1] = v /\ x[2] = s BY <2>1, <2>3, <2>7, <2>8, <2>9
  <2>11. u = s BY <2>5, <2>10 DEF StampInv
  <2> QED BY <1>1, <1>5, <2>3, <2>8, <2>11
<1> QED BY <1>1, <1>2, <1>4, <1>5 DEF GoodSeen

DocsInv == StampInv /\ StepInv /\ IfMatchInv /\ PushInv /\ SeenInv /\ SaveInv /\ DependInv

(* The operation in slot q, as a step that makes o's client read ds leaves  *)
(* it: a good one, or as it was.                                            *)
GoodSlot(q, o, ds) ==
    \/ /\ GoodOperation(q)
       /\ driver = "clued" /\ HasRead(q)' =>
             OwnStamp(q)' \/ (HasRead(q) /\ KeepsRead(q) /\ MarkedBy(o, stored', ds, q))
    \/ GoesOn(q, op[q]) /\ MarkedBy(o, stored', ds, q)

(* Such a step keeps what is said of documents and reads.                   *)
LEMMA DocsStep ==
    ASSUME PalaceInv, TypeOK', GoodStores, NEW o, NEW ds, GoodSeen(o, ds), \A q \in Agents : GoodSlot(q, o, ds)
    PROVE  DocsInv'
<1>0. \A q \in Agents : GoodOperation(q) \/ GoesOn(q, op[q]) BY DEF GoodSlot
<1>1. StampInv' BY <1>0, StampsStep DEF PalaceInv
<1>2. StepInv' /\ PushInv' /\ SaveInv' /\ SeenInv' BY <1>0, <1>1, StepsStep, SeenStep DEF PalaceInv
<1>3. DependInv' BY <1>0, DependStep DEF PalaceInv
<1>4. driver' = driver BY DEF GoodStores
<1>5. ASSUME NEW q \in Agents, driver' = "clued", HasRead(q)' PROVE OwnStamp(q)'
  <2>1. op'[q] # None BY <1>5 DEF HasRead
  <2>2. HasRead(q) => OwnStamp(q) BY <1>4, <1>5 DEF PalaceInv, IfMatchInv, OwnStamp
  <2>3. CASE OwnStamp(q)' BY <2>3
  <2>4. CASE HasRead(q) /\ KeepsRead(q) /\ MarkedBy(o, stored', ds, q)
    BY <1>1, <1>4, <1>5, <2>1, <2>2, <2>4, StampKept
  <2>5. CASE GoesOn(q, op[q]) /\ MarkedBy(o, stored', ds, q)
    <3>1. op[q] # None /\ Like(op'[q], op[q]) BY <2>1, <2>5 DEF GoesOn
    <3>2. HasRead(q) /\ KeepsRead(q) BY <1>5, <3>1 DEF HasRead, KeepsRead, Like
    <3> QED BY <1>1, <1>4, <1>5, <2>1, <2>2, <2>5, <3>2, StampKept
  <2> QED BY <1>4, <1>5, <2>3, <2>4, <2>5 DEF GoodSlot
<1>6. IfMatchInv' BY <1>5 DEF IfMatchInv, OwnStamp
<1> QED BY <1>1, <1>2, <1>3, <1>6 DEF DocsInv

-----------------------------------------------------------------------------
(* Locks and grants.                                                        *)

(* The step takes and gives back no lock and ends no claim.                 *)
SameClaim(o) ==
    /\ driver' = driver /\ lock' = lock /\ now' = now /\ overran' = overran /\ crashes' = crashes
    /\ InClaim(o)' <=> InClaim(o)
    /\ InClaim(o) => op'[o].doc = op[o].doc /\ op'[o].taken = op[o].taken
    /\ op'[o] # None => op'[o].step # "takeover"

LEMMA SameOthers ==
    ASSUME NEW q \in Agents, GoesOn(q, op[q])
    PROVE  /\ InClaim(q)' <=> InClaim(q)
           /\ InClaim(q) => op'[q].doc = op[q].doc /\ op'[q].taken = op[q].taken
           /\ op'[q] # None => op[q] # None /\ Like(op'[q], op[q])
<1>1. CASE op[q] = None BY <1>1 DEF GoesOn, InClaim
<1>2. CASE op[q] # None
  <2>1. op'[q] \in Operation /\ Like(op'[q], op[q]) BY <1>2 DEF GoesOn
  <2>2. op'[q] # None BY <2>1, NoOperationAssumption
  <2> QED BY <1>2, <2>1, <2>2 DEF InClaim, Like
<1> QED BY <1>1, <1>2

LEMMA LocksKept ==
    ASSUME TypeOK, LeaseInv, LockFileInv, NEW o \in Agents, SameClaim(o),
           \A q \in Agents \ {o} : GoesOn(q, op[q])
    PROVE  LeaseInv' /\ LockFileInv'
<1>1. driver' = driver /\ lock' = lock /\ now' = now /\ overran' = overran /\ crashes' = crashes BY DEF SameClaim
<1>2. \A q \in Agents : /\ InClaim(q)' <=> InClaim(q)
                        /\ InClaim(q) => op'[q].doc = op[q].doc /\ op'[q].taken = op[q].taken
  BY SameOthers DEF SameClaim
<1>3. \A q \in Agents : op'[q] # None /\ op'[q].step = "takeover" => op[q] # None /\ op[q].step = "takeover"
  BY SameOthers DEF SameClaim, Like
<1>4. \A q \in Agents : Overran(q)' <=> Overran(q) BY <1>1, <1>2 DEF Overran, Lapsed
<1>5. \A q \in Agents : InClaim(q) => (HasLock(q)' <=> HasLock(q)) BY <1>1, <1>2 DEF HasLock
<1>6. Orderly' <=> Orderly BY <1>1 DEF Orderly
<1>7. LeaseInv' BY <1>1, <1>2, <1>4, <1>5 DEF LeaseInv
<1>8. driver' = "file" => \A q \in Agents : Overran(q)' => overran' BY <1>1, <1>4 DEF LockFileInv
<1>9. ASSUME Orderly
      PROVE  /\ \A q \in Agents : InClaim(q)' => HasLock(q)'
             /\ \A q \in Agents : op'[q] # None => op'[q].step # "takeover"
             /\ \A d \in Docs : lock'[d] # None =>
                   InClaim(lock[d].holder)' /\ op'[lock[d].holder].doc = d /\ HasLock(lock[d].holder)'
  <2>1. \A d \in Docs : lock[d] # None => lock[d].holder \in Agents BY DEF TypeOK, StoreTypeOK, Lock
  <2> QED BY <1>1, <1>2, <1>3, <1>5, <1>9, <2>1 DEF LockFileInv
<1> QED BY <1>1, <1>6, <1>7, <1>8, <1>9 DEF LockFileInv

(* The step grants and writes nothing.                                      *)
SameGrants(o) ==
    /\ stored' = stored /\ grants' = grants /\ clobbers' = clobbers /\ unchecked' = unchecked
    /\ MayWin(o)' => MayWin(o) /\ op'[o].doc = op[o].doc

(* What excuses a grant of d to o that is not in the document.              *)
Excused(d, o) ==
    \/ \E b \in clobbers : b.doc = d /\ (b.kind # "claim" \/ driver = "clued")
    \/ driver = "file" /\ (overran \/ crashes > 0)
    \/ <<d, o>> \in unchecked

LEMMA ExcusedKept ==
    ASSUME driver' = driver, clobbers \subseteq clobbers', unchecked \subseteq unchecked',
           overran => overran', crashes > 0 => crashes' > 0, NEW d, NEW o, Excused(d, o)
    PROVE  Excused(d, o)'
<1>1. PICK x : x = <<d, o>> OBVIOUS
<1>2. CASE \E b \in clobbers : b.doc = d /\ (b.kind # "claim" \/ driver = "clued") BY <1>2 DEF Excused
<1>3. CASE driver = "file" /\ (overran \/ crashes > 0) BY <1>3 DEF Excused
<1>4. CASE x \in unchecked
  <2>1. x \in unchecked' BY <1>4
  <2> QED BY <1>1, <2>1 DEF Excused
<1> QED BY <1>1, <1>2, <1>3, <1>4 DEF Excused

LEMMA HeldOrExcused ==
    HeldByWinner <=> \A d \in Docs : \A o \in grants[d] : stored[d] = None \/ stored[d].assignee = o \/ Excused(d, o)
BY DEF HeldByWinner, Excused

LEMMA HeldKept ==
    ASSUME HeldByWinner, stored' = stored, grants' = grants,
           driver' = driver, clobbers \subseteq clobbers', unchecked \subseteq unchecked',
           overran => overran', crashes > 0 => crashes' > 0
    PROVE  HeldByWinner'
<1>1. \A d, o : Excused(d, o) => Excused(d, o)' BY ExcusedKept
<1>2. \A d \in Docs : \A o \in grants[d] : stored[d] = None \/ stored[d].assignee = o \/ Excused(d, o) BY HeldOrExcused
<1>3. \A d \in Docs : \A o \in grants'[d] : stored'[d] = None \/ stored'[d].assignee = o \/ Excused(d, o)' BY <1>1, <1>2
<1> QED BY <1>3 DEF HeldByWinner, Excused

LEMMA GrantsKept ==
    ASSUME PalaceInv, NEW o \in Agents, SameGrants(o), \A q \in Agents \ {o} : GoesOn(q, op[q]),
           driver' = driver, overran' = overran, crashes' = crashes
    PROVE  FoundFree' /\ HeldByWinner' /\ LostUpdateOnlyKnown'
<1>1. driver' = driver /\ overran' = overran /\ crashes' = crashes OBVIOUS
<1>2. stored' = stored /\ grants' = grants /\ clobbers' = clobbers /\ unchecked' = unchecked BY DEF SameGrants
<1>3. \A q \in Agents : MayWin(q)' => MayWin(q) /\ op'[q].doc = op[q].doc
  <2> SUFFICES ASSUME NEW q \in Agents, q # o, MayWin(q)' PROVE MayWin(q) /\ op'[q].doc = op[q].doc
    BY DEF SameGrants
  <2> QED BY SameOthers DEF MayWin, Like
<1>4. \A q \in Agents : Orderly /\ MayWin(q) =>
         NobodyElse(op[q].doc, q) \/ \E b \in clobbers : b.doc = op[q].doc /\ b.kind # "claim"
  BY DEF PalaceInv, FoundFree
<1>5. FoundFree'
  <2>1. Orderly' <=> Orderly BY <1>1 DEF Orderly
  <2>2. \A q, d : NobodyElse(d, q)' <=> NobodyElse(d, q) BY <1>2 DEF NobodyElse
  <2> QED BY <1>2, <1>3, <1>4, <2>1, <2>2 DEF FoundFree
<1>6. HeldByWinner' BY <1>1, <1>2, HeldKept DEF PalaceInv
<1>7. LostUpdateOnlyKnown' BY <1>1, <1>2 DEF PalaceInv, LostUpdateOnlyKnown
<1> QED BY <1>5, <1>6, <1>7

(* A step of o that takes no lock and writes nothing to the primary.        *)
LEMMA QuietStep ==
    ASSUME PalaceInv, TypeOK', GoodStores, NEW o \in Agents, NEW ds, GoodSeen(o, ds), GoodOperation(o),
           driver = "clued" /\ HasRead(o)' =>
               OwnStamp(o)' \/ (HasRead(o) /\ KeepsRead(o) /\ MarkedBy(o, stored', ds, o)),
           \A q \in Agents \ {o} : GoesOn(q, op[q]) /\ MarkedBy(o, stored', ds, q),
           SameClaim(o), SameGrants(o)
    PROVE  PalaceInv'
<1>1. \A q \in Agents : GoodSlot(q, o, ds) BY DEF GoodSlot
<1>2. DocsInv' BY <1>1, DocsStep
<1>3. LeaseInv' /\ LockFileInv' BY LocksKept DEF PalaceInv
<1>4. FoundFree' /\ HeldByWinner' /\ LostUpdateOnlyKnown' BY GrantsKept DEF SameClaim
<1> QED BY <1>2, <1>3, <1>4 DEF DocsInv, PalaceInv

-----------------------------------------------------------------------------
(* What the steps have in common.                                           *)

LEMMA OpsTyped == ASSUME TypeOK PROVE op \in Ops
BY DEF TypeOK, Ops

LEMMA Client == ASSUME NEW o \in Agents PROVE ClientOf[o] \in Clients
BY PalaceAssumption

LEMMA ClockNear == ASSUME NEW c \in Clients, now \in Nat PROVE Clock(c) \subseteq now .. now + Skew
<1>1. Skew \in Nat /\ \A a \in Ahead[c] : a \in 0 .. Skew BY DocStoreAssumption
<1> QED BY <1>1 DEF Clock

LEMMA SameStores ==
    ASSUME TypeOK, UNCHANGED <<driver, stored, copy, now, writes, finished, ungated>>
    PROVE  GoodStores
BY DEF TypeOK, StoreTypeOK, GoodStores

LEMMA SameSeen == ASSUME seen' = seen, NEW o, NEW ds PROVE GoodSeen(o, ds)
BY DEF GoodSeen

LEMMA ReadsOne ==
    ASSUME TypeOK, stored' = stored, NEW o \in Agents, NEW d \in Docs, seen' = SeenAfterRead(ClientOf[o], d)
    PROVE  /\ seen' \in [Clients -> [Docs -> Nat]]
           /\ GoodSeen(o, {d})
           /\ driver = "clued" => seen'[ClientOf[o]][d] = IF stored[d] = None THEN 0 ELSE stored[d].updated
           /\ driver # "clued" => seen'[ClientOf[o]][d] = 0
<1>0. driver \in {"clued", "file"} BY DEF TypeOK, StoreTypeOK
<1>1. PICK c : c = ClientOf[o] OBVIOUS
<1>2. c \in Clients BY <1>1, Client
<1>3. PICK u : u = IF driver = "file" THEN 0 ELSE IF stored[d] = None THEN 0 ELSE stored[d].updated OBVIOUS
<1>4. u \in Nat BY <1>3 DEF TypeOK, StoreTypeOK, Document
<1>5. seen \in [Clients -> [Docs -> Nat]] BY DEF TypeOK, StoreTypeOK
<1>6. seen' = [seen EXCEPT ![c][d] = u] BY <1>1, <1>3 DEF SeenAfterRead
<1>7. seen' \in [Clients -> [Docs -> Nat]] BY <1>2, <1>4, <1>5, <1>6
<1>8. \A x \in Clients, e \in Docs : seen'[x][e] = IF x = c /\ e = d THEN u ELSE seen[x][e]
  BY <1>2, <1>5, <1>6
<1>9. GoodSeen(o, {d}) BY <1>0, <1>1, <1>3, <1>8 DEF GoodSeen
<1>10. /\ driver = "clued" => seen'[c][d] = IF stored[d] = None THEN 0 ELSE stored[d].updated
       /\ driver # "clued" => seen'[c][d] = 0
  BY <1>0, <1>2, <1>3, <1>8
<1> QED BY <1>1, <1>7, <1>9, <1>10

LEMMA ReadsAll ==
    ASSUME TypeOK, stored' = stored, NEW o \in Agents, seen' = SeenAfterList(ClientOf[o])
    PROVE  /\ seen' \in [Clients -> [Docs -> Nat]]
           /\ GoodSeen(o, Docs)
           /\ \A d \in Docs : stored[d] = None => seen'[ClientOf[o]][d] = seen[ClientOf[o]][d]
<1>1. PICK c : c = ClientOf[o] OBVIOUS
<1>2. c \in Clients BY <1>1, Client
<1>3. seen \in [Clients -> [Docs -> Nat]] BY DEF TypeOK, StoreTypeOK
<1>4. PICK f : f = [d \in Docs |-> IF driver = "file" \/ stored[d] = None THEN seen[c][d] ELSE stored[d].updated] OBVIOUS
<1>5. f \in [Docs -> Nat]
  <2>1. \A d \in Docs : stored[d] # None => stored[d].updated \in Nat BY DEF TypeOK, StoreTypeOK, Document
  <2> QED BY <1>2, <1>3, <1>4, <2>1
<1>6. seen' = [seen EXCEPT ![c] = f] BY <1>1, <1>2, <1>3, <1>4 DEF SeenAfterList
<1>7. seen' \in [Clients -> [Docs -> Nat]] BY <1>2, <1>3, <1>5, <1>6
<1>8. \A x \in Clients, d \in Docs : seen'[x][d] = IF x = c THEN f[d] ELSE seen[x][d] BY <1>2, <1>3, <1>6
<1>9. GoodSeen(o, Docs)
  <2>1. driver \in {"clued", "file"} BY DEF TypeOK, StoreTypeOK
  <2> QED BY <1>1, <1>4, <1>8, <2>1 DEF GoodSeen
<1> QED BY <1>1, <1>2, <1>4, <1>7, <1>8, <1>9

(* What is there already is good.                                           *)
LEMMA KnownGood ==
    ASSUME PalaceInv, ungated \subseteq ungated'
    PROVE  /\ \A d \in Docs : stored[d] # None => Good(d, stored[d])
           /\ \A c \in Clients, d \in Docs : copy[c][d] # None => Good(d, copy[c][d])
           /\ \A o \in Agents : op[o] # None => Good(op[o].doc, op[o].snap)
           /\ \A o \in Agents : driver = "clued" /\ op[o] # None /\ op[o].base # 0 => Source(op[o].base, op[o].stamp)
BY WrittenHas DEF PalaceInv, DependInv, Started, Good, Source

(* o goes to another step, with what it had.                                *)
Advances(o, s) ==
    /\ op[o] # None /\ op'[o] \in Operation /\ op'[o] # None /\ op'[o].step = s
    /\ op'[o].kind = op[o].kind /\ op'[o].arg = op[o].arg /\ op'[o].force = op[o].force
    /\ op'[o].doc = op[o].doc /\ op'[o].snap = op[o].snap /\ op'[o].base = op[o].base
    /\ op'[o].stamp = op[o].stamp /\ op'[o].taken = op[o].taken /\ op'[o].at = op[o].at
    /\ op[o].reseen => op'[o].reseen

(* o ends, or goes to unlock what it claimed.                               *)
Returns(o) ==
    IF op[o].kind = "claim" THEN Advances(o, "unlock") ELSE op'[o] = None

LEMMA Going ==
    ASSUME op \in Ops, NEW o \in Agents, op[o] # None, NEW s \in Steps, NEW ds,
           op' = ReseenIn(stored', Goto(o, s), o, ds) \/ (ds = {} /\ op' = Goto(o, s))
    PROVE  /\ op' \in Ops /\ Advances(o, s) /\ MarkedBy(o, stored', ds, o)
           /\ \A q \in Agents \ {o} : GoesOn(q, op[q]) /\ MarkedBy(o, stored', ds, q)
<1>1. PICK x \in Operation : /\ Goto(o, s) = [op EXCEPT ![o] = x]
                             /\ x.step = s /\ x.kind = op[o].kind /\ x.arg = op[o].arg /\ x.force = op[o].force
                             /\ x.doc = op[o].doc /\ x.snap = op[o].snap /\ x.base = op[o].base
                             /\ x.stamp = op[o].stamp /\ x.taken = op[o].taken /\ x.reseen = op[o].reseen /\ x.at = op[o].at
  BY GotoOne
<1>2. x # None BY NoOperationAssumption
<1>3. PICK st : st = stored' OBVIOUS
<1>4. CASE op' = ReseenIn(stored', Goto(o, s), o, ds)
  <2>1. op' = ReseenIn(st, [op EXCEPT ![o] = x], o, ds) BY <1>1, <1>3, <1>4
  <2>2. /\ op' \in Ops /\ GoesOn(o, x) /\ MarkedBy(o, st, ds, o)
        /\ \A q \in Agents \ {o} : GoesOn(q, op[q]) /\ MarkedBy(o, st, ds, q)
    BY <1>1, <1>2, <2>1, MovesReading
  <2>3. op'[o] \in Operation /\ op'[o] # None /\ Like(op'[o], x)
    BY <1>2, <2>2, NoOperationAssumption DEF GoesOn
  <2> QED BY <1>1, <1>3, <2>2, <2>3 DEF Advances, Like
<1>5. CASE ds = {} /\ op' = Goto(o, s)
  <2>1. op' = [op EXCEPT ![o] = x] BY <1>1, <1>5
  <2>2. /\ op' \in Ops /\ op'[o] = x
        /\ \A q \in Agents \ {o} : GoesOn(q, op[q]) /\ MarkedBy(o, st, {}, q)
    BY <2>1, MovesAlone
  <2>3. MarkedBy(o, st, {}, o) BY DEF MarkedBy
  <2> QED BY <1>1, <1>2, <1>3, <1>5, <2>2, <2>3 DEF Advances
<1> QED BY <1>4, <1>5

LEMMA Returning ==
    ASSUME op \in Ops, NEW o \in Agents, op[o] # None, NEW ds,
           op' = ReseenIn(stored', Return(o), o, ds) \/ (ds = {} /\ op' = Return(o))
    PROVE  /\ op' \in Ops /\ Returns(o)
           /\ \A q \in Agents \ {o} : GoesOn(q, op[q]) /\ MarkedBy(o, stored', ds, q)
<1>1. CASE op[o].kind = "claim"
  <2>1. "unlock" \in Steps BY DEF Steps
  <2>2. Return(o) = Goto(o, "unlock") BY <1>1 DEF Return
  <2> QED BY <1>1, <2>1, <2>2, Going DEF Returns
<1>2. CASE op[o].kind # "claim"
  <2>1. PICK x \in Operation \cup {None} : x = None OBVIOUS
  <2>2. Return(o) = [op EXCEPT ![o] = x] BY <1>2, <2>1 DEF Return
  <2>3. PICK st : st = stored' OBVIOUS
  <2>4. CASE op' = ReseenIn(stored', Return(o), o, ds)
    <3>1. op' = ReseenIn(st, [op EXCEPT ![o] = x], o, ds) BY <2>2, <2>3, <2>4
    <3>2. /\ op' \in Ops /\ GoesOn(o, x)
          /\ \A q \in Agents \ {o} : GoesOn(q, op[q]) /\ MarkedBy(o, st, ds, q)
      BY <3>1, MovesReading
    <3> QED BY <1>2, <2>1, <2>3, <3>2 DEF GoesOn, Returns
  <2>5. CASE ds = {} /\ op' = Return(o)
    <3>1. op' = [op EXCEPT ![o] = x] BY <2>2, <2>5
    <3>2. /\ op' \in Ops /\ op'[o] = x
          /\ \A q \in Agents \ {o} : GoesOn(q, op[q]) /\ MarkedBy(o, st, {}, q)
      BY <3>1, MovesAlone
    <3> QED BY <1>2, <2>1, <2>3, <2>5, <3>2 DEF Returns
  <2> QED BY <2>4, <2>5
<1> QED BY <1>1, <1>2

(* The stamp an operation has read is within the clocks.                    *)
LEMMA StampHeld ==
    ASSUME PalaceInv, GoodStores, NEW o \in Agents, op[o] # None
    PROVE  driver = "clued" => op[o].stamp <= now' + Skew
<1>1. op[o].stamp \in Nat BY DEF PalaceInv, TypeOK, Operation
<1>2. now \in Nat /\ now' \in Nat /\ now' >= now /\ Skew \in Nat
  BY DocStoreAssumption DEF PalaceInv, TypeOK, StoreTypeOK, GoodStores
<1> QED BY <1>1, <1>2 DEF PalaceInv, SeenInv

(* An operation that goes on with what it had is a good one.                *)
LEMMA AdvancesGood ==
    ASSUME PalaceInv, GoodStores, NEW o \in Agents, NEW s, Advances(o, s),
           s \in {"lock", "takeover", "reread", "recheck", "unlock"} => op[o].kind = "claim",
           s = "takeover" => driver = "file",
           s \notin {"save", "put"}
    PROVE  GoodOperation(o)
<1>1. ungated \subseteq ungated' BY DEF GoodStores
<1>2. Good(op[o].doc, op[o].snap) /\ (driver = "clued" /\ op[o].base # 0 => Source(op[o].base, op[o].stamp))
  BY <1>1, KnownGood DEF Advances
<1>3. /\ op[o].kind \in {"pull", "push"} => driver = "clued"
      /\ op[o].kind \in {"status", "create"} => op[o].arg \in Statuses
  BY DEF PalaceInv, StepInv, Advances
<1>4. driver = "clued" => op[o].stamp <= now' + Skew BY StampHeld DEF Advances
<1> QED BY <1>2, <1>3, <1>4 DEF Advances, GoodOperation

LEMMA ReturnsGood ==
    ASSUME PalaceInv, GoodStores, NEW o \in Agents, op[o] # None, Returns(o)
    PROVE  GoodOperation(o) /\ ~ HasRead(o)' /\ ~ MayWin(o)'
<1>1. CASE op[o].kind = "claim"
  <2>1. Advances(o, "unlock") BY <1>1 DEF Returns
  <2> QED BY <1>1, <2>1, AdvancesGood DEF Advances, HasRead, MayWin
<1>2. CASE op[o].kind # "claim" BY <1>2 DEF Returns, GoodOperation, HasRead, MayWin
<1> QED BY <1>1, <1>2

(* Returning, the lock is still the claim's.                                *)
LEMMA ReturnsInClaim ==
    ASSUME NEW o \in Agents, op[o] # None, op[o].step \notin {"lock", "takeover"}, Returns(o),
           driver' = driver, lock' = lock, now' = now, overran' = overran, crashes' = crashes
    PROVE  SameClaim(o)
<1>1. CASE op[o].kind = "claim" BY <1>1 DEF Returns, Advances, SameClaim, InClaim
<1>2. CASE op[o].kind # "claim" BY <1>2 DEF Returns, SameClaim, InClaim
<1> QED BY <1>1, <1>2

LEMMA AdvancesInClaim ==
    ASSUME NEW o \in Agents, NEW s, op[o].step \notin {"lock", "takeover"}, s \notin {"lock", "takeover"}, Advances(o, s),
           driver' = driver, lock' = lock, now' = now, overran' = overran, crashes' = crashes
    PROVE  SameClaim(o)
BY DEF Advances, SameClaim, InClaim

-----------------------------------------------------------------------------
(* The steps that begin an operation.                                       *)

LEMMA ResolveStep ==
    ASSUME PalaceInv, NEW o \in Agents, Resolve(o)
    PROVE  PalaceInv'
<1>1. PICK m \in Menu :
        /\ m.kind \in {"edit", "status", "claim", "delete"}
        /\ stored[m.doc] # None
        /\ op' = [Reseen(op, o, {m.doc}) EXCEPT ![o] =
                    [kind |-> m.kind, arg |-> m.arg, force |-> m.force, doc |-> m.doc,
                     step |-> CASE m.kind = "claim" -> "lock" [] m.kind = "edit" -> "save" [] OTHER -> "gate",
                     snap |-> stored[m.doc], base |-> stored[m.doc].ver,
                     stamp |-> SeenAfterRead(ClientOf[o], m.doc)[ClientOf[o]][m.doc], reseen |-> FALSE, taken |-> 0,
                     at |-> 0]]
        /\ seen' = SeenAfterRead(ClientOf[o], m.doc)
  BY DEF Resolve
<1>2. /\ op[o] = None /\ begun < MaxOps /\ begun' = begun + 1
      /\ UNCHANGED <<driver, stored, copy, lock, now, writes, grants, clobbers, finished, author, ungated, unchecked, overran, faults, crashes>>
  BY DEF Resolve, histVars
<1>3. TypeOK /\ op \in Ops BY OpsTyped DEF PalaceInv
<1>4. PICK d : d = m.doc OBVIOUS
<1>5. /\ m \in [kind : Kinds, doc : Docs, arg : Args, force : BOOLEAN] /\ d \in Docs
      /\ m.kind \in {"status", "create"} => m.arg \in Statuses
  BY <1>4, PalaceAssumption
<1>6. PICK x0 : x0 = stored[d] OBVIOUS
<1>7. x0 \in Document /\ x0 # None BY <1>1, <1>3, <1>4, <1>5, <1>6 DEF TypeOK, StoreTypeOK
<1>8. /\ seen' \in [Clients -> [Docs -> Nat]] /\ GoodSeen(o, {d})
      /\ driver = "clued" => seen'[ClientOf[o]][d] = x0.updated
  BY <1>1, <1>2, <1>3, <1>4, <1>5, <1>6, <1>7, ReadsOne
<1>0. x0.updated <= now' + Skew BY <1>2, <1>5, <1>6, <1>7, StampsBelow DEF PalaceInv
<1>9. PICK u : u = seen'[ClientOf[o]][d] OBVIOUS
<1>10. u \in Nat BY <1>5, <1>8, <1>9, Client
<1>11. PICK s : s = CASE m.kind = "claim" -> "lock" [] m.kind = "edit" -> "save" [] OTHER -> "gate" OBVIOUS
<1>12. s \in Steps /\ (s = "lock" <=> m.kind = "claim") /\ (s = "save" <=> m.kind = "edit") /\ s \in {"lock", "save", "gate"}
  BY <1>1, <1>11 DEF Steps
<1>13. PICK x : x = [kind |-> m.kind, arg |-> m.arg, force |-> m.force, doc |-> d, step |-> s, snap |-> x0,
                     base |-> x0.ver, stamp |-> u, reseen |-> FALSE, taken |-> 0, at |-> 0]
  OBVIOUS
<1>14. x \in Operation BY <1>5, <1>7, <1>10, <1>12, <1>13 DEF Operation, Document
<1>15. op' = [ReseenIn(stored, op, o, {d}) EXCEPT ![o] = x]
  BY <1>1, <1>4, <1>6, <1>9, <1>11, <1>13 DEF Reseen
<1>16. /\ op' \in Ops /\ op'[o] = x
       /\ \A q \in Agents \ {o} : GoesOn(q, op[q]) /\ MarkedBy(o, stored, {d}, q)
  BY <1>3, <1>14, <1>15, MovesAfresh
<1>17. TypeOK'
  <2>1. begun' \in 0 .. MaxOps BY <1>2, <1>3, PalaceAssumption DEF TypeOK
  <2> QED BY <1>2, <1>3, <1>8, <1>16, <2>1 DEF TypeOK, StoreTypeOK, Ops
<1>18. GoodStores BY <1>2, <1>3, SameStores
<1>19. GoodOperation(o)
  <2>1. Good(d, x0) BY <1>2, <1>5, <1>6, <1>7, KnownGood
  <2>2. driver = "clued" => u = x0.updated BY <1>8, <1>9
  <2>3. driver = "clued" => Source(x0.ver, u) BY <2>1, <2>2 DEF Good
  <2>4. /\ x.kind = m.kind /\ x.arg = m.arg /\ x.doc = d /\ x.step = s /\ x.snap = x0 /\ x.base = x0.ver /\ x.stamp = u
    BY <1>13
  <2> QED BY <1>0, <1>1, <1>5, <1>12, <1>16, <2>1, <2>2, <2>3, <2>4 DEF GoodOperation
<1>20. driver = "clued" => OwnStamp(o)' BY <1>9, <1>13, <1>16 DEF OwnStamp
<1>21. ~ InClaim(o) /\ ~ InClaim(o)' /\ op'[o].step # "takeover" BY <1>2, <1>12, <1>13, <1>16 DEF InClaim
<1>22. SameClaim(o) BY <1>2, <1>21 DEF SameClaim
<1>23. ~ MayWin(o)' BY <1>12, <1>13, <1>16 DEF MayWin
<1>24. SameGrants(o) BY <1>2, <1>23 DEF SameGrants
<1>25. stored' = stored BY <1>2
<1> QED BY <1>8, <1>16, <1>17, <1>18, <1>19, <1>20, <1>22, <1>24, <1>25, QuietStep

LEMMA CreateStep ==
    ASSUME PalaceInv, NEW o \in Agents, Create(o)
    PROVE  PalaceInv'
<1>1. /\ op[o] = None /\ begun < MaxOps /\ begun' = begun + 1 /\ seen' = SeenAfterList(ClientOf[o])
      /\ UNCHANGED <<driver, stored, copy, lock, now, writes, grants, clobbers, finished, author, ungated, unchecked, overran, faults, crashes>>
  BY DEF Create, histVars
<1>2. TypeOK /\ op \in Ops BY OpsTyped DEF PalaceInv
<1>3. GoodStores /\ stored' = stored BY <1>1, <1>2, SameStores
<1>4. /\ seen' \in [Clients -> [Docs -> Nat]] /\ GoodSeen(o, Docs)
      /\ \A d \in Docs : stored[d] = None => seen'[ClientOf[o]][d] = seen[ClientOf[o]][d]
  BY <1>1, <1>2, ReadsAll
<1>5. begun' \in 0 .. MaxOps BY <1>1, <1>2, PalaceAssumption DEF TypeOK
<1>6. CASE op' = Reseen(op, o, Docs)
  <2>1. PICK x \in Operation \cup {None} : x = None OBVIOUS
  <2>2. op = [op EXCEPT ![o] = x] BY <1>1, <1>2, <2>1 DEF Ops
  <2>3. op' = ReseenIn(stored, [op EXCEPT ![o] = x], o, Docs) BY <1>6, <2>2 DEF Reseen
  <2>4. /\ op' \in Ops /\ op'[o] = None
        /\ \A q \in Agents \ {o} : GoesOn(q, op[q]) /\ MarkedBy(o, stored, Docs, q)
    BY <1>2, <2>1, <2>3, MovesReading DEF GoesOn
  <2>5. TypeOK' BY <1>1, <1>2, <1>4, <1>5, <2>4 DEF TypeOK, StoreTypeOK, Ops
  <2>6. GoodOperation(o) /\ ~ HasRead(o)' BY <2>4 DEF GoodOperation, HasRead
  <2>7. SameClaim(o) BY <1>1, <2>4 DEF SameClaim, InClaim
  <2>8. SameGrants(o) BY <1>1, <2>4 DEF SameGrants, MayWin
  <2> QED BY <1>3, <1>4, <2>4, <2>5, <2>6, <2>7, <2>8, QuietStep
<1>7. ASSUME NEW m \in Menu, NEW t \in Clock(ClientOf[o]), m.kind = "create", stored[m.doc] = None,
             op' = [Reseen(op, o, Docs) EXCEPT ![o] =
                      [kind |-> "create", arg |-> m.arg, force |-> FALSE, doc |-> m.doc, step |-> "put",
                       snap |-> NewDocument, base |-> 0, stamp |-> seen[ClientOf[o]][m.doc], reseen |-> FALSE,
                       taken |-> 0, at |-> t]]
      PROVE  PalaceInv'
  <2>1. PICK d : d = m.doc OBVIOUS
  <2>2. m \in [kind : Kinds, doc : Docs, arg : Args, force : BOOLEAN] /\ d \in Docs /\ m.arg \in Statuses
    BY <1>7, <2>1, PalaceAssumption
  <2>3. PICK u : u = seen[ClientOf[o]][d] OBVIOUS
  <2>4. u \in Nat /\ seen'[ClientOf[o]][d] = u BY <1>2, <1>4, <1>7, <2>1, <2>2, <2>3, Client DEF TypeOK, StoreTypeOK
  <2>5. now \in Nat /\ now' = now /\ now >= 1 /\ Skew \in Nat
    BY <1>1, <1>2, DocStoreAssumption DEF TypeOK, StoreTypeOK, PalaceInv, StampInv
  <2>6. t \in now .. now + Skew BY <2>5, ClockNear, Client
  <2>7. driver = "clued" => u <= now' + Skew /\ u <= t + Skew
    <3> SUFFICES ASSUME driver = "clued" PROVE u <= now + Skew BY <2>4, <2>5, <2>6
    <3> QED BY <2>2, <2>3, Client DEF PalaceInv, SeenInv
  <2>8. PICK x0 : x0 = NewDocument OBVIOUS
  <2>9. x0 \in Document /\ x0.ver = 1 /\ x0.updated = 1 /\ x0.status = "ready" BY <2>8 DEF NewDocument, Document, Statuses
  <2>10. PICK x : x = [kind |-> "create", arg |-> m.arg, force |-> FALSE, doc |-> d, step |-> "put", snap |-> x0,
                       base |-> 0, stamp |-> u, reseen |-> FALSE, taken |-> 0, at |-> t]
    OBVIOUS
  <2>11. /\ x.kind = "create" /\ x.arg = m.arg /\ x.doc = d /\ x.step = "put" /\ x.snap = x0 /\ x.base = 0
         /\ x.stamp = u /\ x.at = t /\ x.force = FALSE
    BY <2>10
  <2>12. x \in Operation
    <3>1. t \in Nat /\ m.arg \in Args BY <2>2, <2>5, <2>6
    <3> QED BY <2>2, <2>4, <2>9, <2>10, <3>1 DEF Operation, Kinds, Steps
  <2>13. op' = [ReseenIn(stored, op, o, Docs) EXCEPT ![o] = x] BY <1>7, <2>1, <2>3, <2>8, <2>10 DEF Reseen
  <2>14. /\ op' \in Ops /\ op'[o] = x
         /\ \A q \in Agents \ {o} : GoesOn(q, op[q]) /\ MarkedBy(o, stored, Docs, q)
    BY <1>2, <2>12, <2>13, MovesAfresh
  <2>15. TypeOK' BY <1>1, <1>2, <1>4, <1>5, <2>14 DEF TypeOK, StoreTypeOK, Ops
  <2>16. GoodOperation(o)
    <3>1. Good(d, x0) BY <2>9, WrittenHas DEF Good, Source
    <3>2. t \in 1 .. now' + Skew BY <2>5, <2>6
    <3> QED BY <2>2, <2>7, <2>11, <2>14, <3>1, <3>2 DEF GoodOperation
  <2>17. OwnStamp(o)' BY <2>4, <2>11, <2>14 DEF OwnStamp
  <2>18. ~ InClaim(o) /\ ~ InClaim(o)' /\ op'[o].step # "takeover" BY <1>1, <2>11, <2>14 DEF InClaim
  <2>19. SameClaim(o) BY <1>1, <2>18 DEF SameClaim
  <2>20. SameGrants(o) BY <1>1, <2>11, <2>14 DEF SameGrants, MayWin
  <2> QED BY <1>3, <1>4, <2>14, <2>15, <2>16, <2>17, <2>19, <2>20, QuietStep
<1> QED BY <1>6, <1>7 DEF Create

LEMMA SyncListStep ==
    ASSUME PalaceInv, NEW o \in Agents, SyncList(o)
    PROVE  PalaceInv'
<1> DEFINE source(m) == IF m.kind = "pull" THEN stored[m.doc] ELSE copy[ClientOf[o]][m.doc]
<1>1. PICK m \in Menu :
        /\ m.kind \in {"pull", "push"} /\ source(m) # None
        /\ op' = [(IF m.kind = "pull" THEN Reseen(op, o, Docs) ELSE op) EXCEPT ![o] =
                    [kind |-> m.kind, arg |-> m.arg, force |-> m.force, doc |-> m.doc, step |-> "gate",
                     snap |-> source(m), base |-> 0, stamp |-> 0, reseen |-> FALSE, taken |-> 0, at |-> 0]]
        /\ seen' = IF m.kind = "pull" THEN SeenAfterList(ClientOf[o]) ELSE seen
  BY DEF SyncList
<1>2. /\ driver = "clued" /\ op[o] = None /\ begun < MaxOps /\ begun' = begun + 1
      /\ UNCHANGED <<driver, stored, copy, lock, now, writes, grants, clobbers, finished, author, ungated, unchecked, overran, faults, crashes>>
  BY DEF SyncList, histVars
<1>3. TypeOK /\ op \in Ops BY OpsTyped DEF PalaceInv
<1>4. m \in [kind : Kinds, doc : Docs, arg : Args, force : BOOLEAN] BY PalaceAssumption
<1>5. PICK d, x0 : d = m.doc /\ x0 = source(m) OBVIOUS
<1>6. d \in Docs /\ ClientOf[o] \in Clients BY <1>4, <1>5, Client
<1>7. x0 \in Document /\ x0 # None BY <1>1, <1>3, <1>5, <1>6 DEF TypeOK, StoreTypeOK
<1>8. Good(d, x0) BY <1>1, <1>2, <1>5, <1>6, KnownGood
<1>9. PICK x : x = [kind |-> m.kind, arg |-> m.arg, force |-> m.force, doc |-> d, step |-> "gate", snap |-> x0,
                    base |-> 0, stamp |-> 0, reseen |-> FALSE, taken |-> 0, at |-> 0]
  OBVIOUS
<1>10. x \in Operation BY <1>4, <1>6, <1>7, <1>9 DEF Operation, Steps
<1>11. PICK ds : ds = IF m.kind = "pull" THEN Docs ELSE {} OBVIOUS
<1>12. /\ op' \in Ops /\ op'[o] = x
       /\ \A q \in Agents \ {o} : GoesOn(q, op[q]) /\ MarkedBy(o, stored, ds, q)
       /\ seen' \in [Clients -> [Docs -> Nat]] /\ GoodSeen(o, ds)
  <2>1. CASE m.kind = "pull"
    <3>1. op' = [ReseenIn(stored, op, o, Docs) EXCEPT ![o] = x] BY <1>1, <1>5, <1>9, <2>1 DEF Reseen
    <3>2. stored' = stored /\ seen' = SeenAfterList(ClientOf[o]) BY <1>1, <1>2, <2>1
    <3>3. /\ op' \in Ops /\ op'[o] = x
          /\ \A q \in Agents \ {o} : GoesOn(q, op[q]) /\ MarkedBy(o, stored, Docs, q)
      BY <1>3, <1>10, <3>1, MovesAfresh
    <3>4. seen' \in [Clients -> [Docs -> Nat]] /\ GoodSeen(o, Docs) BY <1>3, <3>2, ReadsAll
    <3>5. ds = Docs BY <1>11, <2>1
    <3> QED BY <3>3, <3>4, <3>5
  <2>2. CASE m.kind # "pull"
    <3>1. op' = [op EXCEPT ![o] = x] BY <1>1, <1>5, <1>9, <2>2
    <3>2. seen' = seen /\ ds = {} BY <1>1, <1>11, <2>2
    <3> QED BY <1>3, <1>10, <3>1, <3>2, MovesAlone, SameSeen DEF TypeOK, StoreTypeOK
  <2> QED BY <2>1, <2>2
<1>13. TypeOK'
  <2>1. begun' \in 0 .. MaxOps BY <1>2, <1>3, PalaceAssumption DEF TypeOK
  <2> QED BY <1>2, <1>3, <1>12, <2>1 DEF TypeOK, StoreTypeOK, Ops
<1>14. GoodStores BY <1>2, <1>3, SameStores
<1>15. /\ x.kind \in {"pull", "push"} /\ x.doc = d /\ x.step = "gate" /\ x.snap = x0 /\ x.base = 0 /\ x.stamp = 0
  BY <1>1, <1>9
<1>16. GoodOperation(o)
  <2>1. now' \in Nat /\ Skew \in Nat BY <1>14, DocStoreAssumption DEF GoodStores
  <2> QED BY <1>2, <1>8, <1>12, <1>15, <2>1 DEF GoodOperation
<1>17. ~ HasRead(o)' BY <1>12, <1>15 DEF HasRead
<1>18. SameClaim(o) BY <1>2, <1>12, <1>15 DEF SameClaim, InClaim
<1>19. SameGrants(o) BY <1>2, <1>12, <1>15 DEF SameGrants, MayWin
<1>20. stored' = stored BY <1>2
<1> QED BY <1>12, <1>13, <1>14, <1>16, <1>17, <1>18, <1>19, <1>20, QuietStep

-----------------------------------------------------------------------------
(* The steps between the read and the write.                                *)

LEMMA LockTimesOutStep ==
    ASSUME PalaceInv, NEW o \in Agents, LockTimesOut(o)
    PROVE  PalaceInv'
<1>1. /\ op[o] # None /\ op[o].step = "lock" /\ op' = [op EXCEPT ![o] = None]
      /\ UNCHANGED <<driver, stored, copy, seen, lock, now, writes, grants, clobbers, finished, author, ungated, unchecked,
                     overran, begun, faults, crashes>>
  BY DEF LockTimesOut, storeVars, histVars
<1>2. TypeOK /\ op \in Ops BY OpsTyped DEF PalaceInv
<1>3. PICK x \in Operation \cup {None} : x = None OBVIOUS
<1>4. /\ op' \in Ops /\ op'[o] = None
      /\ \A q \in Agents \ {o} : GoesOn(q, op[q]) /\ MarkedBy(o, stored, {}, q)
  BY <1>1, <1>2, <1>3, MovesAlone
<1>5. TypeOK' BY <1>1, <1>2, <1>4 DEF TypeOK, StoreTypeOK, Ops
<1>6. GoodStores /\ GoodSeen(o, {}) BY <1>1, <1>2, SameStores, SameSeen
<1>7. GoodOperation(o) /\ ~ HasRead(o)' BY <1>4 DEF GoodOperation, HasRead
<1>8. SameClaim(o) BY <1>1, <1>4 DEF SameClaim, InClaim
<1>9. SameGrants(o) BY <1>1, <1>4 DEF SameGrants, MayWin
<1>10. stored' = stored BY <1>1
<1> QED BY <1>4, <1>5, <1>6, <1>7, <1>8, <1>9, <1>10, QuietStep

(* A step that only reads, and ends o's operation.                          *)
LEMMA QuietReturn ==
    ASSUME PalaceInv, NEW o \in Agents, op[o] # None, op[o].step \notin {"lock", "takeover"}, NEW ds,
           op' = ReseenIn(stored', Return(o), o, ds) \/ (ds = {} /\ op' = Return(o)),
           seen' \in [Clients -> [Docs -> Nat]], GoodSeen(o, ds), faults' \in 0 .. MaxFaults,
           copy' \in [Clients -> [Docs -> Document \cup {None}]], GoodStores,
           UNCHANGED <<driver, stored, lock, now, writes, grants, clobbers, finished, author, ungated, unchecked,
                       overran, begun, crashes>>
    PROVE  PalaceInv'
<1>1. TypeOK /\ op \in Ops BY OpsTyped DEF PalaceInv
<1>2. /\ op' \in Ops /\ Returns(o)
      /\ \A q \in Agents \ {o} : GoesOn(q, op[q]) /\ MarkedBy(o, stored', ds, q)
  BY <1>1, Returning
<1>3. TypeOK' BY <1>1, <1>2 DEF TypeOK, StoreTypeOK, Ops
<1>4. GoodOperation(o) /\ ~ HasRead(o)' /\ ~ MayWin(o)' BY <1>2, ReturnsGood
<1>5. SameClaim(o) BY <1>2, ReturnsInClaim
<1>6. SameGrants(o) BY <1>4 DEF SameGrants
<1> QED BY <1>2, <1>3, <1>4, <1>5, <1>6, QuietStep

LEMMA LinkedByStep ==
    ASSUME PalaceInv, NEW o \in Agents, LinkedBy(o)
    PROVE  PalaceInv'
<1> DEFINE linked == \E e \in Docs : stored[e] # None /\ <<e, op[o].doc>> \in Depends
<1>1. /\ op[o] # None /\ op[o].step = "gate" /\ op[o].kind = "delete" /\ seen' = SeenAfterList(ClientOf[o])
      /\ op' = Reseen(IF linked /\ ~ op[o].force THEN Return(o) ELSE Goto(o, "put"), o, Docs)
      /\ UNCHANGED <<driver, stored, copy, lock, now, writes, grants, clobbers, finished, author, ungated, unchecked,
                     overran, begun, faults, crashes>>
  BY DEF LinkedBy, histVars
<1>2. TypeOK /\ op \in Ops BY OpsTyped DEF PalaceInv
<1>3. seen' \in [Clients -> [Docs -> Nat]] /\ GoodSeen(o, Docs) BY <1>1, <1>2, ReadsAll
<1>4. GoodStores /\ stored' = stored BY <1>1, <1>2, SameStores
<1>5. CASE op' = ReseenIn(stored', Return(o), o, Docs)
  <2>1. faults' \in 0 .. MaxFaults /\ copy' \in [Clients -> [Docs -> Document \cup {None}]]
    BY <1>1, <1>2 DEF TypeOK, StoreTypeOK
  <2> QED BY <1>1, <1>3, <1>4, <1>5, <2>1, QuietReturn
<1>6. CASE op' = ReseenIn(stored', Goto(o, "put"), o, Docs)
  <2>1. "put" \in Steps BY DEF Steps
  <2>2. /\ op' \in Ops /\ Advances(o, "put") /\ MarkedBy(o, stored', Docs, o)
        /\ \A q \in Agents \ {o} : GoesOn(q, op[q]) /\ MarkedBy(o, stored', Docs, q)
    BY <1>1, <1>2, <1>6, <2>1, Going
  <2>3. TypeOK' BY <1>1, <1>2, <1>3, <2>2 DEF TypeOK, StoreTypeOK, Ops
  <2>4. ungated \subseteq ungated' BY <1>1
  <2>5. GoodOperation(o)
    <3>1. Good(op[o].doc, op[o].snap) /\ (driver = "clued" /\ op[o].base # 0 => Source(op[o].base, op[o].stamp))
      BY <1>1, <2>4, KnownGood
    <3>2. driver = "clued" => op[o].stamp <= now' + Skew BY <1>1, <1>4, StampHeld
    <3> QED BY <1>1, <2>2, <3>1, <3>2 DEF GoodOperation, Advances, Saves
  <2>6. HasRead(o) /\ KeepsRead(o) BY <1>1, <2>2 DEF HasRead, KeepsRead, Advances
  <2>7. SameClaim(o) BY <1>1, <2>2, AdvancesInClaim
  <2>8. SameGrants(o) BY <1>1, <2>2 DEF SameGrants, MayWin, Advances
  <2> QED BY <1>3, <1>4, <2>2, <2>3, <2>5, <2>6, <2>7, <2>8, QuietStep
<1> QED BY <1>1, <1>4, <1>5, <1>6 DEF Reseen

(* What may be started has its dependencies.                                *)
LEMMA AllowedStarts ==
    ASSUME PalaceInv, NEW o \in Agents, op[o] # None, op[o].kind \in {"status", "claim"}, Allowed(o),
           ~ op[o].force, op[o].doc \notin ungated, Target(o) # "ready"
    PROVE  DependenciesFinished(op[o].doc)
<1>1. PICK d : d = op[o].doc OBVIOUS
<1>2. d \in Docs /\ Target(o) \in Statuses BY <1>1 DEF PalaceInv, TypeOK, Operation, StepInv, Target, Statuses
<1>3. CASE Target(o) = op[o].snap.status BY <1>3 DEF PalaceInv, DependInv, Started
<1>4. CASE Target(o) # op[o].snap.status
  <2>1. OpenDependencies(d) = {} BY <1>1, <1>2, <1>4 DEF Allowed, Statuses
  <2>2. \A e \in Docs : <<d, e>> \in Depends => Finished(e) BY <2>1 DEF OpenDependencies
  <2>3. \A e \in Docs : Finished(e) => e \in finished BY DEF PalaceInv, DependInv, Finished
  <2> QED BY <1>1, <2>2, <2>3 DEF DependenciesFinished
<1> QED BY <1>3, <1>4

LEMMA ApplyStatusStep ==
    ASSUME PalaceInv, NEW o \in Agents, ApplyStatus(o)
    PROVE  PalaceInv'
<1>1. /\ op[o] # None /\ op[o].step = "gate" /\ op[o].kind \in {"status", "claim"}
      /\ UNCHANGED <<driver, stored, copy, lock, now, writes, grants, clobbers, finished, author, ungated, unchecked,
                     overran, begun, faults, crashes>>
  BY DEF ApplyStatus, histVars
<1>2. PICK ds :
        /\ ds \subseteq Docs
        /\ (Allowed(o) /\ op' = Reseen(Goto(o, "save"), o, ds)) \/ op' = Reseen(Return(o), o, ds)
        /\ seen' = IF driver = "file" THEN seen
                   ELSE [seen EXCEPT ![ClientOf[o]] = [e \in Docs |-> IF e \in ds /\ stored[e] # None THEN stored[e].updated ELSE @[e]]]
  <2>1. PICK ds : ds = CASE (~ op[o].force /\ ~ (op[o].snap.status = Target(o))) /\ Target(o) = "complete" -> Docs
                     [] (~ op[o].force /\ ~ (op[o].snap.status = Target(o))) /\ Target(o) = "in_progress" ->
                          {e \in Docs : <<op[o].doc, e>> \in Depends}
                     [] OTHER -> {}
    OBVIOUS
  <2>2. ds \subseteq Docs BY <2>1
  <2>3. (Allowed(o) /\ op' = Reseen(Goto(o, "save"), o, ds)) \/ op' = Reseen(Return(o), o, ds) BY <2>1 DEF ApplyStatus
  <2>4. seen' = IF driver = "file" THEN seen
                ELSE [seen EXCEPT ![ClientOf[o]] = [e \in Docs |-> IF e \in ds /\ stored[e] # None THEN stored[e].updated ELSE @[e]]]
    BY <2>1 DEF ApplyStatus
  <2> QED BY <2>2, <2>3, <2>4
<1>3. TypeOK /\ op \in Ops BY OpsTyped DEF PalaceInv
<1>4. GoodStores /\ stored' = stored BY <1>1, <1>3, SameStores
<1>5. seen' \in [Clients -> [Docs -> Nat]] /\ GoodSeen(o, ds)
  <2>1. seen \in [Clients -> [Docs -> Nat]] BY <1>3 DEF TypeOK, StoreTypeOK
  <2>2. CASE driver = "file" BY <1>2, <2>1, <2>2, SameSeen
  <2>3. CASE driver # "file"
    <3>1. PICK c : c = ClientOf[o] OBVIOUS
    <3>2. c \in Clients BY <3>1, Client
    <3>3. PICK f : f = [e \in Docs |-> IF e \in ds /\ stored[e] # None THEN stored[e].updated ELSE seen[c][e]] OBVIOUS
    <3>4. \A e \in Docs : stored[e] # None => stored[e].updated \in Nat BY <1>3 DEF TypeOK, StoreTypeOK, Document
    <3>5. f \in [Docs -> Nat] BY <2>1, <3>2, <3>3, <3>4
    <3>6. seen' = [seen EXCEPT ![c] = f] BY <1>2, <2>1, <2>3, <3>1, <3>2, <3>3
    <3>7. seen' \in [Clients -> [Docs -> Nat]] BY <2>1, <3>2, <3>5, <3>6
    <3>8. \A x \in Clients, e \in Docs : seen'[x][e] = IF x = c THEN f[e] ELSE seen[x][e] BY <2>1, <3>2, <3>6
    <3>9. driver = "clued" BY <1>3, <2>3 DEF TypeOK, StoreTypeOK
    <3> QED BY <1>4, <3>1, <3>3, <3>7, <3>8, <3>9 DEF GoodSeen
  <2> QED BY <2>2, <2>3
<1>6. CASE op' = ReseenIn(stored', Return(o), o, ds)
  <2>1. faults' \in 0 .. MaxFaults /\ copy' \in [Clients -> [Docs -> Document \cup {None}]]
    BY <1>1, <1>3 DEF TypeOK, StoreTypeOK
  <2> QED BY <1>1, <1>4, <1>5, <1>6, <2>1, QuietReturn
<1>7. CASE Allowed(o) /\ op' = ReseenIn(stored', Goto(o, "save"), o, ds)
  <2>1. "save" \in Steps BY DEF Steps
  <2>2. /\ op' \in Ops /\ Advances(o, "save") /\ MarkedBy(o, stored', ds, o)
        /\ \A q \in Agents \ {o} : GoesOn(q, op[q]) /\ MarkedBy(o, stored', ds, q)
    BY <1>1, <1>3, <1>7, <2>1, Going
  <2>3. TypeOK' BY <1>1, <1>3, <1>5, <2>2 DEF TypeOK, StoreTypeOK, Ops
  <2>4. ungated' = ungated /\ ungated \subseteq ungated' BY <1>1
  <2>5. GoodOperation(o)
    <3>1. Target(o)' = Target(o) BY <2>2 DEF Target, Advances
    <3>2. ~ op[o].force /\ op[o].doc \notin ungated' /\ Target(o)' # "ready" => DependenciesFinished(op[o].doc)
      BY <1>1, <1>7, <2>4, <3>1, AllowedStarts
    <3>3. op[o].kind = "status" => op[o].arg \in Statuses BY <1>1 DEF PalaceInv, StepInv
    <3>4. driver = "clued" => op[o].stamp <= now' + Skew BY <1>1, <1>4, StampHeld
    <3>5. Good(op[o].doc, op[o].snap) /\ (driver = "clued" /\ op[o].base # 0 => Source(op[o].base, op[o].stamp))
      BY <1>1, <2>4, KnownGood
    <3> QED BY <1>1, <2>2, <3>2, <3>3, <3>4, <3>5 DEF GoodOperation, Advances
  <2>6. HasRead(o) /\ KeepsRead(o) BY <1>1, <2>2 DEF HasRead, KeepsRead, Advances
  <2>7. SameClaim(o) BY <1>1, <2>2, AdvancesInClaim
  <2>8. SameGrants(o) BY <1>1, <2>2 DEF SameGrants, MayWin, Advances
  <2> QED BY <1>4, <1>5, <2>2, <2>3, <2>5, <2>6, <2>7, <2>8, QuietStep
<1> QED BY <1>2, <1>4, <1>6, <1>7 DEF Reseen

LEMMA SyncGetStep ==
    ASSUME PalaceInv, NEW o \in Agents, SyncGet(o)
    PROVE  PalaceInv'
<1>1. /\ op[o] # None /\ op[o].step = "gate" /\ op[o].kind \in {"pull", "push"}
      /\ UNCHANGED <<driver, stored, copy, lock, now, writes, grants, clobbers, finished, author, ungated, unchecked,
                     overran, begun, faults, crashes>>
  BY DEF SyncGet, histVars
<1>2. PICK d, c, t, ds :
        /\ d = op[o].doc /\ c = ClientOf[o]
        /\ t = IF op[o].kind = "pull" THEN copy[c][d] ELSE stored[d]
        /\ ds = IF op[o].kind = "push" THEN {d} ELSE {}
  OBVIOUS
<1>3. /\ seen' = IF op[o].kind = "push" THEN SeenAfterRead(c, d) ELSE seen
      /\ \/ op' = Reseen(Return(o), o, ds)
         \/ /\ Replaces(op[o].arg, op[o].snap, t)
            /\ op' = [Reseen(op, o, ds) EXCEPT ![o] =
                        [op[o] EXCEPT !.step = "put", !.base = Version(t),
                                      !.stamp = IF t = None THEN 0 ELSE t.updated, !.reseen = FALSE]]
  BY <1>2 DEF SyncGet
<1>4. TypeOK /\ op \in Ops BY OpsTyped DEF PalaceInv
<1>5. op[o] \in Operation /\ d \in Docs /\ c \in Clients BY <1>1, <1>2, <1>4, Client DEF Ops, Operation
<1>6. GoodStores /\ stored' = stored BY <1>1, <1>4, SameStores
<1>7. seen' \in [Clients -> [Docs -> Nat]] /\ GoodSeen(o, ds)
  <2>1. CASE op[o].kind = "push"
    <3>1. seen' = SeenAfterRead(ClientOf[o], d) /\ ds = {d} BY <1>2, <1>3, <2>1
    <3> QED BY <1>4, <1>5, <1>6, <3>1, ReadsOne
  <2>2. CASE op[o].kind # "push"
    <3>1. seen' = seen BY <1>3, <2>2
    <3> QED BY <1>4, <3>1, SameSeen DEF TypeOK, StoreTypeOK
  <2> QED BY <2>1, <2>2
<1>8. CASE op' = ReseenIn(stored', Return(o), o, ds)
  <2>1. faults' \in 0 .. MaxFaults /\ copy' \in [Clients -> [Docs -> Document \cup {None}]]
    BY <1>1, <1>4 DEF TypeOK, StoreTypeOK
  <2> QED BY <1>1, <1>6, <1>7, <1>8, <2>1, QuietReturn
<1>9. CASE /\ Replaces(op[o].arg, op[o].snap, t)
           /\ op' = [Reseen(op, o, ds) EXCEPT ![o] =
                       [op[o] EXCEPT !.step = "put", !.base = Version(t),
                                     !.stamp = IF t = None THEN 0 ELSE t.updated, !.reseen = FALSE]]
  <2>1. PICK b, u : b = Version(t) /\ u = IF t = None THEN 0 ELSE t.updated OBVIOUS
  <2>2. t # None => t \in Document BY <1>2, <1>4, <1>5 DEF TypeOK, StoreTypeOK
  <2>3. b \in Nat /\ u \in Nat BY <2>1, <2>2 DEF Version, Document
  <2>4. PICK x : x = [op[o] EXCEPT !.step = "put", !.base = b, !.stamp = u, !.reseen = FALSE] OBVIOUS
  <2>5. /\ x \in Operation /\ x.step = "put" /\ x.base = b /\ x.stamp = u
        /\ x.kind = op[o].kind /\ x.arg = op[o].arg /\ x.doc = d /\ x.snap = op[o].snap
    BY <1>2, <1>5, <2>3, <2>4 DEF Operation, Steps
  <2>6. op' = [ReseenIn(stored, op, o, ds) EXCEPT ![o] = x] BY <1>9, <2>1, <2>4 DEF Reseen
  <2>7. /\ op' \in Ops /\ op'[o] = x
        /\ \A q \in Agents \ {o} : GoesOn(q, op[q]) /\ MarkedBy(o, stored, ds, q)
    <3>1. x \in Operation \cup {None} BY <2>5
    <3> QED BY <1>4, <2>6, <3>1, MovesAfresh
  <2>8. TypeOK' BY <1>1, <1>4, <1>7, <2>7 DEF TypeOK, StoreTypeOK, Ops
  <2>9. ungated \subseteq ungated' BY <1>1
  <2>10. GoodOperation(o)
    <3>1. Good(d, op[o].snap) BY <1>1, <1>2, <2>9, KnownGood
    <3>2. t # None => Good(d, t) BY <1>1, <1>2, <1>5, <2>9, KnownGood
    <3>3. b # 0 => Source(b, u) BY <2>1, <3>2 DEF Good, Version
    <3>4. driver = "clued" BY <1>1 DEF PalaceInv, StepInv
    <3>5. op[o].arg # "overwrite" => u = 0 \/ op[o].snap.updated >= u BY <1>9, <2>1 DEF Replaces
    <3>6. u <= now' + Skew
      <4>1. now \in Nat /\ now' = now /\ Skew \in Nat BY <1>1, <1>4, DocStoreAssumption DEF TypeOK, StoreTypeOK
      <4>2. t # None => t.updated \in 1 .. now + Skew BY <1>2, <1>5, StampsBelow DEF PalaceInv
      <4> QED BY <2>1, <4>1, <4>2
    <3> QED BY <1>1, <2>5, <2>7, <3>1, <3>3, <3>4, <3>5, <3>6 DEF GoodOperation, Saves
  <2>11. driver = "clued" /\ HasRead(o)' => OwnStamp(o)'
    <3> SUFFICES ASSUME driver = "clued", HasRead(o)' PROVE seen'[ClientOf[o]][d] = u
      BY <2>5, <2>7 DEF OwnStamp
    <3>1. op[o].kind = "push" BY <1>1, <2>5, <2>7 DEF HasRead
    <3>2. t = stored[d] /\ seen' = SeenAfterRead(ClientOf[o], d) BY <1>2, <1>3, <3>1
    <3>3. seen'[ClientOf[o]][d] = IF stored[d] = None THEN 0 ELSE stored[d].updated
      BY <1>4, <1>5, <1>6, <3>2, ReadsOne
    <3> QED BY <2>1, <3>2, <3>3
  <2>12. SameClaim(o) BY <1>1, <2>5, <2>7 DEF SameClaim, InClaim
  <2>13. SameGrants(o) BY <1>1, <2>5, <2>7 DEF SameGrants, MayWin
  <2> QED BY <1>6, <1>7, <2>7, <2>8, <2>10, <2>11, <2>12, <2>13, QuietStep
<1> QED BY <1>3, <1>6, <1>8, <1>9 DEF Reseen

-----------------------------------------------------------------------------
(* The steps on the file copy.                                              *)

LEMMA CopyWritten ==
    ASSUME PalaceInv, NEW o \in Agents, op[o] # None,
           copy' = [copy EXCEPT ![ClientOf[o]][op[o].doc] = IF op[o].kind = "delete" THEN None ELSE op[o].snap]
             \/ copy' = [copy EXCEPT ![ClientOf[o]][op[o].doc] = op[o].snap],
           UNCHANGED <<driver, stored, now, writes, finished, ungated>>
    PROVE  GoodStores /\ copy' \in [Clients -> [Docs -> Document \cup {None}]]
<1>1. TypeOK /\ op \in Ops BY OpsTyped DEF PalaceInv
<1>2. PICK c, d : c = ClientOf[o] /\ d = op[o].doc OBVIOUS
<1>3. c \in Clients /\ d \in Docs /\ op[o].snap \in Document BY <1>1, <1>2, Client DEF Ops, Operation
<1>4. PICK x \in Document \cup {None} : x \in {None, op[o].snap} /\ copy' = [copy EXCEPT ![c][d] = x] BY <1>2, <1>3
<1>5. copy \in [Clients -> [Docs -> Document \cup {None}]] BY <1>1 DEF TypeOK, StoreTypeOK
<1>6. copy' \in [Clients -> [Docs -> Document \cup {None}]] BY <1>3, <1>4, <1>5
<1>7. \A y \in Clients, e \in Docs : copy'[y][e] = IF y = c /\ e = d THEN x ELSE copy[y][e] BY <1>3, <1>4, <1>5
<1>8. Good(d, op[o].snap) BY <1>2, KnownGood
<1>9. now \in Nat /\ writes \in Nat BY <1>1 DEF TypeOK, StoreTypeOK
<1> QED BY <1>4, <1>6, <1>7, <1>8, <1>9 DEF GoodStores

LEMMA PutCopyStep ==
    ASSUME PalaceInv, NEW o \in Agents, PutCopy(o)
    PROVE  PalaceInv'
<1>1. /\ op[o] # None /\ op[o].step = "copy"
      /\ copy' = [copy EXCEPT ![ClientOf[o]][op[o].doc] = IF op[o].kind = "delete" THEN None ELSE op[o].snap]
      /\ op' = IF op[o].kind = "claim" THEN Goto(o, "recheck") ELSE Return(o)
      /\ UNCHANGED <<driver, stored, seen, lock, now, writes, grants, clobbers, finished, author, ungated, unchecked,
                     overran, begun, faults, crashes>>
  BY DEF PutCopy, histVars
<1>2. TypeOK /\ op \in Ops BY OpsTyped DEF PalaceInv
<1>3. GoodStores /\ copy' \in [Clients -> [Docs -> Document \cup {None}]] BY <1>1, CopyWritten
<1>4. GoodSeen(o, {}) /\ seen' \in [Clients -> [Docs -> Nat]] BY <1>1, <1>2, SameSeen DEF TypeOK, StoreTypeOK
<1>5. CASE op[o].kind # "claim"
  <2>1. faults' \in 0 .. MaxFaults BY <1>1, <1>2 DEF TypeOK
  <2> QED BY <1>1, <1>3, <1>4, <1>5, <2>1, QuietReturn
<1>6. CASE op[o].kind = "claim"
  <2>1. "recheck" \in Steps BY DEF Steps
  <2>2. /\ op' \in Ops /\ Advances(o, "recheck")
        /\ \A q \in Agents \ {o} : GoesOn(q, op[q]) /\ MarkedBy(o, stored', {}, q)
    BY <1>1, <1>2, <1>6, <2>1, Going
  <2>3. TypeOK' BY <1>1, <1>2, <1>3, <1>4, <2>2 DEF TypeOK, StoreTypeOK, Ops
  <2>4. GoodOperation(o) BY <1>3, <1>6, <2>2, AdvancesGood
  <2>5. ~ HasRead(o)' BY <2>2 DEF HasRead, Advances
  <2>6. SameClaim(o) BY <1>1, <2>2, AdvancesInClaim
  <2>7. SameGrants(o) BY <1>1, <2>2 DEF SameGrants, MayWin, Advances
  <2> QED BY <1>3, <1>4, <2>2, <2>3, <2>4, <2>5, <2>6, <2>7, QuietStep
<1> QED BY <1>5, <1>6

LEMMA PutCopyFailsStep ==
    ASSUME PalaceInv, NEW o \in Agents, PutCopyFails(o)
    PROVE  PalaceInv'
<1>1. /\ op[o] # None /\ op[o].step = "copy" /\ faults + crashes < MaxFaults
      /\ op' = Return(o) /\ faults' = faults + 1
      /\ UNCHANGED <<driver, stored, copy, seen, lock, now, writes, grants, clobbers, finished, author, ungated, unchecked,
                     overran, begun, crashes>>
  BY DEF PutCopyFails, storeVars, histVars
<1>2. TypeOK BY DEF PalaceInv
<1>3. GoodStores /\ copy' \in [Clients -> [Docs -> Document \cup {None}]]
  BY <1>1, <1>2, SameStores DEF TypeOK, StoreTypeOK
<1>4. GoodSeen(o, {}) /\ seen' \in [Clients -> [Docs -> Nat]] BY <1>1, <1>2, SameSeen DEF TypeOK, StoreTypeOK
<1>5. faults' \in 0 .. MaxFaults BY <1>1, <1>2, PalaceAssumption DEF TypeOK
<1> QED BY <1>1, <1>3, <1>4, <1>5, QuietReturn

LEMMA PullCopyStep ==
    ASSUME PalaceInv, NEW o \in Agents, PullCopy(o)
    PROVE  PalaceInv'
<1>1. /\ op[o] # None /\ op[o].step = "put" /\ op' = Return(o)
      /\ copy' = [copy EXCEPT ![ClientOf[o]][op[o].doc] = op[o].snap]
      /\ UNCHANGED <<driver, stored, seen, lock, now, writes, grants, clobbers, finished, author, ungated, unchecked,
                     overran, begun, faults, crashes>>
  BY DEF PullCopy, histVars
<1>2. TypeOK BY DEF PalaceInv
<1>3. GoodStores /\ copy' \in [Clients -> [Docs -> Document \cup {None}]] BY <1>1, CopyWritten
<1>4. GoodSeen(o, {}) /\ seen' \in [Clients -> [Docs -> Nat]] BY <1>1, <1>2, SameSeen DEF TypeOK, StoreTypeOK
<1>5. faults' \in 0 .. MaxFaults BY <1>1, <1>2 DEF TypeOK
<1> QED BY <1>1, <1>3, <1>4, <1>5, QuietReturn

-----------------------------------------------------------------------------
(* The steps on locks.                                                      *)

(* A claim's own lock is no None, and is taken.                             *)
LEMMA OwnLock ==
    ASSUME TypeOK, NEW o \in Agents, InClaim(o), HasLock(o)
    PROVE  /\ op[o].doc \in Docs /\ lock[op[o].doc] # None
           /\ lock[op[o].doc].holder = o /\ lock[op[o].doc].taken = op[o].taken
<1>1. op[o] \in Operation BY DEF TypeOK, InClaim
<1>2. op[o].doc \in Docs /\ op[o].taken \in Nat BY <1>1 DEF Operation
<1>3. PICK l : l = [holder |-> o, taken |-> op[o].taken] OBVIOUS
<1>4. l \in Lock /\ l.holder = o /\ l.taken = op[o].taken BY <1>2, <1>3 DEF Lock
<1>5. l # None BY <1>4, NoLockAssumption
<1> QED BY <1>2, <1>3, <1>4, <1>5 DEF HasLock

(* A lock that has lapsed is that of a claim that overran.                  *)
LEMMA LapsedOverran ==
    ASSUME TypeOK, NEW o \in Agents, InClaim(o), HasLock(o), Lapsed(lock[op[o].doc])
    PROVE  Overran(o)
<1>1. lock[op[o].doc] = [holder |-> o, taken |-> op[o].taken] BY DEF HasLock
<1> QED BY <1>1 DEF Overran

(* A step that only sets the lock and the step of o.                        *)
LEMMA LockingStep ==
    ASSUME PalaceInv, NEW o \in Agents, TypeOK', ~ HasRead(o)', GoodOperation(o), SameGrants(o),
           \A q \in Agents \ {o} : GoesOn(q, op[q]),
           UNCHANGED <<driver, stored, copy, seen, now, writes, finished, ungated, overran, crashes>>,
           LeaseInv' /\ LockFileInv'
    PROVE  PalaceInv'
<1>1. TypeOK /\ stored' = stored BY DEF PalaceInv
<1>2. GoodStores /\ GoodSeen(o, {}) BY <1>1, SameStores, SameSeen
<1>3. \A q \in Agents : GoodSlot(q, o, {}) BY DEF GoodSlot, MarkedBy
<1>4. DocsInv' BY <1>2, <1>3, DocsStep
<1>5. FoundFree' /\ HeldByWinner' /\ LostUpdateOnlyKnown' BY GrantsKept
<1> QED BY <1>4, <1>5 DEF DocsInv, PalaceInv

LEMMA LockDocStep ==
    ASSUME PalaceInv, NEW o \in Agents, LockDoc(o)
    PROVE  PalaceInv'
<1>1. /\ op[o] # None /\ op[o].step = "lock"
      /\ AcquireLease(o, op[o].doc) \/ CreateLockFile(o, op[o].doc)
      /\ op' = [op EXCEPT ![o].step = "reread", ![o].taken = now]
      /\ UNCHANGED <<driver, stored, copy, seen, now, writes, grants, clobbers, finished, author, ungated, unchecked,
                     overran, begun, faults, crashes>>
  BY DEF LockDoc, histVars
<1>2. TypeOK /\ op \in Ops /\ op[o] \in Operation BY <1>1, OpsTyped DEF PalaceInv, Ops
<1>3. PICK d, l : d = op[o].doc /\ l = [holder |-> o, taken |-> now] OBVIOUS
<1>4. d \in Docs /\ op[o].kind = "claim" BY <1>1, <1>2, <1>3 DEF Operation, PalaceInv, StepInv
<1>5. now \in Nat /\ lock \in [Docs -> Lock \cup {None}] BY <1>2 DEF TypeOK, StoreTypeOK
<1>6. l \in Lock BY <1>3, <1>5 DEF Lock
<1>7. lock' = [lock EXCEPT ![d] = l] BY <1>1, <1>3 DEF AcquireLease, CreateLockFile
<1>8. lock' \in [Docs -> Lock \cup {None}] /\ lock'[d] = l /\ \A e \in Docs \ {d} : lock'[e] = lock[e]
  BY <1>4, <1>5, <1>6, <1>7
<1>9. PICK x : x = [op[o] EXCEPT !.step = "reread", !.taken = now] OBVIOUS
<1>10. /\ x \in Operation /\ x.step = "reread" /\ x.taken = now /\ x.doc = d /\ x.kind = "claim"
       /\ x.snap = op[o].snap /\ x.base = op[o].base /\ x.stamp = op[o].stamp
  BY <1>2, <1>3, <1>4, <1>5, <1>9 DEF Operation, Steps
<1>11. x # None BY <1>10, NoOperationAssumption
<1>12. op' = [op EXCEPT ![o] = x] BY <1>1, <1>2, <1>9 DEF Ops
<1>13. /\ op' \in Ops /\ op'[o] = x
       /\ \A q \in Agents \ {o} : op'[q] = op[q] /\ GoesOn(q, op[q])
  <2>1. x \in Operation \cup {None} BY <1>10
  <2> QED BY <1>2, <1>12, <2>1, MovesAlone
<1>14. TypeOK' BY <1>1, <1>2, <1>8, <1>13 DEF TypeOK, StoreTypeOK, Ops
<1>15. ungated \subseteq ungated' BY <1>1
<1>16. GoodOperation(o)
  <2>1. Good(d, op[o].snap) /\ (driver = "clued" /\ op[o].base # 0 => Source(op[o].base, op[o].stamp))
    BY <1>1, <1>3, <1>15, KnownGood
  <2>2. GoodStores BY <1>1, <1>2, SameStores
  <2>3. driver = "clued" => op[o].stamp <= now' + Skew BY <1>1, <2>2, StampHeld
  <2> QED BY <1>10, <1>13, <2>1, <2>3 DEF GoodOperation
<1>17. ~ HasRead(o)' /\ ~ MayWin(o)' BY <1>10, <1>13 DEF HasRead, MayWin
<1>18. SameGrants(o) BY <1>1, <1>17 DEF SameGrants
<1>19. InClaim(o)' /\ HasLock(o)' BY <1>3, <1>8, <1>10, <1>11, <1>13 DEF InClaim, HasLock
<1>20. ~ Overran(o)' BY <1>1, <1>5, <1>10, <1>13, DocStoreAssumption DEF Overran, Lapsed
<1>21. \A q \in Agents \ {o} : /\ InClaim(q)' <=> InClaim(q)
                               /\ Overran(q)' <=> Overran(q)
  BY <1>1, <1>13 DEF InClaim, Overran, Lapsed
<1>22. \A q \in Agents \ {o} : InClaim(q) /\ HasLock(q) /\ ~ Overran(q) => op[q].doc # d /\ HasLock(q)'
  <2> SUFFICES ASSUME NEW q \in Agents \ {o}, InClaim(q), HasLock(q), ~ Overran(q)
               PROVE  op[q].doc # d /\ HasLock(q)'
    OBVIOUS
  <2>1. op[q].doc \in Docs /\ lock[op[q].doc] # None BY <1>2, OwnLock
  <2>2. op[q].doc # d
    <3> SUFFICES ASSUME op[q].doc = d PROVE FALSE OBVIOUS
    <3>1. lock[d] # None BY <2>1
    <3>2. Lapsed(lock[d]) BY <1>1, <1>3, <3>1 DEF AcquireLease, CreateLockFile
    <3> QED BY <1>2, <3>2, LapsedOverran
  <2>3. lock'[op[q].doc] = lock[op[q].doc] /\ op'[q] = op[q] BY <1>8, <1>13, <2>1, <2>2
  <2> QED BY <2>2, <2>3 DEF HasLock
<1>23. LeaseInv' BY <1>1, <1>19, <1>21, <1>22 DEF LeaseInv, PalaceInv
<1>24. driver' = "file" => \A q \in Agents : Overran(q)' => overran' BY <1>1, <1>20, <1>21 DEF PalaceInv, LockFileInv
<1>25. ASSUME Orderly'
       PROVE  /\ \A q \in Agents : InClaim(q)' => HasLock(q)'
              /\ \A q \in Agents : op'[q] # None => op'[q].step # "takeover"
              /\ \A e \in Docs : lock'[e] # None =>
                    InClaim(lock[e].holder)' /\ op'[lock'[e].holder].doc = e /\ HasLock(lock[e].holder)'
  <2>1. Orderly BY <1>1, <1>25 DEF Orderly
  <2>2. \A q \in Agents : ~ Overran(q) BY <2>1 DEF PalaceInv, LockFileInv, Orderly
  <2>3. \A q \in Agents : InClaim(q)' => HasLock(q)'
    BY <1>19, <1>21, <1>22, <2>1, <2>2 DEF PalaceInv, LockFileInv
  <2>4. \A q \in Agents : op'[q] # None => op'[q].step # "takeover"
    BY <1>10, <1>13, <2>1 DEF PalaceInv, LockFileInv
  <2>5. ASSUME NEW e \in Docs, lock'[e] # None, NEW h, h = lock'[e].holder
        PROVE  InClaim(h)' /\ op'[h].doc = e /\ HasLock(h)'
    <3>1. CASE e = d
      <4>1. h = o BY <1>3, <1>8, <2>5, <3>1
      <4> QED BY <1>10, <1>13, <1>19, <3>1, <4>1
    <3>2. CASE e # d
      <4>1. lock'[e] = lock[e] BY <1>8, <3>2
      <4>2. h \in Agents /\ InClaim(h) /\ op[h].doc = e /\ HasLock(h)
        BY <1>5, <2>1, <2>5, <4>1 DEF PalaceInv, LockFileInv, Lock
      <4>3. h # o BY <1>3, <3>2, <4>2
      <4> QED BY <1>13, <1>21, <1>22, <2>2, <4>2, <4>3
    <3> QED BY <3>1, <3>2
  <2> QED BY <2>3, <2>4, <2>5
<1>26. LockFileInv' BY <1>24, <1>25 DEF LockFileInv
<1> QED BY <1>1, <1>13, <1>14, <1>16, <1>17, <1>18, <1>23, <1>26, LockingStep

(* In an orderly run of file claims no lock file is stale.                  *)
LEMMA NothingStale ==
    ASSUME PalaceInv, Orderly, NEW d \in Docs, lock[d] # None
    PROVE  ~ Lapsed(lock[d])
<1>1. PICK h : h = lock[d].holder OBVIOUS
<1>2. h \in Agents BY <1>1 DEF PalaceInv, TypeOK, StoreTypeOK, Lock
<1>3. InClaim(h) /\ op[h].doc = d /\ HasLock(h) BY <1>1 DEF PalaceInv, LockFileInv
<1>4. ~ Overran(h) BY <1>2 DEF PalaceInv, LockFileInv, Orderly
<1> QED BY <1>2, <1>3, <1>4, LapsedOverran DEF PalaceInv

LEMMA StatLockStep ==
    ASSUME PalaceInv, NEW o \in Agents, StatLock(o)
    PROVE  PalaceInv'
<1>1. /\ driver = "file" /\ op[o] # None /\ op[o].step = "lock"
      /\ lock[op[o].doc] # None /\ Lapsed(lock[op[o].doc]) /\ op' = Goto(o, "takeover")
      /\ UNCHANGED <<driver, stored, copy, seen, lock, now, writes, grants, clobbers, finished, author, ungated, unchecked,
                     overran, begun, faults, crashes>>
  BY DEF StatLock, storeVars, histVars
<1>2. TypeOK /\ op \in Ops /\ op[o] \in Operation BY <1>1, OpsTyped DEF PalaceInv, Ops
<1>3. "takeover" \in Steps BY DEF Steps
<1>4. op' \in Ops /\ Advances(o, "takeover") /\ \A q \in Agents \ {o} : GoesOn(q, op[q])
  BY <1>1, <1>2, <1>3, Going
<1>5. TypeOK' BY <1>1, <1>2, <1>4 DEF TypeOK, StoreTypeOK, Ops
<1>6. op[o].kind = "claim" BY <1>1 DEF PalaceInv, StepInv
<1>7. GoodStores BY <1>1, <1>2, SameStores
<1>8. GoodOperation(o) BY <1>1, <1>4, <1>6, <1>7, AdvancesGood
<1>9. ~ HasRead(o)' /\ SameGrants(o) BY <1>1, <1>4 DEF HasRead, SameGrants, MayWin, Advances
<1>10. op[o].doc \in Docs BY <1>2 DEF Operation
<1>11. ~ Orderly BY <1>1, <1>10, NothingStale
<1>12. \A q \in Agents : Overran(q)' <=> Overran(q)
  <2>1. ~ InClaim(o) /\ ~ InClaim(o)' BY <1>1, <1>4 DEF InClaim, Advances
  <2>2. \A q \in Agents \ {o} : InClaim(q)' <=> InClaim(q) BY <1>4, SameOthers
  <2>3. \A q \in Agents \ {o} : InClaim(q) => op'[q].taken = op[q].taken BY <1>4, SameOthers
  <2> QED BY <1>1, <2>1, <2>2, <2>3 DEF Overran, Lapsed
<1>13. LeaseInv' BY <1>1 DEF LeaseInv
<1>14. LockFileInv' BY <1>1, <1>11, <1>12 DEF PalaceInv, LockFileInv, Orderly
<1> QED BY <1>1, <1>4, <1>5, <1>8, <1>9, <1>13, <1>14, LockingStep

LEMMA TakeOverStep ==
    ASSUME PalaceInv, NEW o \in Agents, TakeOver(o)
    PROVE  PalaceInv'
<1>1. /\ op[o] # None /\ op[o].step = "takeover"
      /\ lock' = [lock EXCEPT ![op[o].doc] = None] /\ op' = Goto(o, "lock")
      /\ UNCHANGED <<driver, stored, copy, seen, now, writes, grants, clobbers, finished, author, ungated, unchecked,
                     overran, begun, faults, crashes>>
  BY DEF TakeOver, histVars
<1>2. TypeOK /\ op \in Ops /\ op[o] \in Operation BY <1>1, OpsTyped DEF PalaceInv, Ops
<1>3. "lock" \in Steps BY DEF Steps
<1>4. op' \in Ops /\ Advances(o, "lock") /\ \A q \in Agents \ {o} : GoesOn(q, op[q])
  BY <1>1, <1>2, <1>3, Going
<1>5. TypeOK' BY <1>1, <1>2, <1>4 DEF TypeOK, StoreTypeOK, Ops
<1>6. op[o].kind = "claim" /\ driver = "file" BY <1>1 DEF PalaceInv, StepInv
<1>7. GoodStores BY <1>1, <1>2, SameStores
<1>8. GoodOperation(o) BY <1>4, <1>6, <1>7, AdvancesGood
<1>9. ~ HasRead(o)' /\ SameGrants(o) BY <1>1, <1>4 DEF HasRead, SameGrants, MayWin, Advances
<1>10. ~ Orderly BY <1>1 DEF PalaceInv, LockFileInv
<1>11. \A q \in Agents : Overran(q)' <=> Overran(q)
  <2>1. ~ InClaim(o) /\ ~ InClaim(o)' BY <1>1, <1>4 DEF InClaim, Advances
  <2>2. \A q \in Agents \ {o} : InClaim(q)' <=> InClaim(q) BY <1>4, SameOthers
  <2>3. \A q \in Agents \ {o} : InClaim(q) => op'[q].taken = op[q].taken BY <1>4, SameOthers
  <2> QED BY <1>1, <2>1, <2>2, <2>3 DEF Overran, Lapsed
<1>12. LeaseInv' BY <1>1, <1>6 DEF LeaseInv
<1>13. LockFileInv' BY <1>1, <1>10, <1>11 DEF PalaceInv, LockFileInv, Orderly
<1> QED BY <1>1, <1>4, <1>5, <1>8, <1>9, <1>12, <1>13, LockingStep

LEMMA UnlockStep ==
    ASSUME PalaceInv, NEW o \in Agents, Unlock(o)
    PROVE  PalaceInv'
<1>1. /\ op[o] # None /\ op[o].step = "unlock" /\ Release(o, op[o].doc) /\ op' = [op EXCEPT ![o] = None]
      /\ UNCHANGED <<driver, stored, copy, seen, now, writes, grants, clobbers, finished, author, ungated, unchecked,
                     overran, begun, faults, crashes>>
  BY DEF Unlock, histVars
<1>2. TypeOK /\ op \in Ops /\ op[o] \in Operation BY <1>1, OpsTyped DEF PalaceInv, Ops
<1>3. PICK d : d = op[o].doc OBVIOUS
<1>4. d \in Docs /\ InClaim(o) BY <1>1, <1>2, <1>3 DEF Operation, PalaceInv, StepInv, InClaim
<1>5. /\ lock \in [Docs -> Lock \cup {None}]
      /\ lock' = IF driver = "clued" /\ (lock[d] = None \/ lock[d].holder # o) THEN lock ELSE [lock EXCEPT ![d] = None]
  BY <1>1, <1>2, <1>3 DEF TypeOK, StoreTypeOK, Release
<1>6. /\ lock' \in [Docs -> Lock \cup {None}]
      /\ \A e \in Docs \ {d} : lock'[e] = lock[e]
      /\ lock'[d] = None \/ (driver = "clued" /\ lock'[d] = lock[d])
      /\ driver = "clued" /\ lock[d] # None /\ lock[d].holder # o => lock'[d] = lock[d]
  BY <1>4, <1>5
<1>7. PICK x \in Operation \cup {None} : x = None OBVIOUS
<1>8. op' \in Ops /\ op'[o] = None /\ \A q \in Agents \ {o} : op'[q] = op[q] /\ GoesOn(q, op[q])
  BY <1>1, <1>2, <1>7, MovesAlone
<1>9. TypeOK' BY <1>1, <1>2, <1>6, <1>8 DEF TypeOK, StoreTypeOK, Ops
<1>10. GoodOperation(o) /\ ~ HasRead(o)' /\ ~ InClaim(o)' BY <1>8 DEF GoodOperation, HasRead, InClaim
<1>11. SameGrants(o) BY <1>1, <1>8 DEF SameGrants, MayWin
<1>12. \A q \in Agents \ {o} : (InClaim(q)' <=> InClaim(q)) /\ (Overran(q)' <=> Overran(q))
  BY <1>1, <1>8 DEF InClaim, Overran, Lapsed
<1>13. ASSUME NEW q \in Agents \ {o}, InClaim(q), HasLock(q), driver = "clued" \/ HasLock(o)
       PROVE  HasLock(q)'
  <2>1. op[q].doc \in Docs /\ lock[op[q].doc] # None /\ lock[op[q].doc].holder = q BY <1>2, <1>13, OwnLock
  <2>2. HasLock(o) => op[q].doc # d BY <1>2, <1>3, <1>4, <2>1, OwnLock
  <2>3. lock'[op[q].doc] = lock[op[q].doc] BY <1>6, <1>13, <2>1, <2>2
  <2> QED BY <1>8, <1>13, <2>3 DEF HasLock
<1>14. LeaseInv' BY <1>1, <1>10, <1>12, <1>13 DEF LeaseInv, PalaceInv
<1>15. driver' = "file" => \A q \in Agents : Overran(q)' => overran' BY <1>1, <1>10, <1>12 DEF PalaceInv, LockFileInv, Overran
<1>16. ASSUME Orderly'
       PROVE  /\ \A q \in Agents : InClaim(q)' => HasLock(q)'
              /\ \A q \in Agents : op'[q] # None => op'[q].step # "takeover"
              /\ \A e \in Docs : lock'[e] # None =>
                    InClaim(lock[e].holder)' /\ op'[lock'[e].holder].doc = e /\ HasLock(lock[e].holder)'
  <2>1. Orderly BY <1>1, <1>16 DEF Orderly
  <2>2. HasLock(o) BY <1>4, <2>1 DEF PalaceInv, LockFileInv
  <2>3. \A q \in Agents : InClaim(q)' => HasLock(q)'
    BY <1>10, <1>12, <1>13, <2>1, <2>2 DEF PalaceInv, LockFileInv
  <2>4. \A q \in Agents : op'[q] # None => op'[q].step # "takeover" BY <1>8, <2>1 DEF PalaceInv, LockFileInv
  <2>5. ASSUME NEW e \in Docs, lock'[e] # None, NEW h, h = lock'[e].holder
        PROVE  InClaim(h)' /\ op'[h].doc = e /\ HasLock(h)'
    <3>1. e # d BY <1>6, <2>1, <2>5 DEF Orderly
    <3>2. lock'[e] = lock[e] BY <1>6, <3>1
    <3>3. h \in Agents /\ InClaim(h) /\ op[h].doc = e /\ HasLock(h)
      BY <1>5, <2>1, <2>5, <3>2 DEF PalaceInv, LockFileInv, Lock
    <3>4. h # o BY <1>3, <3>1, <3>3
    <3> QED BY <1>8, <1>12, <1>13, <2>2, <3>3, <3>4
  <2> QED BY <2>3, <2>4, <2>5
<1>17. LockFileInv' BY <1>15, <1>16 DEF LockFileInv
<1> QED BY <1>1, <1>8, <1>9, <1>10, <1>11, <1>14, <1>17, LockingStep

LEMMA CrashStep ==
    ASSUME PalaceInv, NEW c \in Clients, Crash(c)
    PROVE  PalaceInv'
<1>1. /\ faults + crashes < MaxFaults /\ crashes' = crashes + 1
      /\ op' = [o \in Agents |-> IF ClientOf[o] = c THEN None ELSE op[o]]
      /\ seen' = [seen EXCEPT ![c] = [d \in Docs |-> 0]]
      /\ UNCHANGED <<driver, stored, copy, lock, now, writes, grants, clobbers, finished, author, ungated, unchecked,
                     overran, begun, faults>>
  BY DEF Crash, histVars
<1>2. TypeOK /\ op \in Ops BY OpsTyped DEF PalaceInv
<1>3. seen \in [Clients -> [Docs -> Nat]] BY <1>2 DEF TypeOK, StoreTypeOK
<1>4. PICK z : z = [d \in Docs |-> 0] OBVIOUS
<1>5. seen' \in [Clients -> [Docs -> Nat]] /\ \A e \in Clients, d \in Docs : seen'[e][d] \in {0, seen[e][d]}
  BY <1>1, <1>3, <1>4
<1>6. op' \in Ops BY <1>1, <1>2 DEF Ops
<1>7. \A q \in Agents : op'[q] = None \/ op'[q] = op[q] BY <1>1
<1>8. faults \in Nat /\ crashes \in Nat /\ crashes' \in 0 .. MaxFaults /\ crashes' # 0
  BY <1>1, <1>2, PalaceAssumption DEF TypeOK
<1>9. TypeOK' BY <1>1, <1>2, <1>5, <1>6, <1>8 DEF TypeOK, StoreTypeOK, Ops
<1>10. GoodStores /\ GoodSeen(c, {}) BY <1>1, <1>2, <1>5, SameStores DEF GoodSeen
<1>11. ASSUME NEW q \in Agents PROVE GoodSlot(q, c, {})
  <2>1. CASE op'[q] = None BY <2>1 DEF GoodSlot, GoodOperation, HasRead
  <2>2. CASE op'[q] = op[q]
    <3>1. Like(op[q], op[q]) BY LikeItself
    <3>2. GoesOn(q, op[q]) BY <1>2, <2>2, <3>1 DEF GoesOn, Ops
    <3> QED BY <3>2 DEF GoodSlot, MarkedBy
  <2> QED BY <1>7, <2>1, <2>2
<1>12. DocsInv' BY <1>9, <1>10, <1>11, DocsStep
<1>13. \A q \in Agents : InClaim(q)' => InClaim(q) /\ op'[q] = op[q] BY <1>7 DEF InClaim
<1>14. \A q \in Agents : InClaim(q)' => (Overran(q)' <=> Overran(q)) /\ (HasLock(q)' <=> HasLock(q))
  BY <1>1, <1>13 DEF Overran, Lapsed, HasLock
<1>15. LeaseInv' BY <1>1, <1>13, <1>14 DEF PalaceInv, LeaseInv
<1>16. driver' = "file" => \A q \in Agents : Overran(q)' => overran' BY <1>1, <1>14 DEF PalaceInv, LockFileInv, Overran
<1>17. ~ Orderly' BY <1>8 DEF Orderly
<1>18. LockFileInv' /\ FoundFree' BY <1>16, <1>17 DEF LockFileInv, FoundFree
<1>19. HeldByWinner' BY <1>1, <1>8, HeldKept DEF PalaceInv
<1>20. LostUpdateOnlyKnown' BY <1>1 DEF PalaceInv, LostUpdateOnlyKnown
<1> QED BY <1>9, <1>12, <1>15, <1>18, <1>19, <1>20 DEF DocsInv, PalaceInv

LEMMA TickStep ==
    ASSUME PalaceInv, Tick
    PROVE  PalaceInv'
<1>1. /\ now < MaxNow[driver] /\ now' = now + 1
      /\ UNCHANGED <<driver, stored, copy, seen, lock, writes, op, grants, clobbers, finished, author, ungated, unchecked,
                     begun, faults, crashes>>
      /\ overran' = (overran \/ (driver = "file" /\ \E o \in Agents : Overran(o)'))
  BY DEF Tick, histVars
<1>2. TypeOK /\ op \in Ops /\ now \in Nat BY OpsTyped DEF PalaceInv, TypeOK, StoreTypeOK
<1>3. TypeOK' BY <1>1, <1>2 DEF TypeOK, StoreTypeOK
<1>4. GoodStores /\ GoodSeen(None, {}) BY <1>1, <1>2, SameSeen DEF GoodStores, TypeOK, StoreTypeOK
<1>5. ASSUME NEW q \in Agents PROVE GoodSlot(q, None, {})
  <2>1. Like(op[q], op[q]) BY LikeItself
  <2>2. GoesOn(q, op[q]) BY <1>1, <1>2, <2>1 DEF GoesOn, Ops
  <2> QED BY <2>2 DEF GoodSlot, MarkedBy
<1>6. DocsInv' BY <1>3, <1>4, <1>5, DocsStep
<1>7. \A q \in Agents : (InClaim(q)' <=> InClaim(q)) /\ (HasLock(q)' <=> HasLock(q)) BY <1>1 DEF InClaim, HasLock
<1>8. ASSUME NEW q \in Agents, Overran(q) PROVE Overran(q)'
  <2>1. op[q].taken \in Nat BY <1>2, <1>8 DEF Overran, InClaim, Ops, Operation
  <2> QED BY <1>1, <1>2, <1>7, <1>8, <2>1, DocStoreAssumption DEF Overran, Lapsed
<1>9. LeaseInv' BY <1>1, <1>7, <1>8 DEF PalaceInv, LeaseInv
<1>10. driver' = "file" => \A q \in Agents : Overran(q)' => overran' BY <1>1
<1>11. overran => overran' BY <1>1
<1>12. Orderly' => Orderly BY <1>1, <1>11 DEF Orderly
<1>13. Orderly =>
         /\ \A q \in Agents : InClaim(q)' => HasLock(q)'
         /\ \A q \in Agents : op'[q] # None => op'[q].step # "takeover"
         /\ \A d \in Docs : lock'[d] # None =>
               InClaim(lock[d].holder)' /\ op'[lock'[d].holder].doc = d /\ HasLock(lock[d].holder)'
  <2>1. \A d \in Docs : lock[d] # None => lock[d].holder \in Agents BY <1>2 DEF TypeOK, StoreTypeOK, Lock
  <2> QED BY <1>1, <1>7, <2>1 DEF PalaceInv, LockFileInv
<1>14. LockFileInv' BY <1>10, <1>12, <1>13 DEF LockFileInv
<1>15. FoundFree'
  <2>1. \A q \in Agents : MayWin(q)' <=> MayWin(q) BY <1>1 DEF MayWin
  <2>2. \A q, d : NobodyElse(d, q)' <=> NobodyElse(d, q) BY <1>1 DEF NobodyElse
  <2> QED BY <1>1, <1>12, <2>1, <2>2 DEF PalaceInv, FoundFree
<1>16. HeldByWinner' BY <1>1, <1>11, HeldKept DEF PalaceInv
<1>17. LostUpdateOnlyKnown' BY <1>1 DEF PalaceInv, LostUpdateOnlyKnown
<1> QED BY <1>3, <1>6, <1>9, <1>14, <1>15, <1>16, <1>17 DEF DocsInv, PalaceInv

-----------------------------------------------------------------------------
(* The steps that grant.                                                    *)

(* In an orderly run of file claims one claim at a time is in a document.   *)
LEMMA OneClaim ==
    ASSUME PalaceInv, Orderly, NEW o \in Agents, NEW q \in Agents, InClaim(o), InClaim(q), op[o].doc = op[q].doc
    PROVE  o = q
<1>1. TypeOK /\ HasLock(o) /\ HasLock(q) BY DEF PalaceInv, LockFileInv
<1> QED BY <1>1, OwnLock

LEMMA NobodyKept ==
    ASSUME unchecked \subseteq unchecked', NEW d, NEW q, grants'[d] \subseteq grants[d], NobodyElse(d, q)
    PROVE  NobodyElse(d, q)'
BY DEF NobodyElse

(* A step of o that adds no grant but o's own.                              *)
LEMMA FoundFreeStep ==
    ASSUME PalaceInv, NEW o \in Agents,
           driver' = driver, overran' = overran, crashes' = crashes, clobbers \subseteq clobbers',
           unchecked \subseteq unchecked',
           \A q \in Agents \ {o} : GoesOn(q, op[q]),
           \A d \in Docs : grants'[d] \subseteq grants[d] \/ (InClaim(o) /\ op[o].doc = d),
           Orderly /\ MayWin(o)' =>
               NobodyElse(op[o].doc, o)' \/ \E b \in clobbers' : b.doc = op'[o].doc /\ b.kind # "claim"
    PROVE  FoundFree'
<1>1. Orderly' <=> Orderly BY DEF Orderly
<1>2. ASSUME NEW q \in Agents, Orderly, MayWin(q)'
      PROVE  NobodyElse(op[q].doc, q)' \/ \E b \in clobbers' : b.doc = op'[q].doc /\ b.kind # "claim"
  <2>1. CASE q = o BY <1>2, <2>1
  <2>2. CASE q # o
    <3>1. op'[q] # None /\ op[q] # None /\ Like(op'[q], op[q]) BY <1>2, <2>2, SameOthers DEF MayWin
    <3>2. MayWin(q) /\ InClaim(q) /\ op'[q].doc = op[q].doc BY <1>2, <3>1 DEF MayWin, InClaim, Like
    <3>3. ~ (InClaim(o) /\ op[o].doc = op[q].doc) BY <1>2, <2>2, <3>2, OneClaim
    <3>4. PICK d : d = op[q].doc OBVIOUS
    <3>5. d \in Docs BY <3>1, <3>4 DEF PalaceInv, TypeOK, Operation
    <3>6. grants'[d] \subseteq grants[d] BY <3>3, <3>4, <3>5
    <3>7. NobodyElse(d, q) \/ \E b \in clobbers : b.doc = d /\ b.kind # "claim"
      BY <1>2, <3>2, <3>4 DEF PalaceInv, FoundFree
    <3>8. NobodyElse(d, q) => NobodyElse(d, q)' BY <3>6, NobodyKept
    <3>9. op'[q].doc = d BY <3>2, <3>4
    <3>10. NobodyElse(d, q)' => NobodyElse(op[q].doc, q)' BY <3>9 DEF NobodyElse
    <3> QED BY <3>7, <3>8, <3>9, <3>10
  <2> QED BY <2>1, <2>2
<1> QED BY <1>1, <1>2 DEF FoundFree

(* o ends its claim, and is perhaps told to hold the document.              *)
LEMMA GrantReturn ==
    ASSUME PalaceInv, NEW o \in Agents, InClaim(o), NEW d, d = op[o].doc, NEW ds,
           op' = ReseenIn(stored', Return(o), o, ds) \/ (ds = {} /\ op' = Return(o)),
           seen' \in [Clients -> [Docs -> Nat]], GoodSeen(o, ds), faults' \in 0 .. MaxFaults,
           unchecked \subseteq unchecked', unchecked' \subseteq Docs \X Agents,
           grants' = grants \/ (/\ stored[d] = None \/ stored[d].assignee = o \/ Excused(d, o)'
                                /\ grants' = [grants EXCEPT ![d] = @ \cup {o}]),
           UNCHANGED <<driver, stored, copy, lock, now, writes, clobbers, finished, author, ungated,
                       overran, begun, crashes>>
    PROVE  PalaceInv'
<1>1. TypeOK /\ op \in Ops /\ op[o] # None /\ op[o].kind = "claim" /\ stored' = stored
  BY OpsTyped DEF PalaceInv, InClaim
<1>2. d \in Docs BY <1>1 DEF Ops, Operation
<1>3. /\ op' \in Ops /\ Returns(o)
      /\ \A q \in Agents \ {o} : GoesOn(q, op[q]) /\ MarkedBy(o, stored', ds, q)
  BY <1>1, Returning
<1>4. /\ grants \in [Docs -> SUBSET Agents] /\ grants' \in [Docs -> SUBSET Agents]
      /\ \A e \in Docs \ {d} : grants'[e] = grants[e]
      /\ \/ grants'[d] = grants[d]
         \/ (stored[d] = None \/ stored[d].assignee = o \/ Excused(d, o)') /\ grants'[d] = grants[d] \cup {o}
  BY <1>1, <1>2 DEF TypeOK
<1>5. TypeOK' BY <1>1, <1>3, <1>4 DEF TypeOK, StoreTypeOK, Ops
<1>6. GoodStores BY <1>1, SameStores
<1>7. GoodOperation(o) /\ ~ HasRead(o)' /\ ~ MayWin(o)' BY <1>1, <1>3, <1>6, ReturnsGood
<1>8. \A q \in Agents : GoodSlot(q, o, ds) BY <1>3, <1>7 DEF GoodSlot
<1>9. DocsInv' BY <1>5, <1>6, <1>8, DocsStep
<1>10. op[o].step \notin {"lock", "takeover"} BY DEF InClaim
<1>11. SameClaim(o) BY <1>1, <1>3, <1>10, ReturnsInClaim
<1>12. LeaseInv' /\ LockFileInv' BY <1>3, <1>11, LocksKept DEF PalaceInv
<1>13. FoundFree' BY <1>3, <1>4, <1>7, FoundFreeStep
<1>14. HeldByWinner'
  <2> SUFFICES ASSUME NEW e \in Docs, NEW p \in grants'[e]
               PROVE  stored'[e] = None \/ stored'[e].assignee = p \/ Excused(e, p)'
    BY DEF HeldByWinner, Excused
  <2>1. CASE p \in grants[e]
    <3>1. stored[e] = None \/ stored[e].assignee = p \/ Excused(e, p) BY <2>1, HeldOrExcused DEF PalaceInv
    <3>2. Excused(e, p) => Excused(e, p)' BY ExcusedKept
    <3> QED BY <1>1, <3>1, <3>2
  <2>2. CASE p \notin grants[e]
    <3>1. e = d /\ p = o BY <1>4, <2>2
    <3>2. stored[d] = None \/ stored[d].assignee = o \/ Excused(d, o)' BY <1>4, <2>2, <3>1
    <3>3. Excused(d, o)' => Excused(e, p)' BY <3>1 DEF Excused
    <3> QED BY <1>1, <3>1, <3>2, <3>3
  <2> QED BY <2>1, <2>2
<1>15. LostUpdateOnlyKnown' BY DEF PalaceInv, LostUpdateOnlyKnown
<1> QED BY <1>5, <1>9, <1>12, <1>13, <1>14, <1>15 DEF DocsInv, PalaceInv

LEMMA RecheckStep ==
    ASSUME PalaceInv, NEW o \in Agents, Recheck(o)
    PROVE  PalaceInv'
<1>1. PICK d : d = op[o].doc OBVIOUS
<1>2. /\ op[o] # None /\ op[o].step = "recheck"
      /\ grants' = IF stored[d] = None \/ stored[d].assignee = o THEN [grants EXCEPT ![d] = @ \cup {o}] ELSE grants
      /\ op' = Reseen(Return(o), o, {d}) /\ seen' = SeenAfterRead(ClientOf[o], d)
      /\ UNCHANGED <<driver, stored, copy, lock, now, writes, clobbers, finished, author, ungated, unchecked,
                     overran, begun, faults, crashes>>
  BY <1>1 DEF Recheck
<1>3. InClaim(o) BY <1>2 DEF PalaceInv, StepInv, InClaim
<1>4. op' = ReseenIn(stored', Return(o), o, {d}) BY <1>2 DEF Reseen
<1>5. grants' = grants \/ (/\ stored[d] = None \/ stored[d].assignee = o
                           /\ grants' = [grants EXCEPT ![d] = @ \cup {o}])
  BY <1>2
<1>6. TypeOK /\ op[o] \in Operation BY <1>2 DEF PalaceInv, TypeOK
<1>7. seen' \in [Clients -> [Docs -> Nat]] /\ GoodSeen(o, {d}) BY <1>1, <1>2, <1>6, ReadsOne DEF Operation
<1>8. /\ faults' \in 0 .. MaxFaults /\ unchecked \subseteq unchecked' /\ unchecked' \subseteq Docs \X Agents
  BY <1>2, <1>6 DEF TypeOK
<1> QED BY <1>1, <1>2, <1>3, <1>4, <1>5, <1>7, <1>8, GrantReturn

LEMMA RecheckFailsStep ==
    ASSUME PalaceInv, NEW o \in Agents, RecheckFails(o)
    PROVE  PalaceInv'
<1>1. PICK d, x : d = op[o].doc /\ x = <<d, o>> OBVIOUS
<1>2. /\ op[o] # None /\ op[o].step = "recheck" /\ faults + crashes < MaxFaults
      /\ grants' = [grants EXCEPT ![d] = @ \cup {o}] /\ unchecked' = unchecked \cup {x}
      /\ op' = Return(o) /\ faults' = faults + 1
      /\ UNCHANGED <<driver, stored, copy, seen, lock, now, writes, clobbers, finished, author, ungated,
                     overran, begun, crashes>>
  BY <1>1 DEF RecheckFails, storeVars
<1>3. InClaim(o) BY <1>2 DEF PalaceInv, StepInv, InClaim
<1>4. TypeOK /\ op[o] \in Operation BY <1>2 DEF PalaceInv, TypeOK
<1>5. d \in Docs BY <1>1, <1>4 DEF Operation
<1>6. x \in Docs \X Agents BY <1>1, <1>5
<1>7. unchecked \subseteq unchecked' /\ unchecked' \subseteq Docs \X Agents /\ x \in unchecked'
  BY <1>2, <1>4, <1>6 DEF TypeOK
<1>8. Excused(d, o)' BY <1>1, <1>7 DEF Excused
<1>9. GoodSeen(o, {}) /\ seen' \in [Clients -> [Docs -> Nat]] BY <1>2, <1>4, SameSeen DEF TypeOK, StoreTypeOK
<1>10. faults' \in 0 .. MaxFaults BY <1>2, <1>4, PalaceAssumption DEF TypeOK
<1> QED BY <1>1, <1>2, <1>3, <1>7, <1>8, <1>9, <1>10, GrantReturn

LEMMA RereadStep ==
    ASSUME PalaceInv, NEW o \in Agents, Reread(o)
    PROVE  PalaceInv'
<1>1. PICK d, x0 : d = op[o].doc /\ x0 = stored[d] OBVIOUS
<1> DEFINE mine == x0 # None /\ x0.assignee = o /\ x0.status = "in_progress"
           others == x0 # None /\ x0.assignee \notin {None, o} /\ ~ op[o].force
<1>2. /\ op[o] # None /\ op[o].step = "reread"
      /\ op' = IF x0 = None \/ mine \/ others THEN Reseen(Return(o), o, {d})
               ELSE [Reseen(op, o, {d}) EXCEPT ![o] =
                       [op[o] EXCEPT !.step = "gate", !.snap = x0, !.base = x0.ver,
                                     !.stamp = SeenAfterRead(ClientOf[o], d)[ClientOf[o]][d], !.reseen = FALSE]]
      /\ grants' = IF mine THEN [grants EXCEPT ![d] = @ \cup {o}] ELSE grants
      /\ seen' = SeenAfterRead(ClientOf[o], d)
      /\ UNCHANGED <<driver, stored, copy, lock, now, writes, clobbers, finished, author, ungated, unchecked,
                     overran, begun, faults, crashes>>
  BY <1>1 DEF Reread
<1>3. InClaim(o) BY <1>2 DEF PalaceInv, StepInv, InClaim
<1>4. CASE x0 = None \/ mine \/ others
  <2>1. op' = ReseenIn(stored', Return(o), o, {d}) BY <1>2, <1>4 DEF Reseen
  <2>2. grants' = grants \/ (/\ stored[d] = None \/ stored[d].assignee = o
                             /\ grants' = [grants EXCEPT ![d] = @ \cup {o}])
    BY <1>1, <1>2
  <2>3. TypeOK /\ op[o] \in Operation BY <1>2 DEF PalaceInv, TypeOK
  <2>4. seen' \in [Clients -> [Docs -> Nat]] /\ GoodSeen(o, {d}) BY <1>1, <1>2, <2>3, ReadsOne DEF Operation
  <2>5. /\ faults' \in 0 .. MaxFaults /\ unchecked \subseteq unchecked' /\ unchecked' \subseteq Docs \X Agents
    BY <1>2, <2>3 DEF TypeOK
  <2> QED BY <1>1, <1>2, <1>3, <2>1, <2>2, <2>4, <2>5, GrantReturn
<1>5. CASE ~ (x0 = None \/ mine \/ others)
  <2>1. /\ TypeOK /\ op \in Ops /\ op[o] \in Operation /\ op[o].kind = "claim"
        /\ stored' = stored /\ grants' = grants
    BY <1>2, <1>3, <1>5, OpsTyped DEF PalaceInv, Ops, InClaim
  <2>2. d \in Docs BY <1>1, <2>1 DEF Operation
  <2>3. x0 # None /\ x0 \in Document /\ (x0.assignee \in {None, o} \/ op[o].force)
    BY <1>1, <1>5, <2>1, <2>2 DEF TypeOK, StoreTypeOK
  <2>4. /\ seen' \in [Clients -> [Docs -> Nat]] /\ GoodSeen(o, {d})
        /\ driver = "clued" => seen'[ClientOf[o]][d] = x0.updated
    BY <1>1, <1>2, <2>1, <2>2, <2>3, ReadsOne
  <2>5. PICK u : u = seen'[ClientOf[o]][d] OBVIOUS
  <2>6. u \in Nat /\ x0.ver \in Nat BY <2>2, <2>3, <2>4, <2>5, Client DEF Document
  <2>7. PICK x : x = [op[o] EXCEPT !.step = "gate", !.snap = x0, !.base = x0.ver, !.stamp = u, !.reseen = FALSE] OBVIOUS
  <2>8. /\ x \in Operation /\ x.step = "gate" /\ x.snap = x0 /\ x.base = x0.ver /\ x.stamp = u /\ x.kind = "claim"
        /\ x.doc = d /\ x.taken = op[o].taken /\ x.force = op[o].force
    BY <1>1, <2>1, <2>3, <2>6, <2>7 DEF Operation, Steps
  <2>9. op' = [ReseenIn(stored, op, o, {d}) EXCEPT ![o] = x] BY <1>2, <1>5, <2>5, <2>7 DEF Reseen
  <2>10. /\ op' \in Ops /\ op'[o] = x
         /\ \A q \in Agents \ {o} : GoesOn(q, op[q]) /\ MarkedBy(o, stored, {d}, q)
    <3>1. x \in Operation \cup {None} BY <2>8
    <3> QED BY <2>1, <2>9, <3>1, MovesAfresh
  <2>11. TypeOK' BY <1>2, <2>1, <2>4, <2>10 DEF TypeOK, StoreTypeOK, Ops
  <2>12. GoodStores BY <1>2, <2>1, SameStores
  <2>13. GoodOperation(o)
    <3>1. Good(d, x0) BY <1>1, <1>2, <2>2, <2>3, KnownGood
    <3>2. driver = "clued" => Source(x0.ver, u) BY <2>4, <2>5, <3>1 DEF Good
    <3>3. driver = "clued" => u <= now' + Skew
      <4>1. x0.updated \in 1 .. now + Skew BY <1>1, <2>2, <2>3, StampsBelow DEF PalaceInv
      <4>2. driver = "clued" => u = x0.updated BY <2>4, <2>5
      <4>3. now' = now BY <1>2
      <4> QED BY <4>1, <4>2, <4>3
    <3> QED BY <2>8, <2>10, <3>1, <3>2, <3>3 DEF GoodOperation
  <2>14. OwnStamp(o)' BY <2>5, <2>8, <2>10 DEF OwnStamp
  <2>15. \A q \in Agents : GoodSlot(q, o, {d}) BY <2>1, <2>10, <2>13, <2>14 DEF GoodSlot
  <2>16. DocsInv' BY <2>4, <2>11, <2>12, <2>15, DocsStep
  <2>17. x # None BY <2>8, NoOperationAssumption
  <2>18. SameClaim(o) BY <1>1, <1>2, <1>3, <2>8, <2>10, <2>17 DEF SameClaim, InClaim
  <2>19. LeaseInv' /\ LockFileInv' BY <2>1, <2>10, <2>18, LocksKept DEF PalaceInv
  <2>20. ASSUME Orderly, MayWin(o)'
         PROVE  NobodyElse(op[o].doc, o)' \/ \E b \in clobbers' : b.doc = op'[o].doc /\ b.kind # "claim"
    <3>1. ~ op[o].force /\ x0.assignee \in {None, o} BY <2>3, <2>8, <2>10, <2>20 DEF MayWin
    <3>2. op'[o].doc = d BY <2>8, <2>10
    <3>3. unchecked' = unchecked /\ clobbers' = clobbers BY <1>2
    <3>4. SUFFICES ASSUME ~ \E b \in clobbers : b.doc = d /\ b.kind # "claim" PROVE NobodyElse(op[o].doc, o)'
      BY <3>2, <3>3
    <3>5. ASSUME NEW p \in grants[d] PROVE p = o \/ <<d, p>> \in unchecked
      <4>1. p # None BY <2>1, <2>2, DocStoreAssumption DEF TypeOK
      <4>2. x0.assignee = p \/ <<d, p>> \in unchecked
        BY <1>1, <2>2, <2>3, <2>20, <3>4 DEF PalaceInv, HeldByWinner, Orderly
      <4> QED BY <3>1, <4>1, <4>2
    <3>6. NobodyElse(d, o)' BY <2>1, <3>3, <3>5 DEF NobodyElse
    <3> QED BY <3>2, <3>6 DEF NobodyElse
  <2>21. FoundFree' BY <1>2, <2>1, <2>10, <2>20, FoundFreeStep
  <2>22. HeldByWinner' BY <1>2, <2>1, HeldKept DEF PalaceInv
  <2>23. LostUpdateOnlyKnown' BY <1>2 DEF PalaceInv, LostUpdateOnlyKnown
  <2> QED BY <2>11, <2>16, <2>19, <2>21, <2>22, <2>23 DEF DocsInv, PalaceInv
<1> QED BY <1>4, <1>5

-----------------------------------------------------------------------------
(* The steps that write to the primary.                                     *)

LEMMA SaveStep ==
    ASSUME PalaceInv, NEW o \in Agents, Save(o)
    PROVE  PalaceInv'
<1>1. PICK t \in Clock(ClientOf[o]) : op' = [op EXCEPT ![o].step = "put", ![o].at = t] BY DEF Save
<1>2. /\ op[o] # None /\ op[o].step = "save"
      /\ UNCHANGED <<driver, stored, copy, seen, lock, now, writes, grants, clobbers, finished, author, ungated, unchecked,
                     overran, begun, faults, crashes>>
  BY DEF Save, storeVars, histVars
<1>3. TypeOK /\ op \in Ops /\ op[o] \in Operation BY <1>2, OpsTyped DEF PalaceInv, Ops
<1>4. now \in Nat /\ now >= 1 /\ Skew \in Nat
  BY <1>3, DocStoreAssumption DEF TypeOK, StoreTypeOK, PalaceInv, StampInv
<1>5. t \in now .. now + Skew BY <1>4, ClockNear, Client
<1>6. t \in Nat /\ t \in 1 .. now + Skew BY <1>4, <1>5
<1>7. PICK x : x = [op[o] EXCEPT !.step = "put", !.at = t] OBVIOUS
<1>8. /\ x \in Operation /\ x.step = "put" /\ x.at = t /\ x.kind = op[o].kind /\ x.arg = op[o].arg
      /\ x.force = op[o].force /\ x.doc = op[o].doc /\ x.snap = op[o].snap /\ x.base = op[o].base
      /\ x.stamp = op[o].stamp /\ x.taken = op[o].taken /\ x.reseen = op[o].reseen
  BY <1>3, <1>6, <1>7 DEF Operation, Steps
<1>9. op' = [op EXCEPT ![o] = x] BY <1>1, <1>3, <1>7 DEF Ops
<1>10. /\ op' \in Ops /\ op'[o] = x
       /\ \A q \in Agents \ {o} : GoesOn(q, op[q]) /\ MarkedBy(o, stored', {}, q)
  <2>1. x \in Operation \cup {None} BY <1>8
  <2>2. PICK st : st = stored' OBVIOUS
  <2> QED BY <1>3, <1>9, <2>1, <2>2, MovesAlone
<1>11. TypeOK' BY <1>2, <1>3, <1>10 DEF TypeOK, StoreTypeOK, Ops
<1>12. GoodStores /\ GoodSeen(o, {}) BY <1>2, <1>3, SameStores, SameSeen
<1>13. op[o].kind \in {"edit", "status", "claim"} /\ (op[o].kind = "status" => op[o].arg \in Statuses)
  BY <1>2 DEF PalaceInv, StepInv
<1>14. GoodOperation(o)
  <2>1. ungated' = ungated /\ now' = now /\ Target(o)' = Target(o) BY <1>2, <1>8, <1>10 DEF Target
  <2>2. Good(op[o].doc, op[o].snap) /\ (driver = "clued" /\ op[o].base # 0 => Source(op[o].base, op[o].stamp))
    BY <1>2, <2>1, KnownGood
  <2>3. op[o].stamp \in Nat BY <1>3 DEF Operation
  <2>4. driver = "clued" => op[o].stamp <= now + Skew BY <1>2 DEF PalaceInv, SeenInv
  <2>5. driver = "clued" => op[o].stamp <= t + Skew BY <1>4, <1>5, <2>3, <2>4
  <2>6. op[o].kind \in {"status", "claim"} /\ ~ op[o].force /\ op[o].doc \notin ungated /\ Target(o) # "ready"
          => DependenciesFinished(op[o].doc)
    BY <1>2 DEF PalaceInv, DependInv
  <2> QED BY <1>6, <1>8, <1>10, <1>13, <2>1, <2>2, <2>4, <2>5, <2>6 DEF GoodOperation
<1>15. HasRead(o) /\ KeepsRead(o) BY <1>2, <1>8, <1>10 DEF HasRead, KeepsRead
<1>16. MarkedBy(o, stored', {}, o) BY DEF MarkedBy
<1>17. x # None BY <1>8, NoOperationAssumption
<1>18. SameClaim(o) BY <1>2, <1>8, <1>10, <1>17 DEF SameClaim, InClaim
<1>19. SameGrants(o) BY <1>2, <1>8, <1>10, <1>17 DEF SameGrants, MayWin
<1> QED BY <1>10, <1>11, <1>12, <1>14, <1>15, <1>16, <1>18, <1>19, QuietStep

LEMMA ResultFacts ==
    ASSUME PalaceInv, NEW o \in Agents, WritesPrimary(o)
    PROVE  /\ op[o] \in Operation /\ op[o].doc \in Docs /\ op[o].kind \in Saves \cup {"push"}
           /\ Result(o) \in Document
           /\ op[o].kind # "push" => Result(o).ver = writes + 1 /\ Result(o).updated = op[o].at
           /\ op[o].kind = "push" => Result(o) = op[o].snap
           /\ op[o].kind \in {"status", "claim"} => Result(o).status = Target(o)
           /\ op[o].kind = "create" => Result(o).status = op[o].arg
           /\ op[o].kind \in {"edit", "push"} => Result(o).status = op[o].snap.status
           /\ op[o].kind = "claim" => Result(o).assignee = o
<1>1. TypeOK /\ op[o] \in Operation /\ writes \in Nat
  BY DEF PalaceInv, TypeOK, StoreTypeOK, WritesPrimary
<1>2. op[o].doc \in Docs /\ op[o].kind \in Saves \cup {"push"} /\ op[o].snap \in Document /\ op[o].at \in Nat
  BY <1>1 DEF Operation, Kinds, Saves, WritesPrimary
<1>3. PICK s, x, t : s = op[o].snap /\ t = op[o].at /\ x = [op[o].snap EXCEPT !.ver = writes + 1, !.updated = op[o].at] OBVIOUS
<1>4. /\ s \in Document /\ x \in Document /\ x.ver = writes + 1 /\ x.updated = t
      /\ x.status = s.status /\ x.assignee = s.assignee
  <2>1. PICK w : w = writes + 1 OBVIOUS
  <2>2. w \in Nat /\ t \in Nat /\ s \in Document BY <1>1, <1>2, <1>3, <2>1
  <2>3. x = [s EXCEPT !.ver = w, !.updated = t] BY <1>3, <2>1
  <2>4. x \in Document /\ x.ver = w /\ x.updated = t /\ x.status = s.status /\ x.assignee = s.assignee
    BY <2>2, <2>3 DEF Document
  <2> QED BY <2>1, <2>2, <2>4
<1>5. CASE op[o].kind = "edit" /\ op[o].arg = "clear"
  <2>1. PICK y : y = [x EXCEPT !.assignee = None] OBVIOUS
  <2>2. y \in Document /\ y.ver = writes + 1 /\ y.updated = t /\ y.status = s.status BY <1>4, <2>1 DEF Document
  <2>3. Result(o) = y BY <1>3, <1>5, <2>1 DEF Result, SetAssignee
  <2> QED BY <1>1, <1>2, <1>3, <1>5, <2>2, <2>3
<1>6. CASE op[o].kind = "edit" /\ op[o].arg # "clear"
  <2>1. Result(o) = x BY <1>3, <1>6 DEF Result
  <2> QED BY <1>1, <1>2, <1>3, <1>4, <1>6, <2>1
<1>7. CASE op[o].kind \in {"status", "create"}
  <2>1. op[o].arg \in Statuses BY <1>7 DEF PalaceInv, StepInv, WritesPrimary
  <2>2. PICK y : y = [x EXCEPT !.status = op[o].arg] OBVIOUS
  <2>3. y \in Document /\ y.ver = writes + 1 /\ y.updated = t /\ y.status = op[o].arg
    BY <1>4, <2>1, <2>2 DEF Document
  <2>4. Result(o) = y BY <1>3, <1>7, <2>2 DEF Result
  <2> QED BY <1>1, <1>2, <1>3, <1>7, <2>3, <2>4 DEF Target
<1>8. CASE op[o].kind = "claim"
  <2>1. PICK y : y = [x EXCEPT !.status = "in_progress", !.assignee = o] OBVIOUS
  <2>2. y \in Document /\ y.ver = writes + 1 /\ y.updated = t /\ y.status = "in_progress" /\ y.assignee = o
    BY <1>4, <2>1 DEF Document, Statuses
  <2>3. Result(o) = y BY <1>3, <1>8, <2>1 DEF Result
  <2> QED BY <1>1, <1>2, <1>3, <1>8, <2>2, <2>3 DEF Target
<1>9. CASE op[o].kind = "push"
  <2>1. Result(o) = s BY <1>3, <1>9 DEF Result
  <2> QED BY <1>1, <1>2, <1>3, <1>4, <1>9, <2>1
<1> QED BY <1>2, <1>5, <1>6, <1>7, <1>8, <1>9 DEF Saves

(* o's write is in the primary.                                             *)
Writes(o) ==
    /\ WritesPrimary(o) /\ Accepts(ClientOf[o], op[o].doc)
    /\ stored' = [stored EXCEPT ![op[o].doc] = Result(o)]
    /\ writes' = writes + 1
    /\ Record(o, Result(o))
    /\ UNCHANGED <<driver, copy, lock, now, overran, begun, crashes>>

LEMMA WritesGood ==
    ASSUME PalaceInv, NEW o \in Agents, Writes(o)
    PROVE  /\ Good(op[o].doc, Result(o)) /\ GoodStores
           /\ stored \in [Docs -> Document \cup {None}] /\ stored' \in [Docs -> Document \cup {None}]
           /\ stored'[op[o].doc] = Result(o) /\ \A e \in Docs : e # op[o].doc => stored'[e] = stored[e]
<1>1. WritesPrimary(o) /\ op[o] # None /\ op[o].step = "put" BY DEF Writes, WritesPrimary
<1>2. PICK d, x : d = op[o].doc /\ x = Result(o) OBVIOUS
<1>3. /\ op[o] \in Operation /\ d \in Docs /\ op[o].kind \in Saves \cup {"push"}
      /\ x \in Document
      /\ op[o].kind # "push" => x.ver = writes + 1 /\ x.updated = op[o].at
      /\ op[o].kind = "push" => x = op[o].snap
      /\ op[o].kind \in {"status", "claim"} => x.status = Target(o)
      /\ op[o].kind = "create" => x.status = op[o].arg
      /\ op[o].kind \in {"edit", "push"} => x.status = op[o].snap.status
  BY <1>1, <1>2, ResultFacts
<1>4. /\ stored \in [Docs -> Document \cup {None}] /\ stored' = [stored EXCEPT ![d] = x] /\ writes' = writes + 1
      /\ driver' = driver /\ copy' = copy /\ now' = now /\ now \in Nat /\ writes \in Nat
  BY <1>2 DEF Writes, PalaceInv, TypeOK, StoreTypeOK
<1>5. stored' \in [Docs -> Document \cup {None}] /\ stored'[d] = x /\ \A e \in Docs : e # d => stored'[e] = stored[e]
  BY <1>3, <1>4
<1>6. /\ finished' = IF x.status = "complete" THEN finished \cup {d} ELSE finished
      /\ ungated' = IF op[o].force \/ (op[o].kind = "create" /\ op[o].arg # "ready") THEN ungated \cup {d} ELSE ungated
  BY <1>2 DEF Writes, Record
<1>7. ungated \subseteq ungated' BY <1>6
<1>8. Good(d, op[o].snap) BY <1>1, <1>2, <1>7, KnownGood
<1>9. Source(x.ver, x.updated)
  <2>1. CASE op[o].kind = "push" BY <1>3, <1>8, <2>1 DEF Good
  <2>2. CASE op[o].kind # "push"
    <3>1. x.updated \in 1 .. now + Skew BY <1>1, <1>3, <2>2 DEF PalaceInv, SaveInv
    <3>2. x # None BY <1>3, NoDocumentAssumption
    <3>3. \A e \in Docs : stored'[e] # None /\ stored'[e].ver = writes + 1 => e = d
      <4>1. \A e \in Docs : stored[e] # None => stored[e].ver \in 1 .. writes BY StampsBelow DEF PalaceInv
      <4> QED BY <1>4, <1>5, <4>1
    <3>4. \A u : (\E e \in Docs : stored'[e] # None /\ stored'[e].ver = writes + 1 /\ u = stored'[e].updated)
                    <=> u = x.updated
      BY <1>3, <1>5, <2>2, <3>2, <3>3
    <3>5. Fresh = x.updated BY <3>4 DEF Fresh
    <3> QED BY <1>3, <1>4, <2>2, <3>1, <3>5 DEF Source
  <2> QED BY <2>1, <2>2
<1>10. d \in ungated' \/ x.status = "ready" \/ DependenciesFinished(d)
  <2>1. CASE op[o].kind \in {"status", "claim"}
    <3> SUFFICES ASSUME ~ op[o].force, d \notin ungated, Target(o) # "ready" PROVE DependenciesFinished(d)
      BY <1>3, <1>6, <2>1
    <3> QED BY <1>1, <1>2, <2>1 DEF PalaceInv, DependInv
  <2>2. CASE op[o].kind \in {"edit", "push"} BY <1>3, <1>8, <2>2 DEF Good
  <2>3. CASE op[o].kind = "create" BY <1>3, <1>6, <2>3
  <2> QED BY <1>3, <2>1, <2>2, <2>3 DEF Saves
<1>11. Good(d, x) BY <1>9, <1>10 DEF Good
<1>12. x.status = "complete" => d \in finished' BY <1>6
<1>13. GoodStores
  <2>1. finished \subseteq finished' BY <1>6
  <2> QED BY <1>4, <1>5, <1>7, <1>11, <1>12, <2>1 DEF GoodStores
<1> QED BY <1>2, <1>4, <1>5, <1>11, <1>13

LEMMA WritesKnown ==
    ASSUME PalaceInv, NEW o \in Agents, Writes(o)
    PROVE  /\ LostUpdateOnlyKnown' /\ HeldByWinner' /\ clobbers \subseteq clobbers'
           /\ \A e \in Docs : grants'[e] \subseteq grants[e]
           /\ grants' \in [Docs -> SUBSET Agents] /\ unchecked' = unchecked
           /\ clobbers' \subseteq [doc : Docs, kind : Kinds, cause : {"shared", "reseen", "unread", "stamp", "blind"}]
<1>1. /\ WritesPrimary(o) /\ op[o] # None /\ op[o].step = "put" /\ Accepts(ClientOf[o], op[o].doc)
      /\ driver' = driver /\ overran' = overran /\ crashes' = crashes /\ unchecked' = unchecked
  BY DEF Writes, WritesPrimary, Record
<1>2. PICK d, x : d = op[o].doc /\ x = Result(o) OBVIOUS
<1>3. /\ op[o] \in Operation /\ d \in Docs /\ op[o].kind \in Saves \cup {"push"}
      /\ op[o].kind = "claim" => x.assignee = o
  BY <1>1, <1>2, ResultFacts
<1>4. stored'[d] = x /\ \A e \in Docs : e # d => stored'[e] = stored[e] BY <1>2, WritesGood
<1>5. PICK b : b = [doc |-> d, kind |-> op[o].kind, cause |-> Cause(o)] OBVIOUS
<1>6. b.doc = d /\ b.kind = op[o].kind /\ b.cause = Cause(o) BY <1>5
<1>7. clobbers' = IF Informed(o) THEN clobbers ELSE clobbers \cup {b} BY <1>2, <1>5 DEF Writes, Record
<1>8. clobbers \subseteq clobbers' BY <1>7
<1>9. grants' = IF \/ stored[d] = None
                   \/ x.assignee # stored[d].assignee /\ (Informed(o) \/ op[o].force)
                THEN [grants EXCEPT ![d] = {}] ELSE grants
  BY <1>2 DEF Writes, Record
<1>10. /\ grants \in [Docs -> SUBSET Agents] /\ grants' \in [Docs -> SUBSET Agents]
       /\ \A e \in Docs : e # d => grants'[e] = grants[e]
       /\ \/ grants'[d] = {}
          \/ /\ grants'[d] = grants[d] /\ stored[d] # None
             /\ x.assignee = stored[d].assignee \/ (~ Informed(o) /\ ~ op[o].force)
  BY <1>3, <1>9 DEF PalaceInv, TypeOK
<1>11. \A e \in Docs : grants'[e] \subseteq grants[e] BY <1>10
<1>12. clobbers' \subseteq [doc : Docs, kind : Kinds, cause : {"shared", "reseen", "unread", "stamp", "blind"}]
  <2>1. Cause(o) \in {"shared", "reseen", "unread", "stamp", "blind"} BY DEF Cause
  <2>2. b \in [doc : Docs, kind : Kinds, cause : {"shared", "reseen", "unread", "stamp", "blind"}]
    BY <1>3, <1>5, <2>1 DEF Operation
  <2> QED BY <1>7, <2>2 DEF PalaceInv, TypeOK
<1>13. LostUpdateOnlyKnown'
  <2> SUFFICES ASSUME driver = "clued" PROVE Cause(o) # "blind"
    BY <1>1, <1>6, <1>7 DEF PalaceInv, LostUpdateOnlyKnown
  <2>1. HasRead(o) BY <1>1 DEF HasRead, WritesPrimary
  <2>2. op[o].reseen \/ seen[ClientOf[o]][d] \in {0, op[o].stamp} BY <1>2, <2>1 DEF PalaceInv, IfMatchInv
  <2>3. seen[ClientOf[o]][d] = 0 \/ (stored[d] # None /\ stored[d].updated = seen[ClientOf[o]][d])
    BY <1>1, <1>2 DEF Accepts
  <2>4. CASE seen[ClientOf[o]][d] = 0 BY <1>2, <2>4 DEF Cause
  <2>5. CASE seen[ClientOf[o]][d] # 0 /\ op[o].reseen BY <1>2, <2>5 DEF Cause
  <2>6. CASE seen[ClientOf[o]][d] # 0 /\ ~ op[o].reseen
    <3>1. stored[d] # None /\ stored[d].updated = op[o].stamp BY <2>2, <2>3, <2>6
    <3> QED BY <1>2, <2>6, <3>1 DEF Cause
  <2> QED BY <2>4, <2>5, <2>6
<1>14. HeldByWinner'
  <2> SUFFICES ASSUME NEW e \in Docs, NEW p \in grants'[e]
               PROVE  stored'[e] = None \/ stored'[e].assignee = p \/ Excused(e, p)'
    BY DEF HeldByWinner, Excused
  <2>1. p \in grants[e] BY <1>11
  <2>2. stored[e] = None \/ stored[e].assignee = p \/ Excused(e, p) BY <2>1, HeldOrExcused DEF PalaceInv
  <2>3. Excused(e, p) => Excused(e, p)' BY <1>1, <1>8, ExcusedKept
  <2>4. CASE e # d BY <1>4, <2>2, <2>3, <2>4
  <2>5. CASE e = d /\ x.assignee = stored[d].assignee BY <1>4, <1>10, <2>2, <2>3, <2>5
  <2>6. CASE e = d /\ x.assignee # stored[d].assignee
    <3>1. grants'[d] = grants[d] /\ ~ Informed(o) /\ ~ op[o].force BY <1>10, <2>6
    <3>2. b \in clobbers' BY <1>7, <3>1
    <3>3. CASE op[o].kind # "claim" \/ driver = "clued" BY <1>1, <1>6, <2>6, <3>2, <3>3 DEF Excused
    <3>4. CASE op[o].kind = "claim" /\ driver # "clued"
      <4>1. driver = "file" /\ crashes \in Nat BY <3>4, PalaceAssumption DEF PalaceInv, TypeOK, StoreTypeOK
      <4>2. CASE ~ Orderly BY <1>1, <4>1, <4>2 DEF Orderly, Excused
      <4>3. CASE Orderly
        <5>1. MayWin(o) BY <1>1, <3>1, <3>4 DEF MayWin
        <5>2. NobodyElse(d, o) \/ \E c \in clobbers : c.doc = d /\ c.kind # "claim"
          BY <1>2, <4>3, <5>1 DEF PalaceInv, FoundFree
        <5>3. CASE \E c \in clobbers : c.doc = d /\ c.kind # "claim" BY <2>3, <2>6, <5>3 DEF Excused
        <5>4. CASE NobodyElse(d, o)
          <6>1. p = o \/ <<e, p>> \in unchecked BY <2>1, <2>6, <5>4 DEF NobodyElse
          <6>2. <<e, p>> \in unchecked => Excused(e, p) BY DEF Excused
          <6> QED BY <1>3, <1>4, <2>3, <2>6, <3>4, <6>1, <6>2
        <5> QED BY <5>2, <5>3, <5>4
      <4> QED BY <4>2, <4>3
    <3> QED BY <3>3, <3>4
  <2> QED BY <2>4, <2>5, <2>6
<1>15. grants' \in [Docs -> SUBSET Agents] BY <1>10
<1> QED BY <1>1, <1>8, <1>11, <1>12, <1>13, <1>14, <1>15

LEMMA WriteStep ==
    ASSUME PalaceInv, NEW o \in Agents, Writes(o), NEW ds,
           op' \in Ops, seen' \in [Clients -> [Docs -> Nat]], faults' \in 0 .. MaxFaults,
           GoodSeen(o, ds), GoodOperation(o), ~ HasRead(o)', ~ MayWin(o)', SameClaim(o),
           \A q \in Agents \ {o} : GoesOn(q, op[q]) /\ MarkedBy(o, stored', ds, q)
    PROVE  PalaceInv'
<1>1. /\ TypeOK /\ WritesPrimary(o) /\ writes \in Nat /\ writes' = writes + 1
      /\ UNCHANGED <<driver, copy, lock, now, overran, begun, crashes>>
  BY DEF PalaceInv, TypeOK, StoreTypeOK, Writes
<1>2. GoodStores /\ stored' \in [Docs -> Document \cup {None}] BY WritesGood
<1>3. /\ LostUpdateOnlyKnown' /\ HeldByWinner' /\ clobbers \subseteq clobbers'
      /\ \A e \in Docs : grants'[e] \subseteq grants[e]
      /\ grants' \in [Docs -> SUBSET Agents] /\ unchecked' = unchecked
      /\ clobbers' \subseteq [doc : Docs, kind : Kinds, cause : {"shared", "reseen", "unread", "stamp", "blind"}]
  BY WritesKnown
<1>4. op[o].doc \in Docs BY <1>1, ResultFacts
<1>5. finished' \subseteq Docs /\ ungated' \subseteq Docs BY <1>1, <1>4 DEF Writes, Record, TypeOK
<1>6. author' \in [Docs -> Clients \cup {None}]
  <2>1. author \in [Docs -> Clients \cup {None}] BY <1>1 DEF TypeOK
  <2>2. author' = [author EXCEPT ![op[o].doc] = ClientOf[o]] BY DEF Writes, Record
  <2> QED BY <1>4, <2>1, <2>2, Client
<1>7. writes' \in Nat BY <1>1
<1>8. TypeOK' BY <1>1, <1>2, <1>3, <1>5, <1>6, <1>7 DEF TypeOK, StoreTypeOK, Ops
<1>9. \A q \in Agents : GoodSlot(q, o, ds) BY DEF GoodSlot
<1>10. DocsInv' BY <1>2, <1>8, <1>9, DocsStep
<1>11. LeaseInv' /\ LockFileInv' BY LocksKept DEF PalaceInv
<1>12. FoundFree' BY <1>1, <1>3, FoundFreeStep
<1> QED BY <1>3, <1>8, <1>10, <1>11, <1>12 DEF DocsInv, PalaceInv

(* What o's client remembers of its own accepted write.                     *)
LEMMA SeenWrite ==
    ASSUME PalaceInv, NEW o \in Agents, Writes(o), seen' = SeenAfterPut(ClientOf[o], op[o].doc, Result(o))
    PROVE  seen' \in [Clients -> [Docs -> Nat]] /\ GoodSeen(o, {op[o].doc})
<1>1. PICK c, d, u : c = ClientOf[o] /\ d = op[o].doc /\ u = Result(o).updated OBVIOUS
<1>2. WritesPrimary(o) BY DEF Writes
<1>3. c \in Clients /\ d \in Docs /\ Result(o) \in Document /\ u \in Nat BY <1>1, <1>2, Client, ResultFacts DEF Document
<1>4. seen \in [Clients -> [Docs -> Nat]] BY DEF PalaceInv, TypeOK, StoreTypeOK
<1>5. CASE seen' = seen BY <1>4, <1>5, SameSeen
<1>6. CASE driver = "clued" /\ seen[c][d] # 0 /\ seen' = [seen EXCEPT ![c][d] = u]
  <2>1. seen' \in [Clients -> [Docs -> Nat]] BY <1>3, <1>4, <1>6
  <2>2. \A y \in Clients, e \in Docs : seen'[y][e] = IF y = c /\ e = d THEN u ELSE seen[y][e] BY <1>3, <1>4, <1>6
  <2>3. stored'[d] = Result(o) BY <1>1, WritesGood
  <2>4. CASE stored'[d] # None BY <1>1, <1>6, <2>1, <2>2, <2>3, <2>4 DEF GoodSeen
  <2>5. CASE stored'[d] = None
    <3>1. None \notin Document BY NoDocumentAssumption
    <3> QED BY <1>3, <2>3, <2>5, <3>1
  <2> QED BY <2>4, <2>5
<1> QED BY <1>1, <1>5, <1>6 DEF SeenAfterPut

LEMMA PutStep ==
    ASSUME PalaceInv, NEW o \in Agents, Put(o)
    PROVE  PalaceInv'
<1>1. WritesPrimary(o) /\ UNCHANGED <<driver, copy, lock, now, overran, begun, faults, crashes>> BY DEF Put
<1>2. TypeOK /\ op \in Ops /\ op[o] # None /\ op[o].step = "put" BY <1>1, OpsTyped DEF PalaceInv, WritesPrimary
<1>3. PICK d : d = op[o].doc OBVIOUS
<1>4. faults' \in 0 .. MaxFaults BY <1>1, <1>2 DEF TypeOK
<1>5. CASE ~ Accepts(ClientOf[o], d) /\ op' = Return(o) /\ UNCHANGED <<stored, writes, seen, histVars>>
  <2>1. UNCHANGED <<stored, writes, seen, grants, clobbers, finished, author, ungated, unchecked>> BY <1>5 DEF histVars
  <2>2. GoodStores /\ copy' \in [Clients -> [Docs -> Document \cup {None}]]
    BY <1>1, <1>2, <2>1, SameStores DEF TypeOK, StoreTypeOK
  <2>3. GoodSeen(o, {}) /\ seen' \in [Clients -> [Docs -> Nat]] BY <1>2, <2>1, SameSeen DEF TypeOK, StoreTypeOK
  <2> QED BY <1>1, <1>2, <1>4, <1>5, <2>1, <2>2, <2>3, QuietReturn
<1>6. CASE /\ Accepts(ClientOf[o], d)
           /\ stored' = [stored EXCEPT ![d] = Result(o)] /\ writes' = writes + 1
           /\ seen' = SeenAfterPut(ClientOf[o], d, Result(o))
           /\ op' = ReseenIn(stored', AfterPut(o), o, {d})
           /\ Record(o, Result(o))
  <2>1. Writes(o) BY <1>1, <1>3, <1>6 DEF Writes
  <2>2. Good(d, Result(o)) /\ GoodStores BY <1>3, <2>1, WritesGood
  <2>3. seen' \in [Clients -> [Docs -> Nat]] /\ GoodSeen(o, {d}) BY <1>3, <1>6, <2>1, SeenWrite
  <2>4. op[o] \in Operation /\ Result(o) \in Document BY <1>1, ResultFacts
  <2>5. CASE AfterPut(o) = Return(o)
    <3>1. op' = ReseenIn(stored', Return(o), o, {d}) BY <1>6, <2>5
    <3>2. /\ op' \in Ops /\ Returns(o)
          /\ \A q \in Agents \ {o} : GoesOn(q, op[q]) /\ MarkedBy(o, stored', {d}, q)
      BY <1>2, <3>1, Returning
    <3>3. GoodOperation(o) /\ ~ HasRead(o)' /\ ~ MayWin(o)' BY <1>2, <2>2, <3>2, ReturnsGood
    <3>4. SameClaim(o) BY <1>1, <1>2, <3>2, ReturnsInClaim
    <3> QED BY <1>4, <2>1, <2>3, <3>2, <3>3, <3>4, WriteStep
  <2>6. CASE op[o].kind = "claim" /\ AfterPut(o) = Goto(o, "recheck")
    <3>1. op' = ReseenIn(stored', Goto(o, "recheck"), o, {d}) BY <1>6, <2>6
    <3>2. "recheck" \in Steps BY DEF Steps
    <3>3. /\ op' \in Ops /\ Advances(o, "recheck")
          /\ \A q \in Agents \ {o} : GoesOn(q, op[q]) /\ MarkedBy(o, stored', {d}, q)
      BY <1>2, <3>1, <3>2, Going
    <3>4. GoodOperation(o) BY <2>2, <2>6, <3>3, AdvancesGood
    <3>5. ~ HasRead(o)' /\ ~ MayWin(o)' BY <3>3 DEF HasRead, MayWin, Advances
    <3>6. SameClaim(o) BY <1>1, <1>2, <3>3, AdvancesInClaim
    <3> QED BY <1>4, <2>1, <2>3, <3>3, <3>4, <3>5, <3>6, WriteStep
  <2>7. CASE op[o].kind \notin {"push", "pull"} /\ AfterPut(o) = [op EXCEPT ![o].step = "copy", ![o].snap = Result(o)]
    <3>1. PICK y, st : y = Result(o) /\ st = stored' OBVIOUS
    <3>2. PICK x : x = [op[o] EXCEPT !.step = "copy", !.snap = y] OBVIOUS
    <3>3. /\ x \in Operation /\ x.step = "copy" /\ x.snap = y /\ x.kind = op[o].kind /\ x.arg = op[o].arg
          /\ x.doc = d /\ x.base = op[o].base /\ x.stamp = op[o].stamp /\ x.taken = op[o].taken
      BY <1>3, <2>4, <3>1, <3>2 DEF Operation, Steps
    <3>4. x # None /\ x \in Operation \cup {None} BY <3>3, NoOperationAssumption
    <3>5. AfterPut(o) = [op EXCEPT ![o] = x] BY <1>2, <2>7, <3>1, <3>2 DEF Ops
    <3>6. op' = ReseenIn(st, [op EXCEPT ![o] = x], o, {d}) BY <1>6, <3>1, <3>5
    <3>7. /\ op' \in Ops /\ GoesOn(o, x)
          /\ \A q \in Agents \ {o} : GoesOn(q, op[q]) /\ MarkedBy(o, st, {d}, q)
      BY <1>2, <3>4, <3>6, MovesReading
    <3>8. op'[o] # None /\ Like(op'[o], x) BY <3>4, <3>7, NoOperationAssumption DEF GoesOn
    <3>9. ungated \subseteq ungated' BY <2>2 DEF GoodStores
    <3>10. op[o].kind \in {"status", "create"} => op[o].arg \in Statuses BY <1>2 DEF PalaceInv, StepInv
    <3>11. /\ driver = "clued" /\ op[o].base # 0 => Source(op[o].base, op[o].stamp)
           /\ driver = "clued" => op[o].stamp <= now' + Skew
      BY <1>2, <2>2, <3>9, KnownGood, StampHeld
    <3>12. GoodOperation(o) BY <2>2, <2>7, <3>1, <3>3, <3>8, <3>10, <3>11 DEF GoodOperation, Like
    <3>13. ~ HasRead(o)' /\ ~ MayWin(o)' BY <3>3, <3>8 DEF HasRead, MayWin, Like
    <3>14. SameClaim(o) BY <1>1, <1>2, <1>3, <3>3, <3>8 DEF SameClaim, InClaim, Like
    <3> QED BY <1>4, <2>1, <2>3, <3>1, <3>7, <3>12, <3>13, <3>14, WriteStep
  <2>8. CASE op[o].kind \in {"push", "pull"} BY <2>5, <2>8 DEF AfterPut
  <2>9. CASE op[o].kind \notin {"push", "pull"} /\ driver = "clued" BY <2>7, <2>9 DEF AfterPut
  <2>10. CASE op[o].kind = "claim" /\ driver # "clued" BY <2>6, <2>10 DEF AfterPut
  <2>11. CASE op[o].kind \notin {"push", "pull", "claim"} /\ driver # "clued" BY <2>5, <2>11 DEF AfterPut
  <2> QED BY <2>8, <2>9, <2>10, <2>11
<1> QED BY <1>3, <1>5, <1>6 DEF Put

LEMMA PutFailsStep ==
    ASSUME PalaceInv, NEW o \in Agents, PutFails(o)
    PROVE  PalaceInv'
<1>1. /\ WritesPrimary(o) /\ faults + crashes < MaxFaults /\ op' = Return(o) /\ faults' = faults + 1
      /\ UNCHANGED <<driver, copy, seen, lock, now, overran, begun, crashes>>
  BY DEF PutFails
<1>2. TypeOK /\ op \in Ops /\ op[o] # None /\ op[o].step = "put" BY <1>1, OpsTyped DEF PalaceInv, WritesPrimary
<1>3. faults' \in 0 .. MaxFaults BY <1>1, <1>2, PalaceAssumption DEF TypeOK
<1>4. GoodSeen(o, {}) /\ seen' \in [Clients -> [Docs -> Nat]] BY <1>1, <1>2, SameSeen DEF TypeOK, StoreTypeOK
<1>5. CASE UNCHANGED <<stored, writes, histVars>>
  <2>1. UNCHANGED <<stored, writes, grants, clobbers, finished, author, ungated, unchecked>> BY <1>5 DEF histVars
  <2>2. GoodStores /\ copy' \in [Clients -> [Docs -> Document \cup {None}]]
    BY <1>1, <1>2, <2>1, SameStores DEF TypeOK, StoreTypeOK
  <2> QED BY <1>1, <1>2, <1>3, <1>4, <2>1, <2>2, QuietReturn
<1>6. CASE /\ driver = "clued" /\ Accepts(ClientOf[o], op[o].doc)
           /\ stored' = [stored EXCEPT ![op[o].doc] = Result(o)] /\ writes' = writes + 1
           /\ Record(o, Result(o))
  <2>1. Writes(o) BY <1>1, <1>6 DEF Writes
  <2>2. GoodStores BY <2>1, WritesGood
  <2>3. /\ op' \in Ops /\ Returns(o)
        /\ \A q \in Agents \ {o} : GoesOn(q, op[q]) /\ MarkedBy(o, stored', {}, q)
    BY <1>1, <1>2, Returning
  <2>4. GoodOperation(o) /\ ~ HasRead(o)' /\ ~ MayWin(o)' BY <1>2, <2>2, <2>3, ReturnsGood
  <2>5. SameClaim(o) BY <1>1, <1>2, <2>3, ReturnsInClaim
  <2> QED BY <1>3, <1>4, <2>1, <2>3, <2>4, <2>5, WriteStep
<1> QED BY <1>5, <1>6 DEF PutFails

LEMMA DeleteStep ==
    ASSUME PalaceInv, NEW o \in Agents, Delete(o)
    PROVE  PalaceInv'
<1>1. PICK c, d : c = ClientOf[o] /\ d = op[o].doc OBVIOUS
<1>2. /\ op[o] # None /\ op[o].step = "put" /\ op[o].kind = "delete"
      /\ op' = IF stored[d] = None \/ driver = "file" THEN Return(o) ELSE Goto(o, "copy")
      /\ stored' = [stored EXCEPT ![d] = None] /\ seen' = [seen EXCEPT ![c][d] = 0]
      /\ grants' = [grants EXCEPT ![d] = {}]
      /\ UNCHANGED <<driver, copy, lock, now, writes, clobbers, finished, author, ungated, unchecked, overran, begun, faults, crashes>>
  BY <1>1 DEF Delete
<1>3. TypeOK /\ op \in Ops BY OpsTyped DEF PalaceInv
<1>4. c \in Clients /\ d \in Docs BY <1>1, <1>2, <1>3, Client DEF Ops, Operation
<1>5. /\ stored \in [Docs -> Document \cup {None}] /\ seen \in [Clients -> [Docs -> Nat]]
      /\ grants \in [Docs -> SUBSET Agents] /\ now \in Nat /\ writes \in Nat
  BY <1>3 DEF TypeOK, StoreTypeOK
<1>6. /\ stored' \in [Docs -> Document \cup {None}] /\ stored'[d] = None
      /\ \A e \in Docs : e # d => stored'[e] = stored[e]
  BY <1>2, <1>4, <1>5
<1>7. seen' \in [Clients -> [Docs -> Nat]] BY <1>2, <1>4, <1>5
<1>8. \A y \in Clients, e \in Docs : seen'[y][e] \in {0, seen[y][e]} BY <1>2, <1>4, <1>5
<1>9. /\ grants' \in [Docs -> SUBSET Agents] /\ grants'[d] = {} /\ \A e \in Docs : e # d => grants'[e] = grants[e]
  BY <1>2, <1>4, <1>5
<1>10. GoodStores BY <1>2, <1>5, <1>6 DEF GoodStores
<1>11. GoodSeen(o, {}) BY <1>8 DEF GoodSeen
<1>12. /\ op' \in Ops /\ GoodOperation(o) /\ ~ HasRead(o)' /\ ~ MayWin(o)' /\ SameClaim(o)
       /\ \A q \in Agents \ {o} : GoesOn(q, op[q]) /\ MarkedBy(o, stored', {}, q)
  <2>1. CASE op' = Return(o)
    <3>1. /\ op' \in Ops /\ Returns(o)
          /\ \A q \in Agents \ {o} : GoesOn(q, op[q]) /\ MarkedBy(o, stored', {}, q)
      BY <1>2, <1>3, <2>1, Returning
    <3>2. GoodOperation(o) /\ ~ HasRead(o)' /\ ~ MayWin(o)' BY <1>2, <1>10, <3>1, ReturnsGood
    <3>3. SameClaim(o) BY <1>2, <3>1, ReturnsInClaim
    <3> QED BY <3>1, <3>2, <3>3
  <2>2. CASE op' = Goto(o, "copy")
    <3>1. "copy" \in Steps BY DEF Steps
    <3>2. /\ op' \in Ops /\ Advances(o, "copy")
          /\ \A q \in Agents \ {o} : GoesOn(q, op[q]) /\ MarkedBy(o, stored', {}, q)
      BY <1>2, <1>3, <2>2, <3>1, Going
    <3>3. GoodOperation(o) BY <1>10, <3>2, AdvancesGood
    <3>4. ~ HasRead(o)' /\ ~ MayWin(o)' BY <3>2 DEF HasRead, MayWin, Advances
    <3>5. SameClaim(o) BY <1>2, <3>2, AdvancesInClaim
    <3> QED BY <3>2, <3>3, <3>4, <3>5
  <2> QED BY <1>2, <2>1, <2>2
<1>13. TypeOK' BY <1>2, <1>3, <1>6, <1>7, <1>9, <1>12 DEF TypeOK, StoreTypeOK, Ops
<1>14. \A q \in Agents : GoodSlot(q, o, {}) BY <1>12 DEF GoodSlot
<1>15. DocsInv' BY <1>10, <1>11, <1>13, <1>14, DocsStep
<1>16. LeaseInv' /\ LockFileInv' BY <1>3, <1>12, LocksKept DEF PalaceInv
<1>17. \A e \in Docs : grants'[e] \subseteq grants[e] BY <1>9
<1>18. FoundFree' BY <1>2, <1>12, <1>17, FoundFreeStep
<1>19. HeldByWinner' BY <1>2, <1>6, <1>9 DEF PalaceInv, HeldByWinner
<1>20. LostUpdateOnlyKnown' BY <1>2 DEF PalaceInv, LostUpdateOnlyKnown
<1> QED BY <1>13, <1>15, <1>16, <1>18, <1>19, <1>20 DEF DocsInv, PalaceInv

-----------------------------------------------------------------------------
LEMMA PalaceInit ==
    ASSUME Init
    PROVE  PalaceInv
<1>1. /\ driver \in {"clued", "file"}
      /\ stored = [d \in Docs |-> [NewDocument EXCEPT !.status = Initial[d]]]
      /\ copy = [c \in Clients |-> stored]
      /\ seen = [c \in Clients |-> [d \in Docs |-> 0]]
      /\ lock = [d \in Docs |-> None] /\ now = 1 /\ writes = 1
      /\ op = [o \in Agents |-> None] /\ grants = [d \in Docs |-> {}]
      /\ clobbers = {} /\ finished = {d \in Docs : Initial[d] = "complete"} /\ ungated = {} /\ unchecked = {}
      /\ author = [d \in Docs |-> None] /\ overran = FALSE
      /\ begun = 0 /\ faults = 0 /\ crashes = 0
  BY DEF Init, StoreInit
<1>2. \A d \in Docs : /\ stored[d] \in Document /\ stored[d].ver = 1 /\ stored[d].updated = 1
                      /\ stored[d].status = Initial[d]
  <2> SUFFICES ASSUME NEW d \in Docs
               PROVE  /\ stored[d] \in Document /\ stored[d].ver = 1 /\ stored[d].updated = 1
                      /\ stored[d].status = Initial[d]
    OBVIOUS
  <2>1. Initial[d] \in Statuses BY DocStoreAssumption DEF Statuses
  <2> QED BY <1>1, <2>1 DEF NewDocument, Document
<1>3. stored \in [Docs -> Document \cup {None}] BY <1>1, <1>2
<1>4. copy \in [Clients -> [Docs -> Document \cup {None}]] BY <1>1, <1>3
<1>5. TypeOK
  <2>1. MaxOps \in Nat /\ MaxFaults \in Nat BY PalaceAssumption
  <2>2. /\ seen \in [Clients -> [Docs -> Nat]] /\ lock \in [Docs -> Lock \cup {None}]
        /\ op \in [Agents -> Operation \cup {None}] /\ grants \in [Docs -> SUBSET Agents]
        /\ author \in [Docs -> Clients \cup {None}]
    BY <1>1
  <2>3. StoreTypeOK BY <1>1, <1>3, <1>4, <2>2 DEF StoreTypeOK
  <2>4. begun \in 0 .. MaxOps /\ faults \in 0 .. MaxFaults /\ crashes \in 0 .. MaxFaults BY <1>1, <2>1
  <2> QED BY <1>1, <2>2, <2>3, <2>4 DEF TypeOK
<1>6. \A o \in Agents : op[o] = None BY <1>1
<1>7. StampInv
  <2>1. \A w \in Written : w = <<1, 1>>
    <3> SUFFICES ASSUME NEW w \in Written PROVE w = <<1, 1>> OBVIOUS
    <3>1. CASE \E d \in Docs : w = <<stored[d].ver, stored[d].updated>> BY <1>2, <3>1
    <3>2. CASE \E c \in Clients, d \in Docs : w = <<copy[c][d].ver, copy[c][d].updated>> BY <1>1, <1>2, <3>2
    <3> QED BY <1>6, <3>1, <3>2 DEF Written
  <2>2. \A w \in Written : w[1] = 1 /\ w[2] = 1 BY <2>1
  <2>3. Skew \in Nat BY DocStoreAssumption
  <2> QED BY <1>1, <2>2, <2>3 DEF StampInv
<1>8. StepInv /\ IfMatchInv /\ PushInv /\ SaveInv BY <1>6 DEF StepInv, IfMatchInv, PushInv, SaveInv, HasRead
<1>12. SeenInv
  <2>1. now + Skew \in Nat BY <1>1, DocStoreAssumption
  <2>2. \A c \in Clients, d \in Docs : seen[c][d] = 0 BY <1>1
  <2> QED BY <1>6, <2>1, <2>2 DEF SeenInv
<1>9. DependInv
  <2>1. \A d, e \in Docs : <<d, e>> \in Depends /\ Initial[d] # "ready" => Initial[e] = "complete" BY PalaceAssumption
  <2>2. ASSUME NEW d \in Docs PROVE Started(d, stored[d])
    <3>1. stored[d].status = Initial[d] BY <1>2
    <3>2. \A e \in Docs : Initial[e] = "complete" => e \in finished BY <1>1
    <3> QED BY <2>1, <3>1, <3>2 DEF Started, DependenciesFinished
  <2>3. \A c \in Clients, d \in Docs : Started(d, copy[c][d]) BY <1>1, <2>2
  <2> QED BY <1>1, <1>2, <1>6, <2>2, <2>3 DEF DependInv
<1>10. LeaseInv /\ LockFileInv BY <1>1, <1>6 DEF LeaseInv, LockFileInv, InClaim, Overran
<1>11. FoundFree /\ HeldByWinner /\ LostUpdateOnlyKnown BY <1>1, <1>6 DEF FoundFree, MayWin, HeldByWinner, LostUpdateOnlyKnown
<1> QED BY <1>5, <1>7, <1>8, <1>9, <1>10, <1>11, <1>12 DEF PalaceInv

LEMMA PalaceStep ==
    ASSUME PalaceInv, [Next]_vars
    PROVE  PalaceInv'
<1>1. ASSUME NEW o \in Agents,
             Resolve(o) \/ Create(o) \/ SyncList(o) \/ LockDoc(o) \/ StatLock(o) \/ TakeOver(o) \/ LockTimesOut(o)
               \/ Reread(o) \/ ApplyStatus(o) \/ LinkedBy(o) \/ SyncGet(o)
      PROVE  PalaceInv'
  BY <1>1, ResolveStep, CreateStep, SyncListStep, LockDocStep, StatLockStep, TakeOverStep, LockTimesOutStep,
     RereadStep, ApplyStatusStep, LinkedByStep, SyncGetStep
<1>2. ASSUME NEW o \in Agents,
             Save(o) \/ Put(o) \/ PutFails(o) \/ Delete(o) \/ PutCopy(o) \/ PutCopyFails(o) \/ PullCopy(o)
               \/ Recheck(o) \/ RecheckFails(o) \/ Unlock(o)
      PROVE  PalaceInv'
  BY <1>2, SaveStep, RecheckFailsStep, PutStep, PutFailsStep, DeleteStep, PutCopyStep, PutCopyFailsStep, PullCopyStep, RecheckStep, UnlockStep
<1>3. ASSUME NEW c \in Clients, Crash(c) PROVE PalaceInv' BY <1>3, CrashStep
<1>4. CASE Tick BY <1>4, TickStep
<1>5. CASE UNCHANGED vars
  <2>1. UNCHANGED <<driver, stored, copy, seen, lock, now, writes, op, grants, clobbers, finished, author, ungated, unchecked,
                    overran, begun, faults, crashes>>
    BY <1>5 DEF vars, storeVars, histVars
  <2>2. TypeOK' BY <2>1 DEF PalaceInv, TypeOK, StoreTypeOK
  <2>3. Written' = Written BY <2>1 DEF Written
  <2>4. StampInv' BY <2>1, <2>3 DEF PalaceInv, StampInv
  <2>5. (StepInv /\ IfMatchInv /\ PushInv /\ SeenInv /\ SaveInv)'
    BY <2>1 DEF PalaceInv, StepInv, IfMatchInv, PushInv, SeenInv, SaveInv, HasRead
  <2>6. DependInv' BY <2>1 DEF PalaceInv, DependInv, Started, DependenciesFinished, Target
  <2>7. (LeaseInv /\ LockFileInv)'
    BY <2>1 DEF PalaceInv, LeaseInv, LockFileInv, InClaim, Overran, HasLock, Lapsed, Orderly
  <2>8. (FoundFree /\ HeldByWinner /\ LostUpdateOnlyKnown)'
    BY <2>1 DEF PalaceInv, FoundFree, HeldByWinner, LostUpdateOnlyKnown, Orderly, MayWin, NobodyElse
  <2> QED BY <2>2, <2>4, <2>5, <2>6, <2>7, <2>8 DEF PalaceInv
<1> QED BY <1>1, <1>2, <1>3, <1>4, <1>5 DEF Next

-----------------------------------------------------------------------------
(* PalaceInv is an invariant of the planning operations.                    *)
THEOREM PalaceInvariance == Spec => []PalaceInv
<1>1. Init => PalaceInv BY PalaceInit
<1>2. PalaceInv /\ [Next]_vars => PalaceInv' BY PalaceStep
<1> QED BY <1>1, <1>2, PTL DEF Spec

(* Against a server a write goes over a version its writer has not read     *)
(* only through one of remotestore's three holes.                           *)
THEOREM NoBlindOverwrite == Spec => []LostUpdateOnlyKnown
<1>1. PalaceInv => LostUpdateOnlyKnown BY DEF PalaceInv
<1> QED BY <1>1, PalaceInvariance, PTL

(* Claims of one document exclude one another as long as locks last.        *)
THEOREM ClaimsExcludeEachOther == Spec => []ClaimsExclude
<1>1. ASSUME PalaceInv PROVE ClaimsExclude
  <2> SUFFICES ASSUME NEW o \in Agents, NEW p \in Agents, o # p, InClaim(o), InClaim(p), op[o].doc = op[p].doc
               PROVE  IF driver = "clued" THEN Overran(o) \/ Overran(p) ELSE overran \/ crashes > 0
    BY DEF ClaimsExclude
  <2>1. TypeOK BY <1>1 DEF PalaceInv
  <2>2. CASE driver = "clued"
    <3> SUFFICES ASSUME ~ Overran(o), ~ Overran(p) PROVE FALSE BY <2>2
    <3>1. HasLock(o) /\ HasLock(p) BY <1>1, <2>2 DEF PalaceInv, LeaseInv
    <3> QED BY <2>1, <3>1, OwnLock
  <2>3. CASE driver # "clued"
    <3>1. driver = "file" /\ crashes \in Nat BY <2>1, <2>3, PalaceAssumption DEF TypeOK, StoreTypeOK
    <3> SUFFICES ASSUME ~ overran, ~ crashes > 0 PROVE FALSE BY <2>3
    <3>2. Orderly BY <3>1 DEF Orderly
    <3> QED BY <1>1, <3>2, OneClaim
  <2> QED BY <2>2, <2>3
<1> QED BY <1>1, PalaceInvariance, PTL

(* Whoever was told to hold a document is its assignee until somebody takes *)
(* it knowingly, unless a lost update or a lapsed lock file intervenes or   *)
(* the claim could not look again.                                          *)
THEOREM WinnerHolds == Spec => []HeldByWinner
<1>1. PalaceInv => HeldByWinner BY DEF PalaceInv
<1> QED BY <1>1, PalaceInvariance, PTL

(* Nothing is started or completed before its dependencies, unless forced   *)
(* or created so.                                                           *)
THEOREM DependenciesFirst == Spec => []StartedAfterDependencies
<1>1. PalaceInv => StartedAfterDependencies
  BY DEF PalaceInv, DependInv, Started, DependenciesFinished, StartedAfterDependencies
<1> QED BY <1>1, PalaceInvariance, PTL

(* A write of o may move d's stamp back: it is in a hole, is a sync told to *)
(* overwrite, or is a save by a clock that is behind.                       *)
MayMoveBack(o, d) ==
    /\ op[o] # None /\ op[o].doc = d
    /\ \/ op[o].reseen \/ seen[ClientOf[o]][d] = 0
       \/ op[o].kind = "push" /\ op[o].arg = "overwrite"
       \/ op[o].kind \in Saves /\ stored[d].updated <= stored'[d].updated + Skew

LEMMA WritesForward ==
    ASSUME PalaceInv, NEW o \in Agents, Writes(o), NEW d \in Docs,
           stored[d] # None, stored'[d] # None, stored'[d].updated < stored[d].updated
    PROVE  MayMoveBack(o, d)
<1>1. PICK x : x = Result(o) OBVIOUS
<1>2. stored'[op[o].doc] = x /\ \A e \in Docs : e # op[o].doc => stored'[e] = stored[e] BY <1>1, WritesGood
<1>3. stored[d].updated \in Nat BY DEF PalaceInv, TypeOK, StoreTypeOK, Document
<1>4. op[o].doc = d /\ x.updated < stored[d].updated /\ stored'[d] = x BY <1>2, <1>3
<1>5. WritesPrimary(o) /\ op[o] # None /\ op[o].step = "put" /\ Accepts(ClientOf[o], d)
  BY <1>4 DEF Writes, WritesPrimary
<1>6. /\ op[o] \in Operation /\ op[o].kind \in Saves \cup {"push"}
      /\ op[o].kind # "push" => x.updated = op[o].at
      /\ op[o].kind = "push" => x = op[o].snap
  BY <1>1, <1>5, ResultFacts
<1> SUFFICES ASSUME ~ (op[o].kind = "push" /\ op[o].arg = "overwrite"), ~ op[o].reseen, seen[ClientOf[o]][d] # 0
             PROVE  op[o].kind \in Saves /\ stored[d].updated <= x.updated + Skew
  BY <1>4, <1>5 DEF MayMoveBack
<1>7. driver = "clued"
  <2>1. driver # "file" BY <1>4, Client DEF PalaceInv, SeenInv
  <2> QED BY <2>1 DEF PalaceInv, TypeOK, StoreTypeOK
<1>8. HasRead(o) BY <1>5 DEF HasRead, WritesPrimary
<1>9. seen[ClientOf[o]][d] = op[o].stamp BY <1>4, <1>7, <1>8 DEF PalaceInv, IfMatchInv
<1>10. stored[d].updated = op[o].stamp BY <1>5, <1>7, <1>9 DEF Accepts
<1>11. CASE op[o].kind = "push"
  <2>1. op[o].snap.updated >= op[o].stamp BY <1>5, <1>9, <1>11 DEF PalaceInv, PushInv
  <2>2. op[o].snap.updated \in Nat BY <1>6 DEF Operation, Document
  <2> QED BY <1>3, <1>4, <1>6, <1>10, <1>11, <2>1, <2>2
<1>12. CASE op[o].kind # "push"
  <2>1. op[o].stamp <= op[o].at + Skew BY <1>5, <1>6, <1>7, <1>12 DEF PalaceInv, SaveInv
  <2> QED BY <1>6, <1>10, <1>12, <2>1
<1> QED BY <1>11, <1>12

LEMMA StampStep ==
    ASSUME PalaceInv, [Next]_vars, NEW d \in Docs,
           stored[d] # None, stored'[d] # None, stored'[d].updated < stored[d].updated
    PROVE  \E o \in Agents : MayMoveBack(o, d)
<1>1. stored[d].updated \in Nat /\ stored \in [Docs -> Document \cup {None}]
  BY DEF PalaceInv, TypeOK, StoreTypeOK, Document
<1>2. stored' # stored BY <1>1
<1>3. PICK o \in Agents : Put(o) \/ PutFails(o) \/ Delete(o)
  <2>1. ASSUME NEW o \in Agents, Resolve(o) \/ Create(o) \/ SyncList(o) \/ Save(o) PROVE stored' = stored
    BY <2>1 DEF Resolve, Create, SyncList, Save, storeVars
  <2>2. ASSUME NEW o \in Agents, LockDoc(o) \/ StatLock(o) \/ TakeOver(o) \/ LockTimesOut(o) \/ Unlock(o) PROVE stored' = stored
    BY <2>2 DEF LockDoc, StatLock, TakeOver, LockTimesOut, Unlock, storeVars
  <2>3. ASSUME NEW o \in Agents, Reread(o) \/ ApplyStatus(o) \/ LinkedBy(o) \/ SyncGet(o) PROVE stored' = stored
    BY <2>3 DEF Reread, ApplyStatus, LinkedBy, SyncGet
  <2>4. ASSUME NEW o \in Agents, PutCopy(o) \/ PutCopyFails(o) \/ PullCopy(o) \/ Recheck(o) \/ RecheckFails(o)
        PROVE stored' = stored
    BY <2>4 DEF PutCopy, PutCopyFails, PullCopy, Recheck, RecheckFails, storeVars
  <2>5. ASSUME NEW c \in Clients, Crash(c) PROVE stored' = stored BY <2>5 DEF Crash
  <2>6. Tick => stored' = stored BY DEF Tick
  <2>7. UNCHANGED vars => stored' = stored BY DEF vars, storeVars
  <2> QED BY <1>2, <2>1, <2>2, <2>3, <2>4, <2>5, <2>6, <2>7 DEF Next
<1>4. CASE Writes(o) BY <1>4, WritesForward
<1>5. CASE Delete(o)
  <2>1. stored' = [stored EXCEPT ![op[o].doc] = None] BY <1>5 DEF Delete
  <2> QED BY <1>1, <2>1
<1>6. CASE Put(o)
  <2>1. Writes(o) BY <1>2, <1>6 DEF Put, Writes
  <2> QED BY <2>1, <1>4
<1>7. CASE PutFails(o)
  <2>1. Writes(o) BY <1>2, <1>7 DEF PutFails, Writes
  <2> QED BY <2>1, <1>4
<1> QED BY <1>3, <1>5, <1>6, <1>7

(* A document's stamp goes back only through a sync told to overwrite, a    *)
(* write in a hole of remotestore, or a save by a clock that is behind, and *)
(* then by no more than the clocks are apart.                               *)
THEOREM StampsForward == Spec => StampsGoForward
<1>1. PalaceInv /\ [Next]_vars =>
        \A d \in Docs :
           stored[d] # None /\ stored'[d] # None /\ stored'[d].updated < stored[d].updated =>
              \E o \in Agents : MayMoveBack(o, d)
  BY StampStep
<1>2. PalaceInv /\ [Next]_vars =>
        [\A d \in Docs :
           stored[d] # None /\ stored'[d] # None /\ stored'[d].updated < stored[d].updated =>
              \E o \in Agents :
                /\ op[o] # None /\ op[o].doc = d
                /\ \/ op[o].reseen \/ seen[ClientOf[o]][d] = 0
                   \/ op[o].kind = "push" /\ op[o].arg = "overwrite"
                   \/ op[o].kind \in Saves /\ stored[d].updated <= stored'[d].updated + Skew]_vars
  BY <1>1 DEF MayMoveBack
<1> QED BY <1>2, PalaceInvariance, PTL DEF Spec, StampsGoForward
=============================================================================
