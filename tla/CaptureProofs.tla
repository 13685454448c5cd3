----------------------------- MODULE CaptureProofs -----------------------------
(***************************************************************************)
(* Proofs about the capture of events.  What every step of the write-ahead  *)
(* log keeps, for any number of events, of processes that flush and of      *)
(* faults; capture on one machine, for any number of daemons, restarts and  *)
(* crashes; and capture with a server, for any number of relays that share  *)
(* the log.                                                                 *)
(***************************************************************************)
EXTENDS LocalCapture, RemoteCapture, SequenceTheorems, TLAPS

(* A process that does not flush holds nothing, one that flushes holds only *)
(* lines it has read, and a line that it has read is in the store, was      *)
(* refused and will be kept, or is still to be tried.                       *)
FlushInv ==
    \A p \in Procs :
       /\ flush[p].pc = "none" => flush[p] = NoFlush
       /\ flush[p].pc = "write" => flush[p].rest = << >>
       /\ ToSet(flush[p].kept) \cup ToSet(flush[p].rest) \subseteq flush[p].read
       /\ flush[p].sent \subseteq InHand(p)
       /\ \A l \in flush[p].read :
             \/ Stored(l.ev)
             \/ l \in ToSet(flush[p].kept)
             \/ l \in ToSet(flush[p].rest)

(* What LostOnlyInKnownWindows asks of an event, here and on the server.    *)
Accounted(e) == Safe(e) \/ e \in {l.ev : l \in overrun} \cup torn \cup spilled

(* Nobody has stored or buffered e yet.                                     *)
Untouched(e) ==
    /\ CopiesOf(e) = 0
    /\ e \notin EventsOf(file)
    /\ \A p \in Procs : e \notin InHand(p)

Once(s, e) == \A i, j \in 1 .. Len(s) : s[i].ev = e /\ s[j].ev = e => i = j

(* For an event that nobody doubts: it is stored at most once, it is in the *)
(* log at most once and with at most one flush, whoever may still store it  *)
(* is right that it is not stored, and while a stored one is still in the   *)
(* log the flush that stored it is about to truncate it.                    *)
OnceFor(e) ==
    /\ CopiesOf(e) <= 1
    /\ Once(file, e)
    /\ \A p \in Procs :
         /\ Once(flush[p].kept, e) /\ Once(flush[p].rest, e)
         /\ ~ (e \in EventsOf(flush[p].kept) /\ e \in EventsOf(flush[p].rest))
         /\ e \in EventsOf(flush[p].kept) \cup EventsOf(flush[p].rest) => CopiesOf(e) = 0
         /\ flush[p].pc = "write" /\ e \in InHand(p) => e \notin EventsOf(file)
    /\ \A p, q \in Procs : e \in InHand(p) /\ e \in InHand(q) => p = q
    /\ CopiesOf(e) > 0 /\ e \in EventsOf(file) =>
         \E p \in Procs : flush[p].pc = "insert" /\ e \in flush[p].sent

OnceInv == \A e \in Events \ doubtful : OnceFor(e)

(* The inductive invariant of the log alone.                                *)
WalInv == WalTypeOK /\ FlushInv /\ OnceInv

(* A step that is not the first to store or buffer an event.                *)
KeepsEvents ==
    /\ doubtful \subseteq doubtful'
    /\ \A e \in Events : Accounted(e) => Accounted(e)'
    /\ \A e \in Events : Untouched(e) => Untouched(e)'

-----------------------------------------------------------------------------
(* Sequences as sets.                                                       *)

(* The elements of a sequence, by index.                                    *)
LEMMA ToSetIndex ==
    ASSUME NEW S, NEW s \in Seq(S)
    PROVE  \A x : x \in ToSet(s) <=> \E i \in 1 .. Len(s) : x = s[i]
  BY DEF ToSet

(* The events of a sequence of lines.                                       *)
LEMMA EventsOfLines ==
    ASSUME NEW s \in Seq(Line)
    PROVE  ToSet(s) \subseteq Line /\ EventsOf(s) \subseteq Events
<1>1. ToSet(s) \subseteq Line BY ToSetIndex
<1> QED BY <1>1 DEF EventsOf, Line

(* The elements of a concatenation.                                         *)
LEMMA ToSetConcat ==
    ASSUME NEW S, NEW s \in Seq(S), NEW t \in Seq(S)
    PROVE  ToSet(s \o t) = ToSet(s) \cup ToSet(t)
<1> DEFINE u == s \o t
<1>1. u \in Seq(S) /\ Len(u) = Len(s) + Len(t)
  OBVIOUS
<1>2. \A i \in 1 .. Len(u) : u[i] = IF i <= Len(s) THEN s[i] ELSE t[i - Len(s)]
  OBVIOUS
<1> HIDE DEF u
<1>3. \A i \in 1 .. Len(s) : i \in 1 .. Len(u) /\ u[i] = s[i]
  BY <1>1, <1>2
<1>4. \A i \in 1 .. Len(t) : i + Len(s) \in 1 .. Len(u) /\ u[i + Len(s)] = t[i]
  BY <1>1, <1>2
<1>5. \A i \in 1 .. Len(u) : \/ i \in 1 .. Len(s) /\ u[i] = s[i]
                             \/ i - Len(s) \in 1 .. Len(t) /\ u[i] = t[i - Len(s)]
  BY <1>1, <1>2
<1>6. /\ \A x : x \in ToSet(u) <=> \E i \in 1 .. Len(u) : x = u[i]
      /\ \A x : x \in ToSet(s) <=> \E i \in 1 .. Len(s) : x = s[i]
      /\ \A x : x \in ToSet(t) <=> \E i \in 1 .. Len(t) : x = t[i]
  BY <1>1, ToSetIndex
<1>7. ASSUME NEW x PROVE x \in ToSet(u) <=> x \in ToSet(s) \/ x \in ToSet(t)
  <2>1. ASSUME x \in ToSet(u) PROVE x \in ToSet(s) \/ x \in ToSet(t)
    <3>1. PICK i \in 1 .. Len(u) : x = u[i] BY <2>1, <1>6
    <3> QED BY <3>1, <1>5, <1>6, Zenon
  <2>2. ASSUME x \in ToSet(s) PROVE x \in ToSet(u)
    <3>1. PICK i \in 1 .. Len(s) : x = s[i] BY <2>2, <1>6
    <3> QED BY <3>1, <1>3, <1>6
  <2>3. ASSUME x \in ToSet(t) PROVE x \in ToSet(u)
    <3>1. PICK i \in 1 .. Len(t) : x = t[i] BY <2>3, <1>6
    <3> QED BY <3>1, <1>4, <1>6
  <2> QED BY <2>1, <2>2, <2>3
<1> QED BY <1>7 DEF u

(* ... of an appended sequence, ...                                         *)
LEMMA ToSetAppend ==
    ASSUME NEW S, NEW s \in Seq(S), NEW x \in S
    PROVE  ToSet(Append(s, x)) = ToSet(s) \cup {x}
<1>1. Append(s, x) = s \o <<x>> /\ <<x>> \in Seq(S) OBVIOUS
<1>2. ToSet(<<x>>) = {x} BY DEF ToSet
<1>3. ToSet(s \o <<x>>) = ToSet(s) \cup ToSet(<<x>>) BY <1>1, ToSetConcat, Zenon
<1> QED BY <1>1, <1>2, <1>3, Zenon

(* ... of a sequence that is taken apart at its head, ...                   *)
LEMMA ToSetTail ==
    ASSUME NEW S, NEW s \in Seq(S), s # << >>
    PROVE  /\ s = <<Head(s)>> \o Tail(s)
           /\ ToSet(s) = {Head(s)} \cup ToSet(Tail(s))
           /\ Head(s) \in S /\ Tail(s) \in Seq(S)
<1>1. s = <<Head(s)>> \o Tail(s) /\ Head(s) \in S /\ Tail(s) \in Seq(S) OBVIOUS
<1>2. ToSet(<<Head(s)>>) = {Head(s)} BY DEF ToSet
<1>3. <<Head(s)>> \in Seq(S) BY <1>1
<1>4. ToSet(<<Head(s)>> \o Tail(s)) = ToSet(<<Head(s)>>) \cup ToSet(Tail(s))
  BY <1>1, <1>3, ToSetConcat, Zenon
<1>5. ToSet(s) = {Head(s)} \cup ToSet(Tail(s)) BY <1>1, <1>2, <1>4, Zenon
<1> QED BY <1>1, <1>5

(* ... and of one that is cut in two.                                       *)
LEMMA ToSetCut ==
    ASSUME NEW S, NEW s \in Seq(S), NEW n \in 0 .. Len(s)
    PROVE  /\ s = SubSeq(s, 1, n) \o SubSeq(s, n + 1, Len(s))
           /\ ToSet(s) = ToSet(SubSeq(s, 1, n)) \cup ToSet(SubSeq(s, n + 1, Len(s)))
           /\ SubSeq(s, 1, n) \in Seq(S) /\ SubSeq(s, n + 1, Len(s)) \in Seq(S)
<1>1. SubSeq(s, 1, n) \in Seq(S) /\ SubSeq(s, n + 1, Len(s)) \in Seq(S) OBVIOUS
<1>2. Len(s) \in Nat BY LenProperties
<1>3. 1 \in 1 .. Len(s) + 1 /\ n \in 1 - 1 .. Len(s) /\ Len(s) \in n .. Len(s)
  BY <1>2
<1>4. s = SubSeq(s, 1, n) \o SubSeq(s, n + 1, Len(s))
  BY <1>3, ConcatAdjacentSubSeq, SubSeqFull, Zenon
<1>5. ToSet(SubSeq(s, 1, n) \o SubSeq(s, n + 1, Len(s)))
        = ToSet(SubSeq(s, 1, n)) \cup ToSet(SubSeq(s, n + 1, Len(s)))
  BY <1>1, ToSetConcat, Zenon
<1> QED BY <1>1, <1>4, <1>5, Zenon

(* An event is in a concatenation once when it is once in one part and not  *)
(* in the other.                                                            *)
LEMMA OnceConcat ==
    ASSUME NEW s \in Seq(Line), NEW t \in Seq(Line), NEW e \in Events
    PROVE  Once(s \o t, e) <=> /\ Once(s, e) /\ Once(t, e)
                               /\ ~ (e \in EventsOf(s) /\ e \in EventsOf(t))
<1> DEFINE u == s \o t
<1>1. u \in Seq(Line) /\ Len(u) = Len(s) + Len(t) /\ Len(s) \in Nat /\ Len(t) \in Nat
  OBVIOUS
<1>2. \A i \in 1 .. Len(u) : u[i] = IF i <= Len(s) THEN s[i] ELSE t[i - Len(s)]
  OBVIOUS
<1>3. /\ e \in EventsOf(s) <=> \E i \in 1 .. Len(s) : s[i].ev = e
      /\ e \in EventsOf(t) <=> \E i \in 1 .. Len(t) : t[i].ev = e
  BY DEF EventsOf, ToSet
<1> HIDE DEF u
<1>4. \A i \in 1 .. Len(s) : i \in 1 .. Len(u) /\ u[i] = s[i]
  BY <1>1, <1>2
<1>5. \A i \in 1 .. Len(t) : i + Len(s) \in 1 .. Len(u) /\ u[i + Len(s)] = t[i]
  BY <1>1, <1>2
<1>6. ASSUME Once(u, e)
      PROVE  Once(s, e) /\ Once(t, e) /\ ~ (e \in EventsOf(s) /\ e \in EventsOf(t))
  <2>1. Once(s, e) BY <1>4, <1>6 DEF Once
  <2>2. Once(t, e)
    <3> SUFFICES ASSUME NEW i \in 1 .. Len(t), NEW j \in 1 .. Len(t), t[i].ev = e, t[j].ev = e
                 PROVE  i = j
      BY DEF Once
    <3>1. i + Len(s) = j + Len(s) BY <1>5, <1>6 DEF Once
    <3> QED BY <1>1, <3>1
  <2>3. ASSUME e \in EventsOf(s), e \in EventsOf(t) PROVE FALSE
    <3>1. PICK i \in 1 .. Len(s) : s[i].ev = e BY <1>3, <2>3
    <3>2. PICK j \in 1 .. Len(t) : t[j].ev = e BY <1>3, <2>3
    <3> QED BY <1>1, <1>4, <1>5, <1>6, <3>1, <3>2 DEF Once
  <2> QED BY <2>1, <2>2, <2>3
<1>7. ASSUME Once(s, e), Once(t, e), ~ (e \in EventsOf(s) /\ e \in EventsOf(t))
      PROVE  Once(u, e)
  <2> SUFFICES ASSUME NEW i \in 1 .. Len(u), NEW j \in 1 .. Len(u),
                      u[i].ev = e, u[j].ev = e
               PROVE  i = j
    BY DEF Once
  <2>1. CASE i <= Len(s) /\ j <= Len(s) BY <1>1, <1>2, <1>7, <2>1 DEF Once
  <2>2. CASE i > Len(s) /\ j > Len(s)
    <3>1. i - Len(s) \in 1 .. Len(t) /\ j - Len(s) \in 1 .. Len(t) BY <1>1, <2>2
    <3>2. u[i] = t[i - Len(s)] /\ u[j] = t[j - Len(s)] BY <1>1, <1>2, <2>2
    <3>3. i - Len(s) = j - Len(s) BY <1>7, <3>1, <3>2 DEF Once
    <3> QED BY <1>1, <3>3
  <2>3. CASE i <= Len(s) /\ j > Len(s)
    <3>1. i \in 1 .. Len(s) /\ j - Len(s) \in 1 .. Len(t) BY <1>1, <2>3
    <3>2. u[i] = s[i] /\ u[j] = t[j - Len(s)] BY <1>1, <1>2, <2>3
    <3>3. e \in EventsOf(s) /\ e \in EventsOf(t) BY <1>3, <3>1, <3>2
    <3> QED BY <1>7, <3>3
  <2>4. CASE i > Len(s) /\ j <= Len(s)
    <3>1. j \in 1 .. Len(s) /\ i - Len(s) \in 1 .. Len(t) BY <1>1, <2>4
    <3>2. u[j] = s[j] /\ u[i] = t[i - Len(s)] BY <1>1, <1>2, <2>4
    <3>3. e \in EventsOf(s) /\ e \in EventsOf(t) BY <1>3, <3>1, <3>2
    <3> QED BY <1>7, <3>3
  <2> QED BY <1>1, <2>1, <2>2, <2>3, <2>4
<1> QED BY <1>6, <1>7 DEF u

-----------------------------------------------------------------------------
(* The steps that are not a flush's.                                        *)

(* At first nothing is stored and nobody flushes.                           *)
LEMMA WalInitInv ==
    ASSUME WalInit
    PROVE  WalInv /\ \A e \in Events : Untouched(e)
<1>1. WalTypeOK
  <2>1. file \in Seq(Line) /\ copies \in [Line -> Nat] /\ faults \in Nat BY DEF WalInit
  <2>2. up \in BOOLEAN /\ cut \in BOOLEAN BY DEF WalInit
  <2>3. NoFlush \in FlushState BY DEF NoFlush, FlushState
  <2>4. flush \in [Procs -> FlushState] BY <2>3 DEF WalInit
  <2> QED BY <2>1, <2>2, <2>4 DEF WalInit, WalTypeOK
<1>2. ToSet(<< >>) = {} BY DEF ToSet
<1>3. \A p \in Procs : flush[p] = NoFlush BY DEF WalInit
<1>4. FlushInv BY <1>2, <1>3 DEF FlushInv, NoFlush, InHand
<1>5. \A e \in Events : CopiesOf(e) = 0 BY DEF WalInit, CopiesOf, Line
<1>6. EventsOf(<< >>) = {} BY <1>2 DEF EventsOf
<1>7. \A e \in Events : \A p \in Procs : e \notin InHand(p)
  BY <1>3 DEF InHand, NoFlush
<1>8. \A e \in Events : Untouched(e) BY <1>5, <1>6, <1>7 DEF Untouched, WalInit
<1>9. \A e : Once(<< >>, e) BY DEF Once
<1>10. OnceInv
  BY <1>3, <1>5, <1>6, <1>7, <1>9 DEF OnceInv, OnceFor, WalInit, NoFlush
<1> QED BY <1>1, <1>4, <1>8, <1>10 DEF WalInv

(* The store that goes down or comes back, and an insert that fails, leave  *)
(* every event where it is.                                                 *)
LEMMA WalSame ==
    ASSUME WalInv, UNCHANGED <<copies, file, cut, flush, overrun, torn, spilled, doubtful>>,
           up' \in BOOLEAN, faults' \in Nat
    PROVE  WalInv' /\ KeepsEvents
<1>1. \A e : CopiesOf(e)' = CopiesOf(e) BY DEF CopiesOf
<1>2. \A e : Stored(e)' <=> Stored(e) BY DEF Stored
<1>3. \A p : InHand(p)' = InHand(p) BY DEF InHand
<1>4. EventsOf(file)' = EventsOf(file) BY DEF EventsOf
<1>5. WalTypeOK' BY DEF WalInv, WalTypeOK
<1>6. FlushInv' BY <1>2, <1>3 DEF WalInv, FlushInv
<1>7. \A e \in Events : OnceFor(e) => OnceFor(e)'
  BY <1>1, <1>3, <1>4 DEF OnceFor
<1>8. OnceInv' BY <1>7 DEF WalInv, OnceInv
<1>9. \A e \in Events : Safe(e) => Safe(e)' BY <1>2, <1>4 DEF Safe
<1>10. \A e \in Events : Accounted(e) => Accounted(e)' BY <1>9 DEF Accounted
<1>11. \A e \in Events : Untouched(e) => Untouched(e)'
  BY <1>1, <1>3, <1>4 DEF Untouched
<1> QED BY <1>5, <1>6, <1>8, <1>10, <1>11 DEF WalInv, KeepsEvents

(* How often an event is stored is a number.                                *)
LEMMA CopiesNat ==
    ASSUME WalTypeOK, NEW e \in Events
    PROVE  CopiesOf(e) \in Nat /\ (Stored(e) <=> CopiesOf(e) > 0)
<1> DEFINE a == [ev |-> e, stamped |-> TRUE]
           b == [ev |-> e, stamped |-> FALSE]
<1>1. a \in Line /\ b \in Line /\ \A l \in Line : l.ev = e <=> l = a \/ l = b
  BY DEF Line
<1>2. copies \in [Line -> Nat] BY DEF WalTypeOK
<1>3. CopiesOf(e) = copies[a] + copies[b] BY DEF CopiesOf
<1> HIDE DEF a, b
<1>4. copies[a] \in Nat /\ copies[b] \in Nat BY <1>1, <1>2
<1>5. Stored(e) <=> copies[a] > 0 \/ copies[b] > 0 BY <1>1 DEF Stored
<1> QED BY <1>3, <1>4, <1>5

(* One more copy of a line.                                                 *)
LEMMA OneMoreCopy ==
    ASSUME WalTypeOK, NEW l \in Line, copies' = [copies EXCEPT ![l] = @ + 1]
    PROVE  /\ copies' \in [Line -> Nat]
           /\ l.ev \in Events
           /\ \A e : Stored(e) => Stored(e)'
           /\ Stored(l.ev)'
           /\ CopiesOf(l.ev)' = CopiesOf(l.ev) + 1
           /\ \A e \in Events : e # l.ev => CopiesOf(e)' = CopiesOf(e)
<1>1. copies \in [Line -> Nat] BY DEF WalTypeOK
<1>2. copies' \in [Line -> Nat] BY <1>1
<1>0. l.ev \in Events BY DEF Line
<1>3. \A k \in Line : copies'[k] = IF k = l THEN copies[k] + 1 ELSE copies[k] BY <1>1
<1>4. \A e : Stored(e) => Stored(e)' BY <1>1, <1>3 DEF Stored
<1>5. Stored(l.ev)' BY <1>1, <1>3 DEF Stored
<1>6. ASSUME NEW e \in Events
      PROVE  /\ [ev |-> e, stamped |-> TRUE] \in Line /\ [ev |-> e, stamped |-> FALSE] \in Line
             /\ [ev |-> e, stamped |-> TRUE] # [ev |-> e, stamped |-> FALSE]
             /\ e # l.ev => [ev |-> e, stamped |-> TRUE] # l /\ [ev |-> e, stamped |-> FALSE] # l
             /\ e = l.ev => [ev |-> e, stamped |-> TRUE] = l \/ [ev |-> e, stamped |-> FALSE] = l
  BY DEF Line
<1>7. \A e \in Events : e # l.ev => CopiesOf(e)' = CopiesOf(e)
  BY <1>3, <1>6 DEF CopiesOf
<1>8. CopiesOf(l.ev)' = CopiesOf(l.ev) + 1
  <2> DEFINE a == [ev |-> l.ev, stamped |-> TRUE]
             b == [ev |-> l.ev, stamped |-> FALSE]
  <2>1. a \in Line /\ b \in Line /\ a # b /\ (a = l \/ b = l) BY <1>0, <1>6
  <2>2. CopiesOf(l.ev) = copies[a] + copies[b] /\ CopiesOf(l.ev)' = copies'[a] + copies'[b]
    BY DEF CopiesOf
  <2> HIDE DEF a, b
  <2>3. copies[a] \in Nat /\ copies[b] \in Nat BY <1>1, <2>1
  <2>4. CASE a = l BY <1>3, <2>1, <2>2, <2>3, <2>4
  <2>5. CASE b = l BY <1>3, <2>1, <2>2, <2>3, <2>5
  <2> QED BY <2>1, <2>4, <2>5
<1> QED BY <1>0, <1>2, <1>4, <1>5, <1>7, <1>8

(* A handler inserts an event that nobody has touched, or that is doubtful. *)
LEMMA InsertKeeps ==
    ASSUME WalInv, NEW l \in Line, InsertOK(l) \/ InsertUncertain(l),
           Untouched(l.ev) \/ l.ev \in doubtful,
           UNCHANGED <<up, file, cut, flush, overrun, torn, spilled>>
    PROVE  /\ WalInv'
           /\ doubtful \subseteq doubtful'
           /\ InsertUncertain(l) => l.ev \in doubtful'
           /\ Accounted(l.ev)'
           /\ \A e \in Events : Accounted(e) => Accounted(e)'
           /\ \A e \in Events \ {l.ev} : Untouched(e) => Untouched(e)'
<1>1. copies' = [copies EXCEPT ![l] = @ + 1] BY DEF InsertOK, InsertUncertain
<1>2. doubtful' \in {doubtful, doubtful \cup {l.ev}} /\ faults' \in Nat
  BY DEF InsertOK, InsertUncertain, Fault, WalInv, WalTypeOK
<1>3. WalTypeOK BY DEF WalInv
<1>4. WalTypeOK' BY <1>1, <1>2, <1>3, OneMoreCopy DEF WalTypeOK
<1>5. \A p : InHand(p)' = InHand(p) BY DEF InHand
<1>6. EventsOf(file)' = EventsOf(file) BY DEF EventsOf
<1>7. FlushInv' BY <1>1, <1>3, <1>5, OneMoreCopy DEF WalInv, FlushInv
<1>8. OnceInv'
  <2> SUFFICES ASSUME NEW e \in Events, e \notin doubtful' PROVE OnceFor(e)'
    BY DEF OnceInv
  <2>1. e \notin doubtful /\ OnceFor(e) BY <1>2 DEF WalInv, OnceInv
  <2>2. CASE e # l.ev
    <3>1. CopiesOf(e)' = CopiesOf(e) BY <1>1, <1>3, <2>2, OneMoreCopy
    <3> QED BY <1>5, <1>6, <2>1, <3>1 DEF OnceFor
  <2>3. CASE e = l.ev
    <3>1. Untouched(e) BY <2>1, <2>3
    <3>2. CopiesOf(e)' = 1
      <4>1. CopiesOf(e)' = CopiesOf(e) + 1 BY <1>1, <1>3, <2>3, OneMoreCopy
      <4>2. CopiesOf(e) = 0 BY <3>1 DEF Untouched
      <4> QED BY <4>1, <4>2
    <3>3. \A p \in Procs : /\ e \notin EventsOf(flush[p].kept)
                           /\ e \notin EventsOf(flush[p].rest)
      BY <3>1 DEF WalInv, FlushInv, Untouched, EventsOf, InHand
    <3> QED BY <1>5, <1>6, <2>1, <3>1, <3>2, <3>3 DEF OnceFor, Untouched
  <2> QED BY <2>2, <2>3
<1>9. \A e \in Events : Safe(e) => Safe(e)' BY <1>1, <1>3, <1>6, OneMoreCopy DEF Safe
<1>10. \A e \in Events : Accounted(e) => Accounted(e)' BY <1>9 DEF Accounted
<1>11. Accounted(l.ev)' BY <1>1, <1>3, OneMoreCopy DEF Accounted, Safe
<1>12. \A e \in Events \ {l.ev} : Untouched(e) => Untouched(e)'
  BY <1>1, <1>3, <1>5, <1>6, OneMoreCopy DEF Untouched
<1> QED BY <1>2, <1>4, <1>7, <1>8, <1>10, <1>11, <1>12 DEF WalInv, InsertUncertain

(* An event is dropped, and counted as such.                                *)
LEMMA SpillKeeps ==
    ASSUME WalInv, NEW e \in Events, spilled' = spilled \cup {e},
           UNCHANGED <<up, copies, file, flush, overrun, torn, doubtful>>,
           cut' \in BOOLEAN, faults' \in Nat
    PROVE  WalInv' /\ KeepsEvents /\ Accounted(e)'
<1>1. UNCHANGED <<up, copies, file, flush, overrun, torn, doubtful>> OBVIOUS
<1>2. spilled' = spilled \cup {e} OBVIOUS
<1>3. WalTypeOK' BY <1>1, <1>2 DEF WalInv, WalTypeOK
<1>4. /\ \A p : InHand(p)' = InHand(p)
      /\ \A f : CopiesOf(f)' = CopiesOf(f)
      /\ \A f : Stored(f)' <=> Stored(f)
      /\ EventsOf(file)' = EventsOf(file)
  BY <1>1 DEF InHand, CopiesOf, Stored, EventsOf
<1>5. FlushInv' BY <1>1, <1>4 DEF WalInv, FlushInv
<1>6. \A f \in Events : OnceFor(f) => OnceFor(f)' BY <1>1, <1>4 DEF OnceFor
<1>7. OnceInv' BY <1>1, <1>6 DEF WalInv, OnceInv
<1>8. \A f \in Events : Safe(f) => Safe(f)' BY <1>1, <1>4 DEF Safe
<1>9. \A f \in Events : Accounted(f) => Accounted(f)' BY <1>1, <1>2, <1>8 DEF Accounted
<1>10. \A f \in Events : Untouched(f) => Untouched(f)' BY <1>1, <1>4 DEF Untouched
<1>11. Accounted(e)' BY <1>2 DEF Accounted
<1> QED BY <1>1, <1>3, <1>5, <1>7, <1>9, <1>10, <1>11 DEF WalInv, KeepsEvents

(* The line of an event that nobody else has becomes the last of the log.    *)
LEMMA AppendLineKeeps ==
    ASSUME WalInv, NEW l \in Line, WalAppend(l), ~cut,
           Untouched(l.ev) \/ l.ev \in doubtful
    PROVE  /\ WalInv'
           /\ doubtful' = doubtful
           /\ Accounted(l.ev)'
           /\ \A e \in Events : Accounted(e) => Accounted(e)'
           /\ \A e \in Events \ {l.ev} : Untouched(e) => Untouched(e)'
<1>1. file \in Seq(Line) /\ l.ev \in Events BY DEF WalInv, WalTypeOK, Line
<1>2. file' = Append(file, l) /\ file' \in Seq(Line) BY <1>1 DEF WalAppend
<1>3. UNCHANGED <<up, copies, flush, overrun, torn, spilled, doubtful, faults>> /\ cut' = FALSE
  BY DEF WalAppend
<1>4. WalTypeOK' BY <1>2, <1>3 DEF WalInv, WalTypeOK
<1>5. EventsOf(file)' = EventsOf(file) \cup {l.ev}
  BY <1>1, <1>2, ToSetAppend DEF EventsOf
<1>6. /\ \A p : InHand(p)' = InHand(p)
      /\ \A e : CopiesOf(e)' = CopiesOf(e)
      /\ \A e : Stored(e)' <=> Stored(e)
  BY <1>3 DEF InHand, CopiesOf, Stored
<1>7. FlushInv' BY <1>3, <1>6 DEF WalInv, FlushInv
<1>8. \A e \in Events : e \notin doubtful => (Once(file, e) => Once(file, e)')
  <2> SUFFICES ASSUME NEW e \in Events, e \notin doubtful, Once(file, e)
               PROVE  Once(file', e)
    BY DEF Once
  <2>1. file' = file \o <<l>> /\ <<l>> \in Seq(Line) BY <1>1, <1>2
  <2>2. Once(<<l>>, e) BY DEF Once
  <2>3. EventsOf(<<l>>) = {l.ev} BY DEF EventsOf, ToSet
  <2>4. ~ (e \in EventsOf(file) /\ e \in EventsOf(<<l>>)) BY <2>3 DEF Untouched
  <2>5. Once(file \o <<l>>, e) BY <1>1, <2>1, <2>2, <2>4, OnceConcat
  <2> QED BY <2>1, <2>5, Zenon
<1>9. OnceInv'
  <2> SUFFICES ASSUME NEW e \in Events, e \notin doubtful' PROVE OnceFor(e)'
    BY DEF OnceInv
  <2>1. e \notin doubtful /\ OnceFor(e) BY <1>3 DEF WalInv, OnceInv
  <2>2. Once(file, e)' BY <1>8, <2>1 DEF OnceFor
  <2>3. e \in EventsOf(file)' => e \in EventsOf(file) \/ Untouched(e)
    BY <1>5, <2>1
  <2> QED BY <1>3, <1>6, <2>1, <2>2, <2>3 DEF OnceFor, Untouched
<1>10. \A e \in Events : Safe(e) => Safe(e)' BY <1>3, <1>5, <1>6 DEF Safe
<1>11. \A e \in Events : Accounted(e) => Accounted(e)' BY <1>3, <1>10 DEF Accounted
<1>12. Accounted(l.ev)' BY <1>5 DEF Accounted, Safe
<1>13. \A e \in Events \ {l.ev} : Untouched(e) => Untouched(e)'
  BY <1>5, <1>6 DEF Untouched
<1> QED BY <1>3, <1>4, <1>7, <1>9, <1>11, <1>12, <1>13 DEF WalInv

(* It is appended, to the last line or to half a line.                      *)
LEMMA AppendKeeps ==
    ASSUME WalInv, NEW l \in Line, WalAppend(l),
           Untouched(l.ev) \/ l.ev \in doubtful
    PROVE  /\ WalInv'
           /\ doubtful' = doubtful
           /\ Accounted(l.ev)'
           /\ \A e \in Events : Accounted(e) => Accounted(e)'
           /\ \A e \in Events \ {l.ev} : Untouched(e) => Untouched(e)'
<1>1. CASE cut
  <2>1. /\ spilled' = spilled \cup {l.ev} /\ l.ev \in Events /\ cut' = FALSE
        /\ UNCHANGED <<up, copies, file, flush, overrun, torn, doubtful>>
        /\ faults' \in Nat
    BY <1>1 DEF WalAppend, WalInv, WalTypeOK, Line
  <2>2. PICK e \in Events : e = l.ev BY <2>1
  <2>3. WalInv' /\ KeepsEvents /\ Accounted(e)' BY <2>1, <2>2, SpillKeeps
  <2> QED BY <2>1, <2>2, <2>3 DEF KeepsEvents
<1>2. CASE ~cut BY <1>2, AppendLineKeeps
<1> QED BY <1>1, <1>2

(* The append of an event fails.                                            *)
LEMMA AppendFailsKeeps ==
    ASSUME WalInv, NEW l \in Line, WalAppendFails(l)
    PROVE  WalInv' /\ KeepsEvents /\ Accounted(l.ev)'
<1>1. UNCHANGED <<up, copies, file, flush, overrun, torn, doubtful>> /\ faults' \in Nat
  BY DEF WalAppendFails, Fault, WalInv, WalTypeOK
<1>2. spilled' = spilled \cup {l.ev} /\ l.ev \in Events BY DEF WalAppendFails, Line
<1>3. cut' \in BOOLEAN
  <2>1. cut \in BOOLEAN BY DEF WalInv, WalTypeOK
  <2>2. cut' \in {cut, TRUE} BY DEF WalAppendFails
  <2> QED BY <2>1, <2>2
<1>4. PICK e \in Events : e = l.ev BY <1>2
<1> QED BY <1>1, <1>2, <1>3, <1>4, SpillKeeps

-----------------------------------------------------------------------------
(* The steps of a flush.                                                    *)

(* A process reads the log: what another one has read too becomes doubtful. *)
LEMMA FlushReadKeeps ==
    ASSUME WalInv, NEW p \in Procs, FlushRead(p)
    PROVE  WalInv' /\ KeepsEvents
<1> DEFINE f == [pc |-> "insert", rest |-> file, kept |-> << >>, sent |-> {}, read |-> ToSet(file)]
<1>1. /\ flush[p].pc = "none" /\ flush' = [flush EXCEPT ![p] = f]
      /\ UNCHANGED <<up, copies, file, cut, overrun, torn, spilled, faults>>
      /\ doubtful' = doubtful \cup
           {e \in EventsOf(file) : \E q \in Procs \ {p} : e \in InHand(q)}
  BY DEF FlushRead
<1>2. /\ flush \in [Procs -> FlushState] /\ file \in Seq(Line)
      /\ ToSet(file) \subseteq Line
  BY DEF WalInv, WalTypeOK, ToSet
<1>3. /\ f.pc = "insert" /\ f.rest = file /\ f.kept = << >> /\ f.sent = {}
      /\ f.read = ToSet(file) /\ f \in FlushState
  BY <1>2 DEF FlushState
<1> HIDE DEF f
<1>4. /\ flush' \in [Procs -> FlushState] /\ flush'[p] = f
      /\ \A q \in Procs : q # p => flush'[q] = flush[q]
  BY <1>1, <1>2, <1>3
<1>5. EventsOf(file) \subseteq Events BY <1>2 DEF EventsOf, Line
<1>6. WalTypeOK' BY <1>1, <1>4, <1>5 DEF WalInv, WalTypeOK
<1>7. ToSet(<< >>) = {} /\ EventsOf(<< >>) = {} BY DEF EventsOf, ToSet
<1>8. /\ \A q \in Procs : q # p => InHand(q)' = InHand(q)
      /\ InHand(p)' = EventsOf(file)
      /\ InHand(p) = {}
  BY <1>1, <1>3, <1>4 DEF InHand, EventsOf, WalInv, FlushInv, NoFlush
<1>9. /\ \A e : CopiesOf(e)' = CopiesOf(e)
      /\ \A e : Stored(e)' <=> Stored(e)
      /\ EventsOf(file)' = EventsOf(file)
  BY <1>1 DEF CopiesOf, Stored, EventsOf
<1>10. FlushInv'
  <2> SUFFICES ASSUME NEW q \in Procs
               PROVE  /\ flush'[q].pc = "none" => flush'[q] = NoFlush
                      /\ flush'[q].pc = "write" => flush'[q].rest = << >>
                      /\ ToSet(flush'[q].kept) \cup ToSet(flush'[q].rest) \subseteq flush'[q].read
                      /\ flush'[q].sent \subseteq InHand(q)'
                      /\ \A l \in flush'[q].read :
                            \/ Stored(l.ev)'
                            \/ l \in ToSet(flush'[q].kept)
                            \/ l \in ToSet(flush'[q].rest)
    BY DEF FlushInv, InHand
  <2>1. CASE q = p BY <1>3, <1>4, <1>7, <2>1
  <2>2. CASE q # p BY <1>4, <1>8, <1>9, <2>2 DEF WalInv, FlushInv
  <2> QED BY <2>1, <2>2
<1>11. OnceInv'
  <2> SUFFICES ASSUME NEW e \in Events, e \notin doubtful' PROVE OnceFor(e)'
    BY DEF OnceInv
  <2>1. e \notin doubtful /\ OnceFor(e) BY <1>1 DEF WalInv, OnceInv
  <2>2. e \in EventsOf(file) => \A q \in Procs : e \notin InHand(q) BY <1>1, <1>8
  <2>3. e \in EventsOf(file) => CopiesOf(e) = 0
    <3> SUFFICES ASSUME e \in EventsOf(file), CopiesOf(e) > 0 PROVE FALSE
      BY CopiesNat DEF WalInv
    <3>1. PICK q \in Procs : flush[q].pc = "insert" /\ e \in flush[q].sent
      BY <2>1 DEF OnceFor
    <3>2. e \in InHand(q) BY <3>1 DEF WalInv, FlushInv
    <3> QED BY <2>2, <3>2
  <2>4. CopiesOf(e) <= 1 /\ Once(file, e) BY <2>1 DEF OnceFor
  <2>5. ASSUME NEW q \in Procs
        PROVE  /\ Once(flush'[q].kept, e) /\ Once(flush'[q].rest, e)
               /\ ~ (e \in EventsOf(flush'[q].kept) /\ e \in EventsOf(flush'[q].rest))
               /\ e \in EventsOf(flush'[q].kept) \cup EventsOf(flush'[q].rest) => CopiesOf(e) = 0
               /\ flush'[q].pc = "write" /\ e \in InHand(q)' => e \notin EventsOf(file)
    <3>1. CASE q = p
      <4>1. Once(<< >>, e) BY DEF Once
      <4> QED BY <1>3, <1>4, <1>7, <2>3, <2>4, <3>1, <4>1
    <3>2. CASE q # p BY <1>4, <1>8, <2>1, <3>2 DEF OnceFor
    <3> QED BY <3>1, <3>2
  <2>6. ASSUME NEW q \in Procs, NEW r \in Procs, e \in InHand(q)', e \in InHand(r)'
        PROVE  q = r
    BY <1>8, <2>1, <2>2, <2>6 DEF OnceFor
  <2>7. ~ (CopiesOf(e) > 0 /\ e \in EventsOf(file)) BY <2>3
  <2> QED BY <1>1, <1>9, <2>4, <2>5, <2>6, <2>7 DEF OnceFor, EventsOf, InHand, Once
<1>12. \A e \in Events : Safe(e) => Safe(e)'
  BY <1>1, <1>4, <1>9 DEF Safe
<1>13. \A e \in Events : Accounted(e) => Accounted(e)' BY <1>1, <1>12 DEF Accounted
<1>14. \A e \in Events : Untouched(e) => Untouched(e)'
  <2> SUFFICES ASSUME NEW e \in Events, Untouched(e) PROVE Untouched(e)'
    OBVIOUS
  <2>1. \A q \in Procs : e \notin InHand(q)' BY <1>8 DEF Untouched
  <2> QED BY <1>9, <2>1 DEF Untouched
<1> QED BY <1>1, <1>6, <1>10, <1>11, <1>13, <1>14 DEF WalInv, KeepsEvents

(* A line is refused, or the flush gives up: the lines in hand are the same *)
(* ones in the same order, and at most a doubtful one is stored meanwhile.  *)
LEMMA RearrangeKeeps ==
    ASSUME WalInv, NEW p \in Procs, flush[p].pc = "insert",
           NEW k \in Seq(Line), NEW r \in Seq(Line),
           k \o r = flush[p].kept \o flush[p].rest,
           flush' = [flush EXCEPT ![p].rest = r, ![p].kept = k],
           NEW l \in flush[p].read,
           \/ UNCHANGED <<copies, doubtful, faults>>
           \/ InsertUncertain(l),
           UNCHANGED <<up, file, cut, overrun, torn, spilled>>
    PROVE  WalInv' /\ KeepsEvents
<1>1. flush \in [Procs -> FlushState] /\ flush[p] \in FlushState BY DEF WalInv, WalTypeOK
<1>2. /\ flush[p].kept \in Seq(Line) /\ flush[p].rest \in Seq(Line)
      /\ flush[p].sent \subseteq Events /\ flush[p].read \subseteq Line
  BY <1>1 DEF FlushState
<1>3. /\ flush'[p].pc = "insert" /\ flush'[p].rest = r /\ flush'[p].kept = k
      /\ flush'[p].sent = flush[p].sent /\ flush'[p].read = flush[p].read
      /\ flush'[p] \in FlushState
      /\ \A q \in Procs : q # p => flush'[q] = flush[q]
      /\ flush' \in [Procs -> FlushState]
  BY <1>1, <1>2 DEF FlushState
<1>4. /\ ToSet(k) \cup ToSet(r) = ToSet(flush[p].kept) \cup ToSet(flush[p].rest)
      /\ EventsOf(k) \cup EventsOf(r) = EventsOf(flush[p].kept) \cup EventsOf(flush[p].rest)
  <2>0. \A s, t \in Seq(Line) : ToSet(s \o t) = ToSet(s) \cup ToSet(t)
    BY ToSetConcat
  <2>1. /\ ToSet(k \o r) = ToSet(k) \cup ToSet(r)
        /\ ToSet(flush[p].kept \o flush[p].rest) = ToSet(flush[p].kept) \cup ToSet(flush[p].rest)
    BY <1>2, <2>0
  <2>2. ToSet(k) \cup ToSet(r) = ToSet(flush[p].kept) \cup ToSet(flush[p].rest)
    BY <2>1
  <2> QED BY <2>2 DEF EventsOf
<1>5. \A q \in Procs : InHand(q)' = InHand(q) BY <1>3 DEF InHand
<1>6. /\ doubtful \subseteq doubtful' /\ doubtful' \subseteq doubtful \cup {l.ev}
      /\ faults' \in Nat /\ copies' \in [Line -> Nat]
      /\ \A e : Stored(e) => Stored(e)'
      /\ \A e \in Events : e # l.ev \/ e \notin doubtful' => CopiesOf(e)' = CopiesOf(e)
  <2>1. CASE UNCHANGED <<copies, doubtful, faults>>
    BY <2>1 DEF WalInv, WalTypeOK, Stored, CopiesOf
  <2>2. CASE InsertUncertain(l)
    <3>1. copies' = [copies EXCEPT ![l] = @ + 1] /\ doubtful' = doubtful \cup {l.ev}
      BY <2>2 DEF InsertUncertain
    <3>2. faults' \in Nat BY <2>2 DEF InsertUncertain, Fault, WalInv, WalTypeOK
    <3>3. l \in Line BY <1>2
    <3> QED BY <3>1, <3>2, <3>3, OneMoreCopy DEF WalInv
  <2> QED BY <2>1, <2>2
<1>7. EventsOf(file)' = EventsOf(file) BY DEF EventsOf
<1>8. WalTypeOK'
  <2>1. l.ev \in Events BY <1>2 DEF Line
  <2> QED BY <1>3, <1>6, <2>1 DEF WalInv, WalTypeOK
<1>9. FlushInv'
  <2> SUFFICES ASSUME NEW q \in Procs
               PROVE  /\ flush'[q].pc = "none" => flush'[q] = NoFlush
                      /\ flush'[q].pc = "write" => flush'[q].rest = << >>
                      /\ ToSet(flush'[q].kept) \cup ToSet(flush'[q].rest) \subseteq flush'[q].read
                      /\ flush'[q].sent \subseteq InHand(q)'
                      /\ \A m \in flush'[q].read :
                            \/ Stored(m.ev)'
                            \/ m \in ToSet(flush'[q].kept)
                            \/ m \in ToSet(flush'[q].rest)
    BY DEF FlushInv, InHand
  <2>1. CASE q = p
    <3>1. /\ ToSet(k) \cup ToSet(r) \subseteq flush[p].read
          /\ flush[p].sent \subseteq InHand(p)
          /\ \A m \in flush[p].read : Stored(m.ev) \/ m \in ToSet(k) \/ m \in ToSet(r)
      BY <1>4 DEF WalInv, FlushInv
    <3> QED BY <1>3, <1>5, <1>6, <2>1, <3>1
  <2>2. CASE q # p BY <1>3, <1>5, <1>6, <2>2 DEF WalInv, FlushInv
  <2> QED BY <2>1, <2>2
<1>10. OnceInv'
  <2> SUFFICES ASSUME NEW e \in Events, e \notin doubtful' PROVE OnceFor(e)'
    BY DEF OnceInv
  <2>1. e \notin doubtful /\ OnceFor(e) BY <1>6 DEF WalInv, OnceInv
  <2>2. CopiesOf(e)' = CopiesOf(e) BY <1>6
  <2>3. Once(k, e) /\ Once(r, e) /\ ~ (e \in EventsOf(k) /\ e \in EventsOf(r))
    <3>1. Once(flush[p].kept \o flush[p].rest, e)
      BY <1>2, <2>1, OnceConcat DEF OnceFor
    <3>2. Once(k \o r, e) BY <3>1
    <3> QED BY <3>2, OnceConcat
  <2>4. ASSUME NEW q \in Procs
        PROVE  /\ Once(flush'[q].kept, e) /\ Once(flush'[q].rest, e)
               /\ ~ (e \in EventsOf(flush'[q].kept) /\ e \in EventsOf(flush'[q].rest))
               /\ e \in EventsOf(flush'[q].kept) \cup EventsOf(flush'[q].rest) => CopiesOf(e) = 0
               /\ flush'[q].pc = "write" /\ e \in InHand(q) => e \notin EventsOf(file)
               /\ flush[q].pc = "insert" /\ e \in flush[q].sent =>
                    flush'[q].pc = "insert" /\ e \in flush'[q].sent
    <3>1. CASE q = p BY <1>3, <1>4, <2>1, <2>3, <3>1 DEF OnceFor
    <3>2. CASE q # p BY <1>3, <2>1, <3>2 DEF OnceFor
    <3> QED BY <3>1, <3>2
  <2>5. Once(file, e) /\ Once(file, e)' BY <2>1 DEF OnceFor, Once
  <2>6. \A q \in Procs : /\ Once(flush[q].kept, e)' <=> Once(flush'[q].kept, e)
                         /\ Once(flush[q].rest, e)' <=> Once(flush'[q].rest, e)
                         /\ EventsOf(flush[q].kept)' = EventsOf(flush'[q].kept)
                         /\ EventsOf(flush[q].rest)' = EventsOf(flush'[q].rest)
    BY DEF Once, EventsOf
  <2> QED BY <1>5, <1>7, <2>1, <2>2, <2>4, <2>5, <2>6 DEF OnceFor
<1>11. \A e \in Events : Safe(e) => Safe(e)'
  BY <1>3, <1>6, <1>7 DEF Safe, EventsOf
<1>12. \A e \in Events : Accounted(e) => Accounted(e)' BY <1>11 DEF Accounted
<1>13. \A e \in Events : Untouched(e) => Untouched(e)'
  <2> SUFFICES ASSUME NEW e \in Events, Untouched(e) PROVE Untouched(e)'
    OBVIOUS
  <2>1. e # l.ev BY DEF Untouched, InHand
  <2>2. CopiesOf(e)' = CopiesOf(e) BY <1>6, <2>1
  <2> QED BY <1>5, <1>7, <2>2 DEF Untouched
<1> QED BY <1>6, <1>8, <1>9, <1>10, <1>12, <1>13 DEF WalInv, KeepsEvents

(* The head of a sequence goes to the end of the one before it.             *)
LEMMA MoveHead ==
    ASSUME NEW a \in Seq(Line), NEW b \in Seq(Line), b # << >>
    PROVE  Append(a, Head(b)) \o Tail(b) = a \o b
<1>1. b = <<Head(b)>> \o Tail(b) /\ Head(b) \in Line /\ Tail(b) \in Seq(Line)
  BY ToSetTail, Zenon
<1>2. PICK h : h = Head(b) OBVIOUS
<1>3. PICK t : t = Tail(b) OBVIOUS
<1>4. PICK u : u = <<h>> OBVIOUS
<1>5. h \in Line /\ t \in Seq(Line) /\ b = u \o t BY <1>1, <1>2, <1>3, <1>4, Zenon
<1>6. Append(a, h) = a \o u BY <1>4, <1>5, AppendIsConcat, Zenon
<1>8. u \in Seq(Line) BY <1>4, <1>5
<1>7. (a \o u) \o t = a \o (u \o t)
  <2>1. \A x, y, z \in Seq(Line) : (x \o y) \o z = x \o (y \o z)
    BY ConcatAssociative, SMTT(30)
  <2> QED BY <1>5, <1>8, <2>1, Zenon
<1> QED BY <1>2, <1>3, <1>5, <1>6, <1>7, Zenon

(* The line a flush tries next is one that it has read.                     *)
LEMMA NextLine ==
    ASSUME WalInv, NEW p \in Procs, flush[p].rest # << >>
    PROVE  /\ flush[p].kept \in Seq(Line) /\ flush[p].rest \in Seq(Line)
           /\ flush[p].sent \subseteq Events /\ flush[p].read \subseteq Line
           /\ \E l \in flush[p].read, r \in Seq(Line) :
                /\ l \in Line /\ l.ev \in Events
                /\ l = Head(flush[p].rest) /\ r = Tail(flush[p].rest)
                /\ flush[p].rest = <<l>> \o r
                /\ ToSet(flush[p].rest) = {l} \cup ToSet(r)
<1>1. /\ flush[p].kept \in Seq(Line) /\ flush[p].rest \in Seq(Line)
      /\ flush[p].sent \subseteq Events /\ flush[p].read \subseteq Line
  BY DEF WalInv, WalTypeOK, FlushState
<1>2. \A s \in Seq(Line) : s # << >> =>
        /\ s = <<Head(s)>> \o Tail(s)
        /\ ToSet(s) = {Head(s)} \cup ToSet(Tail(s))
        /\ Head(s) \in Line /\ Tail(s) \in Seq(Line)
  BY ToSetTail
<1>3. ToSet(flush[p].rest) \subseteq flush[p].read BY DEF WalInv, FlushInv
<1>4. /\ flush[p].rest = <<Head(flush[p].rest)>> \o Tail(flush[p].rest)
      /\ ToSet(flush[p].rest) = {Head(flush[p].rest)} \cup ToSet(Tail(flush[p].rest))
      /\ Head(flush[p].rest) \in Line /\ Tail(flush[p].rest) \in Seq(Line)
  BY <1>1, <1>2, Zenon
<1>5. Head(flush[p].rest).ev \in Events BY <1>4 DEF Line
<1>6. Head(flush[p].rest) \in flush[p].read BY <1>3, <1>4, Zenon
<1> QED BY <1>1, <1>4, <1>5, <1>6, Zenon

(* A refused line moves from rest to kept.                                  *)
LEMMA FlushKeepsKeeps ==
    ASSUME WalInv, NEW p \in Procs, FlushKeeps(p)
    PROVE  WalInv' /\ KeepsEvents
<1>1. /\ flush[p].pc = "insert" /\ flush[p].rest # << >>
      /\ flush' = [flush EXCEPT ![p].rest = Tail(flush[p].rest),
                                ![p].kept = Append(flush[p].kept, Head(flush[p].rest))]
      /\ UNCHANGED <<copies, doubtful, faults, up, file, cut, overrun, torn, spilled>>
  BY DEF FlushKeeps, InsertFails, WalInv, WalTypeOK
<1>2. PICK l \in flush[p].read, r \in Seq(Line) :
        l = Head(flush[p].rest) /\ r = Tail(flush[p].rest) /\ l \in Line
  BY <1>1, NextLine
<1>3. flush[p].kept \in Seq(Line) /\ flush[p].rest \in Seq(Line) BY <1>1, NextLine
<1>7. Append(flush[p].kept, l) \in Seq(Line) BY <1>2, <1>3
<1>4. PICK k \in Seq(Line) : k = Append(flush[p].kept, l) BY <1>7, Zenon
<1>5. k \o r = flush[p].kept \o flush[p].rest BY <1>1, <1>2, <1>3, <1>4, MoveHead, Zenon
<1>6. flush' = [flush EXCEPT ![p].rest = r, ![p].kept = k] BY <1>1, <1>2, <1>4
<1> QED BY <1>1, <1>5, <1>6, RearrangeKeeps

(* A flush that times out or is cancelled keeps all it has not stored.      *)
LEMMA FlushTimesOutKeeps ==
    ASSUME WalInv, NEW p \in Procs, NEW c, FlushTimesOut(p, c)
    PROVE  WalInv' /\ KeepsEvents
<1>1. /\ flush[p].pc = "insert" /\ flush[p].rest # << >>
      /\ flush' = [flush EXCEPT ![p].rest = << >>, ![p].kept = flush[p].kept \o flush[p].rest]
      /\ UNCHANGED <<up, file, cut, overrun, torn, spilled>>
      /\ \/ UNCHANGED <<copies, doubtful, faults>>
         \/ InsertUncertain(Head(flush[p].rest))
  BY DEF FlushTimesOut, InsertFails, KeepAfterTimeout
<1>2. PICK l \in flush[p].read : l = Head(flush[p].rest) BY <1>1, NextLine
<1>3. flush[p].kept \in Seq(Line) /\ flush[p].rest \in Seq(Line) BY <1>1, NextLine
<1>9. flush[p].kept \o flush[p].rest \in Seq(Line) BY <1>3
<1>4. PICK k \in Seq(Line) : k = flush[p].kept \o flush[p].rest BY <1>9, Zenon
<1>5. << >> \in Seq(Line) /\ k \o << >> = k OBVIOUS
<1>6. PICK r \in Seq(Line) : r = << >> BY <1>5
<1>7. k \o r = flush[p].kept \o flush[p].rest BY <1>4, <1>5, <1>6, Zenon
<1>8. flush' = [flush EXCEPT ![p].rest = r, ![p].kept = k] BY <1>1, <1>4, <1>6
<1> QED BY <1>1, <1>2, <1>7, <1>8, RearrangeKeeps

(* The next line is stored: it was not, or it is doubtful.                  *)
LEMMA FlushInsertsKeeps ==
    ASSUME WalInv, NEW p \in Procs, FlushInserts(p)
    PROVE  WalInv' /\ KeepsEvents
<1>1. flush \in [Procs -> FlushState] /\ flush[p] \in FlushState BY DEF WalInv, WalTypeOK
<1>2. flush[p].pc = "insert" /\ flush[p].rest # << >> BY DEF FlushInserts
<1>4. PICK l \in flush[p].read, r \in Seq(Line) :
        /\ l \in Line /\ l.ev \in Events
        /\ l = Head(flush[p].rest) /\ r = Tail(flush[p].rest)
        /\ flush[p].rest = <<l>> \o r
        /\ ToSet(flush[p].rest) = {l} \cup ToSet(r)
  BY <1>2, NextLine
<1>5. flush[p].kept \in Seq(Line) /\ flush[p].sent \subseteq Events BY <1>2, NextLine
<1>3. /\ copies' = [copies EXCEPT ![l] = @ + 1]
      /\ flush' = [flush EXCEPT ![p].rest = r, ![p].sent = @ \cup {l.ev}]
      /\ UNCHANGED <<doubtful, faults, up, file, cut, overrun, torn, spilled>>
  BY <1>4 DEF FlushInserts, InsertOK
<1>6. /\ flush'[p].pc = "insert" /\ flush'[p].rest = r /\ flush'[p].kept = flush[p].kept
      /\ flush'[p].sent = flush[p].sent \cup {l.ev} /\ flush'[p].read = flush[p].read
      /\ flush'[p] \in FlushState
      /\ \A q \in Procs : q # p => flush'[q] = flush[q]
      /\ flush' \in [Procs -> FlushState]
  BY <1>1, <1>2, <1>3, <1>4, <1>5 DEF FlushState
<1>7. /\ copies' \in [Line -> Nat]
      /\ \A e : Stored(e) => Stored(e)'
      /\ Stored(l.ev)'
      /\ CopiesOf(l.ev)' = CopiesOf(l.ev) + 1
      /\ \A e \in Events : e # l.ev => CopiesOf(e)' = CopiesOf(e)
  BY <1>3, <1>4, OneMoreCopy DEF WalInv
<1>8. \A q \in Procs : InHand(q)' = InHand(q) BY <1>6 DEF InHand
<1>9. EventsOf(file)' = EventsOf(file) BY <1>3 DEF EventsOf
<1>10. l.ev \in InHand(p) BY DEF InHand
<1>11. WalTypeOK' BY <1>3, <1>6, <1>7 DEF WalInv, WalTypeOK
<1>12. FlushInv'
  <2> SUFFICES ASSUME NEW q \in Procs
               PROVE  /\ flush'[q].pc = "none" => flush'[q] = NoFlush
                      /\ flush'[q].pc = "write" => flush'[q].rest = << >>
                      /\ ToSet(flush'[q].kept) \cup ToSet(flush'[q].rest) \subseteq flush'[q].read
                      /\ flush'[q].sent \subseteq InHand(q)'
                      /\ \A m \in flush'[q].read :
                            \/ Stored(m.ev)'
                            \/ m \in ToSet(flush'[q].kept)
                            \/ m \in ToSet(flush'[q].rest)
    BY DEF FlushInv, InHand
  <2>1. CASE q = p
    <3>1. /\ ToSet(flush[p].kept) \cup ToSet(r) \subseteq flush[p].read
          /\ flush[p].sent \subseteq InHand(p)
          /\ \A m \in flush[p].read :
               Stored(m.ev)' \/ m \in ToSet(flush[p].kept) \/ m \in ToSet(r)
      BY <1>4, <1>7 DEF WalInv, FlushInv
    <3> QED BY <1>6, <1>8, <1>10, <2>1, <3>1
  <2>2. CASE q # p BY <1>6, <1>7, <1>8, <2>2 DEF WalInv, FlushInv
  <2> QED BY <2>1, <2>2
<1>13. OnceInv'
  <2> SUFFICES ASSUME NEW e \in Events, e \notin doubtful' PROVE OnceFor(e)'
    BY DEF OnceInv
  <2>1. e \notin doubtful /\ OnceFor(e) BY <1>3 DEF WalInv, OnceInv
  <2>2. EventsOf(flush[p].rest) = {l.ev} \cup EventsOf(r) BY <1>4 DEF EventsOf
  <2>3. Once(r, e) /\ (e = l.ev => e \notin EventsOf(r))
    <3>1. <<l>> \in Seq(Line) /\ EventsOf(<<l>>) = {l.ev} BY <1>4 DEF EventsOf, ToSet
    <3>2. Once(flush[p].rest, e) BY <2>1 DEF OnceFor
    <3>3. Once(<<l>> \o r, e) BY <1>4, <3>2
    <3>4. Once(r, e) /\ ~ (e \in EventsOf(<<l>>) /\ e \in EventsOf(r))
      BY <3>1, <3>3, OnceConcat, Zenon
    <3> QED BY <3>1, <3>4
  <2>4. e = l.ev => /\ CopiesOf(e) = 0 /\ CopiesOf(e)' = 1
                    /\ e \notin EventsOf(flush[p].kept)
    <3>1. e = l.ev => CopiesOf(e) = 0 /\ e \notin EventsOf(flush[p].kept)
      BY <2>1, <2>2 DEF OnceFor
    <3> QED BY <1>7, <3>1
  <2>5. CopiesOf(e)' <= 1 BY <1>7, <2>1, <2>4 DEF OnceFor
  <2>6. ASSUME NEW q \in Procs
        PROVE  /\ Once(flush'[q].kept, e) /\ Once(flush'[q].rest, e)
               /\ ~ (e \in EventsOf(flush'[q].kept) /\ e \in EventsOf(flush'[q].rest))
               /\ e \in EventsOf(flush'[q].kept) \cup EventsOf(flush'[q].rest) => CopiesOf(e)' = 0
               /\ flush'[q].pc = "write" /\ e \in InHand(q) => e \notin EventsOf(file)
               /\ flush[q].pc = "insert" /\ e \in flush[q].sent =>
                    flush'[q].pc = "insert" /\ e \in flush'[q].sent
    <3>1. CASE q = p
      BY <1>6, <1>7, <2>1, <2>2, <2>3, <2>4, <3>1 DEF OnceFor
    <3>2. CASE q # p
      <4>1. e \in EventsOf(flush[q].kept) \cup EventsOf(flush[q].rest) => e \in InHand(q)
        BY DEF WalInv, FlushInv, EventsOf, InHand
      <4>2. e \in InHand(q) => e # l.ev BY <1>10, <2>1, <3>2 DEF OnceFor
      <4> QED BY <1>6, <1>7, <2>1, <3>2, <4>1, <4>2 DEF OnceFor
    <3> QED BY <3>1, <3>2
  <2>7. Once(file, e)' BY <1>3, <2>1 DEF OnceFor, Once
  <2>8. CopiesOf(e)' > 0 /\ e \in EventsOf(file) =>
          \E q \in Procs : flush'[q].pc = "insert" /\ e \in flush'[q].sent
    <3>1. CASE e = l.ev BY <1>6, <3>1
    <3>2. CASE e # l.ev BY <1>7, <2>1, <2>6, <3>2 DEF OnceFor
    <3> QED BY <3>1, <3>2
  <2>9. \A q \in Procs : /\ Once(flush[q].kept, e)' <=> Once(flush'[q].kept, e)
                         /\ Once(flush[q].rest, e)' <=> Once(flush'[q].rest, e)
                         /\ EventsOf(flush[q].kept)' = EventsOf(flush'[q].kept)
                         /\ EventsOf(flush[q].rest)' = EventsOf(flush'[q].rest)
    BY DEF Once, EventsOf
  <2> QED BY <1>8, <1>9, <2>1, <2>5, <2>6, <2>7, <2>8, <2>9 DEF OnceFor
<1>14. \A e \in Events : Safe(e) => Safe(e)'
  BY <1>3, <1>6, <1>7, <1>9 DEF Safe, EventsOf
<1>15. \A e \in Events : Accounted(e) => Accounted(e)' BY <1>3, <1>14 DEF Accounted
<1>16. \A e \in Events : Untouched(e) => Untouched(e)'
  <2> SUFFICES ASSUME NEW e \in Events, Untouched(e) PROVE Untouched(e)'
    OBVIOUS
  <2>1. e # l.ev BY <1>10 DEF Untouched
  <2> QED BY <1>7, <1>8, <1>9, <2>1 DEF Untouched
<1> QED BY <1>3, <1>11, <1>12, <1>13, <1>15, <1>16 DEF WalInv, KeepsEvents

(* The log is truncated: what it held was read by this flush, and is stored *)
(* or kept, or is overrun.                                                  *)
LEMMA FlushTruncatesKeeps ==
    ASSUME WalInv, NEW p \in Procs, FlushTruncates(p)
    PROVE  WalInv' /\ KeepsEvents
<1>1. flush \in [Procs -> FlushState] /\ flush[p] \in FlushState BY DEF WalInv, WalTypeOK
<1>2. /\ flush[p].pc = "insert" /\ flush[p].rest = << >>
      /\ flush' = [flush EXCEPT ![p].pc = "write"]
      /\ file' = << >> /\ cut' = FALSE
      /\ overrun' = overrun \cup (ToSet(file) \ flush[p].read)
      /\ UNCHANGED <<up, copies, torn, spilled, doubtful, faults>>
  BY DEF FlushTruncates, Unread
<1>3. /\ flush'[p].pc = "write" /\ flush'[p].rest = << >> /\ flush'[p].kept = flush[p].kept
      /\ flush'[p].sent = flush[p].sent /\ flush'[p].read = flush[p].read
      /\ \A q \in Procs : q # p => flush'[q] = flush[q]
      /\ \A q \in Procs : flush'[q].kept = flush[q].kept /\ flush'[q].rest = flush[q].rest
      /\ flush' \in [Procs -> FlushState]
  BY <1>1, <1>2 DEF FlushState
<1>4. ToSet(file) \subseteq Line BY DEF WalInv, WalTypeOK, ToSet
<1>5. << >> \in Seq(Line) /\ ToSet(<< >>) = {} /\ EventsOf(<< >>) = {}
  BY DEF ToSet, EventsOf
<1>6. WalTypeOK' BY <1>2, <1>3, <1>4, <1>5 DEF WalInv, WalTypeOK
<1>7. /\ \A q \in Procs : InHand(q)' = InHand(q)
      /\ \A e : CopiesOf(e)' = CopiesOf(e)
      /\ \A e : Stored(e)' <=> Stored(e)
      /\ EventsOf(file)' = {}
  BY <1>2, <1>3, <1>5 DEF InHand, CopiesOf, Stored, EventsOf
<1>8. FlushInv'
  <2> SUFFICES ASSUME NEW q \in Procs
               PROVE  /\ flush'[q].pc = "none" => flush'[q] = NoFlush
                      /\ flush'[q].pc = "write" => flush'[q].rest = << >>
                      /\ ToSet(flush'[q].kept) \cup ToSet(flush'[q].rest) \subseteq flush'[q].read
                      /\ flush'[q].sent \subseteq InHand(q)'
                      /\ \A m \in flush'[q].read :
                            \/ Stored(m.ev)'
                            \/ m \in ToSet(flush'[q].kept)
                            \/ m \in ToSet(flush'[q].rest)
    BY DEF FlushInv, InHand
  <2>1. CASE q = p
    <3>1. /\ ToSet(flush[p].kept) \cup ToSet(flush[p].rest) \subseteq flush[p].read
          /\ flush[p].sent \subseteq InHand(p)
          /\ \A m \in flush[p].read : \/ Stored(m.ev)
                                      \/ m \in ToSet(flush[p].kept)
                                      \/ m \in ToSet(flush[p].rest)
      BY DEF WalInv, FlushInv
    <3> QED BY <1>2, <1>3, <1>7, <2>1, <3>1
  <2>2. CASE q # p BY <1>3, <1>7, <2>2 DEF WalInv, FlushInv
  <2> QED BY <2>1, <2>2
<1>9. OnceInv'
  <2> SUFFICES ASSUME NEW e \in Events, e \notin doubtful' PROVE OnceFor(e)'
    BY DEF OnceInv
  <2>1. e \notin doubtful /\ OnceFor(e) BY <1>2 DEF WalInv, OnceInv
  <2>2. Once(file, e)' BY <1>2 DEF Once
  <2>3. \A q \in Procs : /\ Once(flush[q].kept, e)' <=> Once(flush[q].kept, e)
                         /\ Once(flush[q].rest, e)' <=> Once(flush[q].rest, e)
                         /\ EventsOf(flush[q].kept)' = EventsOf(flush[q].kept)
                         /\ EventsOf(flush[q].rest)' = EventsOf(flush[q].rest)
    BY <1>3 DEF Once, EventsOf
  <2> QED BY <1>7, <2>1, <2>2, <2>3 DEF OnceFor
<1>10. ASSUME NEW e \in Events, Accounted(e) PROVE Accounted(e)'
  <2>1. CASE Stored(e) BY <1>7, <2>1 DEF Accounted, Safe
  <2>2. CASE e \in EventsOf(file)
    <3>1. PICK m \in ToSet(file) : m.ev = e BY <2>2 DEF EventsOf
    <3>2. CASE m \notin flush[p].read BY <1>2, <3>1, <3>2 DEF Accounted
    <3>3. CASE m \in flush[p].read
      <4>1. Stored(e) \/ m \in ToSet(flush[p].kept)
        BY <1>2, <1>5, <3>1, <3>3 DEF WalInv, FlushInv
      <4>2. m \in ToSet(flush[p].kept) => e \in EventsOf(flush[p].kept)'
        BY <1>3, <3>1 DEF EventsOf
      <4> QED BY <1>3, <1>7, <4>1, <4>2 DEF Accounted, Safe
    <3> QED BY <3>2, <3>3
  <2>3. ASSUME NEW q \in Procs, flush[q].pc = "write", e \in EventsOf(flush[q].kept)
        PROVE  Accounted(e)'
    <3>1. q # p BY <1>2, <2>3
    <3>2. flush'[q].pc = "write" /\ e \in EventsOf(flush[q].kept)'
      BY <1>3, <2>3, <3>1 DEF EventsOf
    <3> QED BY <3>2 DEF Accounted, Safe
  <2>4. CASE e \in {l.ev : l \in overrun} \cup torn \cup spilled
    BY <1>2, <2>4 DEF Accounted
  <2> QED BY <1>10, <2>1, <2>2, <2>3, <2>4 DEF Accounted, Safe
<1>11. \A e \in Events : Untouched(e) => Untouched(e)' BY <1>7 DEF Untouched
<1> QED BY <1>2, <1>6, <1>8, <1>9, <1>10, <1>11 DEF WalInv, KeepsEvents

(* A process that is done with its flush, or dies in it, holds nothing.     *)
LEMMA ForgetsFlush ==
    ASSUME WalInv, NEW p \in Procs, flush' = [flush EXCEPT ![p] = NoFlush]
    PROVE  /\ flush' \in [Procs -> FlushState] /\ flush'[p] = NoFlush
           /\ \A q \in Procs : q # p => flush'[q] = flush[q]
           /\ InHand(p)' = {}
           /\ \A q \in Procs : q # p => InHand(q)' = InHand(q)
           /\ (\A e : Stored(e) => Stored(e)') => FlushInv'
<1>1. flush \in [Procs -> FlushState] BY DEF WalInv, WalTypeOK
<1>2. NoFlush \in FlushState BY DEF NoFlush, FlushState
<1>3. /\ flush' \in [Procs -> FlushState] /\ flush'[p] = NoFlush
      /\ \A q \in Procs : q # p => flush'[q] = flush[q]
  BY <1>1, <1>2
<1>4. InHand(p)' = {} /\ \A q \in Procs : q # p => InHand(q)' = InHand(q)
  BY <1>3 DEF InHand, NoFlush
<1>5. ToSet(<< >>) = {} BY DEF ToSet
<1>6. ASSUME \A e : Stored(e) => Stored(e)' PROVE FlushInv'
  <2> SUFFICES ASSUME NEW q \in Procs
               PROVE  /\ flush'[q].pc = "none" => flush'[q] = NoFlush
                      /\ flush'[q].pc = "write" => flush'[q].rest = << >>
                      /\ ToSet(flush'[q].kept) \cup ToSet(flush'[q].rest) \subseteq flush'[q].read
                      /\ flush'[q].sent \subseteq InHand(q)'
                      /\ \A m \in flush'[q].read :
                            \/ Stored(m.ev)'
                            \/ m \in ToSet(flush'[q].kept)
                            \/ m \in ToSet(flush'[q].rest)
    BY DEF FlushInv, InHand
  <2>1. CASE q = p BY <1>3, <1>4, <1>5, <2>1 DEF NoFlush
  <2>2. CASE q # p BY <1>3, <1>4, <1>6, <2>2 DEF WalInv, FlushInv
  <2> QED BY <2>1, <2>2
<1> QED BY <1>3, <1>4, <1>6

(* Process p leaves its flush as it is.                                     *)
LEMMA LeaveKeeps ==
    ASSUME WalInv, NEW p \in Procs, NEW es \in SUBSET Events,
           flush' = [flush EXCEPT ![p] = NoFlush],
           torn' = IF flush[p].pc = "write" THEN torn \cup EventsOf(flush[p].kept) ELSE torn,
           doubtful' = doubtful \cup es \cup (IF flush[p].pc = "insert" THEN flush[p].sent ELSE {}),
           UNCHANGED <<up, copies, file, cut, overrun, spilled>>, faults' \in Nat
    PROVE  WalInv' /\ KeepsEvents /\ es \subseteq doubtful'
<1>1. /\ flush' = [flush EXCEPT ![p] = NoFlush]
      /\ torn' = IF flush[p].pc = "write" THEN torn \cup EventsOf(flush[p].kept) ELSE torn
      /\ doubtful' = doubtful \cup es \cup (IF flush[p].pc = "insert" THEN flush[p].sent ELSE {})
      /\ UNCHANGED <<up, copies, file, cut, overrun, spilled>> /\ faults' \in Nat
  OBVIOUS
<1>2. flush \in [Procs -> FlushState] /\ flush[p] \in FlushState BY DEF WalInv, WalTypeOK
<1>3. flush[p].sent \subseteq Events /\ EventsOf(flush[p].kept) \subseteq Events
  <2>1. flush[p].kept \in Seq(Line) /\ flush[p].sent \subseteq Events
    BY <1>2 DEF FlushState
  <2> QED BY <2>1, EventsOfLines
<1>4. /\ \A e : CopiesOf(e)' = CopiesOf(e)
      /\ \A e : Stored(e)' <=> Stored(e)
      /\ EventsOf(file)' = EventsOf(file)
  BY <1>1 DEF CopiesOf, Stored, EventsOf
<1>5. WalTypeOK'
  BY <1>1, <1>3, ForgetsFlush DEF WalInv, WalTypeOK
<1>6. FlushInv' BY <1>1, <1>4, ForgetsFlush
<1>7. OnceInv'
  <2> SUFFICES ASSUME NEW e \in Events, e \notin doubtful' PROVE OnceFor(e)'
    BY DEF OnceInv
  <2>1. e \notin doubtful /\ OnceFor(e) BY <1>1 DEF WalInv, OnceInv
  <2>2. ASSUME NEW q \in Procs
        PROVE  /\ Once(flush'[q].kept, e) /\ Once(flush'[q].rest, e)
               /\ ~ (e \in EventsOf(flush'[q].kept) /\ e \in EventsOf(flush'[q].rest))
               /\ e \in EventsOf(flush'[q].kept) \cup EventsOf(flush'[q].rest) => CopiesOf(e) = 0
               /\ flush'[q].pc = "write" /\ e \in InHand(q)' => e \notin EventsOf(file)
               /\ e \in InHand(q)' => e \in InHand(q)
    <3>1. CASE q = p
      <4>1. EventsOf(<< >>) = {} /\ Once(<< >>, e) BY DEF EventsOf, ToSet, Once
      <4>2. flush'[p] = NoFlush /\ InHand(p)' = {} BY ForgetsFlush
      <4> QED BY <3>1, <4>1, <4>2 DEF NoFlush
    <3>2. CASE q # p BY <1>1, <2>1, <3>2, ForgetsFlush DEF OnceFor
    <3> QED BY <3>1, <3>2
  <2>3. CopiesOf(e) > 0 /\ e \in EventsOf(file) =>
          \E q \in Procs : flush'[q].pc = "insert" /\ e \in flush'[q].sent
    <3> SUFFICES ASSUME CopiesOf(e) > 0, e \in EventsOf(file)
                 PROVE  \E q \in Procs : flush'[q].pc = "insert" /\ e \in flush'[q].sent
      OBVIOUS
    <3>1. PICK q \in Procs : flush[q].pc = "insert" /\ e \in flush[q].sent
      BY <2>1 DEF OnceFor
    <3>2. q # p BY <1>1, <3>1
    <3> QED BY <1>1, <3>1, <3>2, ForgetsFlush
  <2>4. Once(file, e)' BY <1>1, <2>1 DEF OnceFor, Once
  <2>5. \A q \in Procs : /\ Once(flush[q].kept, e)' <=> Once(flush'[q].kept, e)
                         /\ Once(flush[q].rest, e)' <=> Once(flush'[q].rest, e)
                         /\ EventsOf(flush[q].kept)' = EventsOf(flush'[q].kept)
                         /\ EventsOf(flush[q].rest)' = EventsOf(flush'[q].rest)
    BY DEF Once, EventsOf
  <2> QED BY <1>4, <2>1, <2>2, <2>3, <2>4, <2>5 DEF OnceFor
<1>8. ASSUME NEW e \in Events, Accounted(e) PROVE Accounted(e)'
  <2>1. CASE Stored(e) \/ e \in EventsOf(file) BY <1>4, <2>1 DEF Accounted, Safe
  <2>2. ASSUME NEW q \in Procs, flush[q].pc = "write", e \in EventsOf(flush[q].kept)
        PROVE  Accounted(e)'
    <3>1. CASE q = p BY <1>1, <2>2, <3>1 DEF Accounted
    <3>2. CASE q # p
      <4>1. flush'[q].pc = "write" /\ e \in EventsOf(flush[q].kept)'
        BY <1>1, <2>2, <3>2, ForgetsFlush DEF EventsOf
      <4> QED BY <4>1 DEF Accounted, Safe
    <3> QED BY <3>1, <3>2
  <2>3. CASE e \in {l.ev : l \in overrun} \cup torn \cup spilled
    BY <1>1, <2>3 DEF Accounted
  <2> QED BY <1>8, <2>1, <2>2, <2>3 DEF Accounted, Safe
<1>9. ASSUME NEW e \in Events, Untouched(e) PROVE Untouched(e)'
  <2>1. \A q \in Procs : e \notin InHand(q)' BY <1>1, <1>9, ForgetsFlush DEF Untouched
  <2> QED BY <1>4, <1>9, <2>1 DEF Untouched
<1> QED BY <1>1, <1>5, <1>6, <1>7, <1>8, <1>9 DEF WalInv, KeepsEvents

(* It dies, ...                                                             *)
LEMMA CrashKeeps ==
    ASSUME WalInv, NEW p \in Procs, NEW es \in SUBSET Events, WalCrash(p, es)
    PROVE  WalInv' /\ KeepsEvents /\ es \subseteq doubtful'
<1>1. faults' \in Nat BY DEF WalCrash, WalInv, WalTypeOK
<1> QED BY <1>1, LeaveKeeps DEF WalCrash

(* ... or it cannot open the log again.                                     *)
LEMMA FlushOpenFailsKeeps ==
    ASSUME WalInv, NEW p \in Procs, FlushOpenFails(p)
    PROVE  WalInv' /\ KeepsEvents
<1>1. faults' \in Nat BY DEF FlushOpenFails, Fault, WalInv, WalTypeOK
<1>2. PICK es \in SUBSET Events : es = {} OBVIOUS
<1> QED BY <1>1, <1>2, LeaveKeeps DEF FlushOpenFails

(* What the log holds once the lines k are written over its first n lines.  *)
LEMMA WrittenOver ==
    ASSUME WalInv, NEW p \in Procs, NEW k \in Seq(Line), NEW n \in 0 .. Len(file),
           file' = k \o SubSeq(file, n + 1, Len(file)),
           overrun' = overrun \cup (ToSet(SubSeq(file, 1, n)) \ flush[p].read)
    PROVE  /\ file' \in Seq(Line)
           /\ overrun \subseteq overrun' /\ overrun' \subseteq Line
           /\ overrun' \subseteq overrun \cup (ToSet(file) \ flush[p].read)
           /\ EventsOf(k) \subseteq EventsOf(file)'
           /\ EventsOf(file)' \subseteq EventsOf(k) \cup EventsOf(file)
           /\ \A l \in ToSet(file) : \/ l \in flush[p].read \cup overrun'
                                     \/ l \in ToSet(file')
           /\ \A e \in Events : /\ Once(file, e) /\ Once(k, e)
                                /\ ~ (e \in EventsOf(k) /\ e \in EventsOf(file))
                                => Once(file, e)'
<1>1. file \in Seq(Line) /\ overrun \subseteq Line BY DEF WalInv, WalTypeOK
<1>2. \A s \in Seq(Line) : \A i \in 0 .. Len(s) :
        /\ s = SubSeq(s, 1, i) \o SubSeq(s, i + 1, Len(s))
        /\ ToSet(s) = ToSet(SubSeq(s, 1, i)) \cup ToSet(SubSeq(s, i + 1, Len(s)))
        /\ SubSeq(s, 1, i) \in Seq(Line) /\ SubSeq(s, i + 1, Len(s)) \in Seq(Line)
  BY ToSetCut
<1>3. PICK a \in Seq(Line) : a = SubSeq(file, 1, n) BY <1>1, <1>2, Zenon
<1>4. PICK b \in Seq(Line) : b = SubSeq(file, n + 1, Len(file)) BY <1>1, <1>2, Zenon
<1>5. file = a \o b /\ ToSet(file) = ToSet(a) \cup ToSet(b)
  BY <1>1, <1>2, <1>3, <1>4, Zenon
<1>6. file' = k \o b /\ overrun' = overrun \cup (ToSet(a) \ flush[p].read)
  BY <1>3, <1>4
<1>7. file' \in Seq(Line)
  <2>1. \A s, t \in Seq(Line) : s \o t \in Seq(Line) OBVIOUS
  <2> QED BY <1>6, <2>1, Zenon
<1>8. ToSet(k \o b) = ToSet(k) \cup ToSet(b) BY ToSetConcat
<1>9. ToSet(file') = ToSet(k) \cup ToSet(b) BY <1>6, <1>8, Zenon
<1>10. EventsOf(file)' = EventsOf(k) \cup EventsOf(b) /\ EventsOf(file) = EventsOf(a) \cup EventsOf(b)
  BY <1>5, <1>9 DEF EventsOf
<1>11. ASSUME NEW e \in Events, Once(file, e), Once(k, e),
              ~ (e \in EventsOf(k) /\ e \in EventsOf(file))
       PROVE  Once(file, e)'
  <2>1. Once(a \o b, e) BY <1>5, <1>11
  <2>2. Once(b, e) BY <2>1, OnceConcat
  <2>3. Once(k \o b, e) BY <1>10, <1>11, <2>2, OnceConcat
  <2>4. Once(file', e) BY <1>6, <2>3, Zenon
  <2> QED BY <2>4 DEF Once
<1>12. ToSet(a) \subseteq Line BY EventsOfLines
<1> QED BY <1>1, <1>5, <1>6, <1>7, <1>9, <1>10, <1>11, <1>12

(* A flush ends with the first of its kept lines, k, back in the log and    *)
(* the others, r, gone.                                                     *)
LEMMA WriteKeeps ==
    ASSUME WalInv, NEW p \in Procs, flush[p].pc = "write",
           NEW k \in Seq(Line), NEW r \in Seq(Line), flush[p].kept = k \o r,
           NEW n \in 0 .. Len(file),
           file' = k \o SubSeq(file, n + 1, Len(file)),
           overrun' = overrun \cup (ToSet(SubSeq(file, 1, n)) \ flush[p].read),
           flush' = [flush EXCEPT ![p] = NoFlush],
           torn' = torn \cup EventsOf(r),
           UNCHANGED <<up, copies, spilled, doubtful>>,
           cut' \in BOOLEAN, faults' \in Nat
    PROVE  WalInv' /\ KeepsEvents
<1>1. /\ file' \in Seq(Line)
      /\ overrun \subseteq overrun' /\ overrun' \subseteq Line
      /\ EventsOf(k) \subseteq EventsOf(file)'
      /\ EventsOf(file)' \subseteq EventsOf(k) \cup EventsOf(file)
      /\ \A l \in ToSet(file) : l \in flush[p].read \cup overrun' \/ l \in ToSet(file')
      /\ \A e \in Events : /\ Once(file, e) /\ Once(k, e)
                           /\ ~ (e \in EventsOf(k) /\ e \in EventsOf(file))
                           => Once(file, e)'
  BY WrittenOver
<1>2. /\ \A e : CopiesOf(e)' = CopiesOf(e)
      /\ \A e : Stored(e)' <=> Stored(e)
  BY DEF CopiesOf, Stored
<1>10. EventsOf(r) \subseteq Events BY EventsOfLines
<1>11. ToSet(k \o r) = ToSet(k) \cup ToSet(r) BY ToSetConcat
<1>9. EventsOf(flush[p].kept) = EventsOf(k) \cup EventsOf(r)
  BY <1>11 DEF EventsOf
<1>3. WalTypeOK' BY <1>1, <1>10, ForgetsFlush DEF WalInv, WalTypeOK
<1>4. FlushInv' BY <1>2, ForgetsFlush
<1>5. /\ EventsOf(flush[p].kept) \subseteq InHand(p)
      /\ \A q \in Procs : flush[q].pc = "insert" => q # p
  BY DEF WalInv, FlushInv, EventsOf, InHand
<1>6. OnceInv'
  <2> SUFFICES ASSUME NEW e \in Events, e \notin doubtful' PROVE OnceFor(e)'
    BY DEF OnceInv
  <2>1. e \notin doubtful /\ OnceFor(e) BY DEF WalInv, OnceInv
  <2>2. ~ (e \in EventsOf(k) /\ e \in EventsOf(file))
    BY <1>5, <1>9, <2>1 DEF OnceFor
  <2>7. Once(k, e)
    <3>1. Once(k \o r, e) BY <2>1 DEF OnceFor
    <3> QED BY <3>1, OnceConcat
  <2>3. Once(file, e)' BY <1>1, <2>1, <2>2, <2>7 DEF OnceFor
  <2>4. ASSUME NEW q \in Procs
        PROVE  /\ Once(flush'[q].kept, e) /\ Once(flush'[q].rest, e)
               /\ ~ (e \in EventsOf(flush'[q].kept) /\ e \in EventsOf(flush'[q].rest))
               /\ e \in EventsOf(flush'[q].kept) \cup EventsOf(flush'[q].rest) => CopiesOf(e) = 0
               /\ flush'[q].pc = "write" /\ e \in InHand(q)' => e \notin EventsOf(file)'
               /\ e \in InHand(q)' => e \in InHand(q)
    <3>1. CASE q = p
      <4>1. EventsOf(<< >>) = {} /\ Once(<< >>, e) BY DEF EventsOf, ToSet, Once
      <4> QED BY <3>1, <4>1, ForgetsFlush DEF NoFlush
    <3>2. CASE q # p
      <4>1. flush[q].pc = "write" /\ e \in InHand(q) =>
              e \notin EventsOf(file) /\ e \notin EventsOf(k)
        BY <1>5, <1>9, <2>1, <3>2 DEF OnceFor
      <4>2. flush'[q] = flush[q] /\ InHand(q)' = InHand(q) BY <3>2, ForgetsFlush
      <4> QED BY <1>1, <2>1, <4>1, <4>2 DEF OnceFor
    <3> QED BY <3>1, <3>2
  <2>5. CopiesOf(e) > 0 /\ e \in EventsOf(file)' =>
          \E q \in Procs : flush'[q].pc = "insert" /\ e \in flush'[q].sent
    <3> SUFFICES ASSUME CopiesOf(e) > 0, e \in EventsOf(file)'
                 PROVE  \E q \in Procs : flush'[q].pc = "insert" /\ e \in flush'[q].sent
      OBVIOUS
    <3>0. e \in EventsOf(flush[p].kept) => CopiesOf(e) = 0 BY <2>1 DEF OnceFor
    <3>1. e \notin EventsOf(k) BY <1>9, <3>0
    <3>2. e \in EventsOf(file) BY <1>1, <3>1
    <3>3. PICK q \in Procs : flush[q].pc = "insert" /\ e \in flush[q].sent
      BY <2>1, <3>2 DEF OnceFor
    <3> QED BY <1>5, <3>3, ForgetsFlush
  <2>6. \A q \in Procs : /\ Once(flush[q].kept, e)' <=> Once(flush'[q].kept, e)
                         /\ Once(flush[q].rest, e)' <=> Once(flush'[q].rest, e)
                         /\ EventsOf(flush[q].kept)' = EventsOf(flush'[q].kept)
                         /\ EventsOf(flush[q].rest)' = EventsOf(flush'[q].rest)
    BY DEF Once, EventsOf
  <2> QED BY <1>2, <2>1, <2>3, <2>4, <2>5, <2>6 DEF OnceFor
<1>7. ASSUME NEW e \in Events, Accounted(e) PROVE Accounted(e)'
  <2>1. CASE Stored(e) BY <1>2, <2>1 DEF Accounted, Safe
  <2>2. CASE e \in EventsOf(flush[p].kept)
    <3>1. CASE e \in EventsOf(k) BY <1>1, <3>1 DEF Accounted, Safe
    <3>2. CASE e \in EventsOf(r) BY <3>2 DEF Accounted
    <3> QED BY <1>9, <2>2, <3>1, <3>2
  <2>3. CASE e \in EventsOf(file)
    <3>1. PICK m \in ToSet(file) : m.ev = e BY <2>3 DEF EventsOf
    <3>2. CASE m \in overrun' BY <3>1, <3>2 DEF Accounted
    <3>3. CASE m \in ToSet(file')
      <4>1. e \in EventsOf(file)' BY <3>1, <3>3 DEF EventsOf
      <4> QED BY <4>1 DEF Accounted, Safe
    <3>4. CASE m \in flush[p].read
      <4>1. flush[p].rest = << >> /\ ToSet(<< >>) = {} BY DEF WalInv, FlushInv, ToSet
      <4>2. Stored(e) \/ m \in ToSet(flush[p].kept)
        BY <3>1, <3>4, <4>1 DEF WalInv, FlushInv
      <4>3. m \in ToSet(flush[p].kept) => e \in EventsOf(flush[p].kept)
        BY <3>1 DEF EventsOf
      <4> QED BY <2>1, <2>2, <4>2, <4>3
    <3> QED BY <1>1, <3>2, <3>3, <3>4
  <2>4. ASSUME NEW q \in Procs, flush[q].pc = "write", e \in EventsOf(flush[q].kept)
        PROVE  Accounted(e)'
    <3>1. CASE q = p BY <2>2, <2>4, <3>1
    <3>2. CASE q # p
      <4>1. flush'[q].pc = "write" /\ e \in EventsOf(flush[q].kept)'
        BY <2>4, <3>2, ForgetsFlush DEF EventsOf
      <4> QED BY <4>1 DEF Accounted, Safe
    <3> QED BY <3>1, <3>2
  <2>5. CASE e \in {l.ev : l \in overrun} \cup torn \cup spilled
    BY <1>1, <2>5 DEF Accounted
  <2> QED BY <1>7, <2>1, <2>3, <2>4, <2>5 DEF Accounted, Safe
<1>8. ASSUME NEW e \in Events, Untouched(e) PROVE Untouched(e)'
  <2>1. \A q \in Procs : e \notin InHand(q)' BY <1>8, ForgetsFlush DEF Untouched
  <2>2. e \notin EventsOf(file)' BY <1>1, <1>5, <1>8, <1>9 DEF Untouched
  <2> QED BY <1>2, <1>8, <2>1, <2>2 DEF Untouched
<1> QED BY <1>3, <1>4, <1>6, <1>7, <1>8 DEF WalInv, KeepsEvents

(* All the kept lines are written back, ...                                 *)
LEMMA FlushWritesKeeps ==
    ASSUME WalInv, NEW p \in Procs, FlushWrites(p)
    PROVE  WalInv' /\ KeepsEvents
<1>1. /\ flush[p].pc = "write" /\ flush' = [flush EXCEPT ![p] = NoFlush]
      /\ UNCHANGED <<up, copies, torn, spilled, doubtful, faults>>
      /\ file \in Seq(Line) /\ flush[p].kept \in Seq(Line) /\ cut \in BOOLEAN /\ faults \in Nat
  BY DEF FlushWrites, WalInv, WalTypeOK, FlushState
<1>2. PICK k \in Seq(Line) : k = flush[p].kept BY <1>1
<1>3. PICK r \in Seq(Line) : r = << >> BY EmptySeq
<1>4. k = k \o r /\ EventsOf(r) = {} BY <1>3 DEF EventsOf, ToSet
<1>5. CASE flush[p].kept = << >>
  <2>1. UNCHANGED <<file, cut, overrun>> BY <1>5 DEF FlushWrites
  <2>2. 0 \in 0 .. Len(file) BY <1>1, LenProperties
  <2>3. PICK n \in 0 .. Len(file) : n = 0 BY <2>2
  <2>4. /\ file = << >> \o SubSeq(file, 1, Len(file))
        /\ ToSet(SubSeq(file, 1, 0)) = {}
    BY <1>1 DEF ToSet
  <2>5. /\ file' = k \o SubSeq(file, n + 1, Len(file))
        /\ overrun' = overrun \cup (ToSet(SubSeq(file, 1, n)) \ flush[p].read)
    BY <1>2, <1>5, <2>1, <2>3, <2>4
  <2> QED BY <1>1, <1>2, <1>4, <2>1, <2>5, WriteKeeps
<1>6. CASE flush[p].kept # << >>
  <2>1. PICK n \in 0 .. Len(file) :
          /\ file' = k \o SubSeq(file, n + 1, Len(file))
          /\ overrun' = overrun \cup (ToSet(SubSeq(file, 1, n)) \ flush[p].read)
          /\ cut' \in {FALSE, cut}
    BY <1>2, <1>6 DEF FlushWrites, WriteOver, Unread
  <2>2. cut' \in BOOLEAN BY <1>1, <2>1
  <2> QED BY <1>1, <1>2, <1>4, <2>1, <2>2, WriteKeeps
<1> QED BY <1>5, <1>6

(* ... or the write fails after some of them.                               *)
LEMMA FlushWriteFailsKeeps ==
    ASSUME WalInv, NEW p \in Procs, FlushWriteFails(p)
    PROVE  WalInv' /\ KeepsEvents
<1>1. /\ flush[p].pc = "write" /\ flush' = [flush EXCEPT ![p] = NoFlush]
      /\ UNCHANGED <<up, copies, spilled, doubtful>>
      /\ flush[p].kept \in Seq(Line) /\ cut \in BOOLEAN /\ faults' \in Nat
  BY DEF FlushWriteFails, Fault, WalInv, WalTypeOK, FlushState
<1>2. PICK m \in 0 .. Len(flush[p].kept) - 1, n \in 0 .. Len(file) :
        /\ file' = SubSeq(flush[p].kept, 1, m) \o SubSeq(file, n + 1, Len(file))
        /\ overrun' = overrun \cup (ToSet(SubSeq(file, 1, n)) \ flush[p].read)
        /\ cut' \in (IF m = 0 THEN {cut, TRUE} ELSE BOOLEAN)
        /\ torn' = torn \cup EventsOf(SubSeq(flush[p].kept, m + 1, Len(flush[p].kept)))
  BY DEF FlushWriteFails, WriteOver, Unread
<1>3. cut' \in BOOLEAN BY <1>1, <1>2
<1>4. m \in 0 .. Len(flush[p].kept) BY <1>1, <1>2, LenProperties
<1>5. \A s \in Seq(Line) : \A i \in 0 .. Len(s) :
        /\ s = SubSeq(s, 1, i) \o SubSeq(s, i + 1, Len(s))
        /\ SubSeq(s, 1, i) \in Seq(Line) /\ SubSeq(s, i + 1, Len(s)) \in Seq(Line)
  BY ToSetCut
<1>6. PICK k \in Seq(Line) : k = SubSeq(flush[p].kept, 1, m) BY <1>1, <1>4, <1>5, Zenon
<1>7. PICK r \in Seq(Line) : r = SubSeq(flush[p].kept, m + 1, Len(flush[p].kept))
  BY <1>1, <1>4, <1>5, Zenon
<1>8. flush[p].kept = k \o r BY <1>1, <1>4, <1>5, <1>6, <1>7, Zenon
<1>9. /\ file' = k \o SubSeq(file, n + 1, Len(file))
      /\ torn' = torn \cup EventsOf(r)
  BY <1>2, <1>6, <1>7, Zenon
<1> QED BY <1>1, <1>2, <1>3, <1>8, <1>9, WriteKeeps

-----------------------------------------------------------------------------
(* Capture on one machine.                                                  *)

(* An event that a handler has stored or buffered, or whose hook has        *)
(* returned, is accounted for.                                              *)
Told == \A e \in Events : hook[e] \in {"answering", "done"} => Accounted(e)

(* Before that nobody else has the event either, unless it is doubtful.     *)
FirstHand ==
    \A e \in Events :
       hook[e] \in {"todo", "posting", "inserting", "buffering", "appending"} =>
          Untouched(e) \/ e \in doubtful

(* The inductive invariant behind the events' fate.                         *)
CaptureInv == TypeOK /\ WalInv /\ Told /\ FirstHand

-----------------------------------------------------------------------------

(* At first no hook has fired.                                              *)
LEMMA InitCapture ==
    Init => CaptureInv
<1> SUFFICES ASSUME Init PROVE CaptureInv
  OBVIOUS
<1>1. WalInv /\ \A e \in Events : Untouched(e) BY WalInitInv DEF Init
<1>2. AnyDaemon \in Procs BY LocalAssumption DEF AnyDaemon
<1>3. TypeOK BY <1>1, <1>2 DEF Init, TypeOK, WalInv, DaemonPhases, HookPhases
<1> QED BY <1>1, <1>3 DEF CaptureInv, Told, FirstHand, Init

(* A step that moves no hook and only rearranges what is accounted for.     *)
LEMMA QuietStep ==
    ASSUME CaptureInv, TypeOK', WalInv', KeepsEvents, hook' = hook
    PROVE  CaptureInv'
  BY DEF CaptureInv, Told, FirstHand, KeepsEvents

(* A step of one event's hook or request.                                   *)
LEMMA HookMoves ==
    ASSUME CaptureInv, TypeOK', WalInv', NEW e \in Events, NEW ph \in HookPhases,
           Step(e, ph),
           doubtful \subseteq doubtful',
           \A f \in Events : Accounted(f) => Accounted(f)',
           \A f \in Events \ {e} : Untouched(f) => Untouched(f)',
           ph \in {"answering", "done"} => Accounted(e)',
           ph \notin {"answering", "done"} => Untouched(e)' \/ e \in doubtful'
    PROVE  CaptureInv'
<1>1. hook \in [Events -> HookPhases] BY DEF CaptureInv, TypeOK
<1>2. hook'[e] = ph /\ \A f \in Events \ {e} : hook'[f] = hook[f] BY <1>1 DEF Step
<1>3. Told' BY <1>2 DEF CaptureInv, Told
<1>4. FirstHand'
  <2> SUFFICES ASSUME NEW f \in Events,
                      hook'[f] \in {"todo", "posting", "inserting", "buffering", "appending"}
               PROVE  Untouched(f)' \/ f \in doubtful'
    BY DEF FirstHand
  <2> QED BY <1>2 DEF CaptureInv, FirstHand
<1> QED BY <1>3, <1>4 DEF CaptureInv

(* A step of the store.                                                     *)
LEMMA StoreStepCapture ==
    ASSUME CaptureInv, StoreStep
    PROVE  CaptureInv'
<1>1. /\ UNCHANGED <<copies, file, cut, flush, overrun, torn, spilled, doubtful>>
      /\ up' \in BOOLEAN /\ faults' \in Nat /\ UNCHANGED localVars
  <2>1. faults \in Nat BY DEF CaptureInv, WalInv, WalTypeOK
  <2>2. faults' \in Nat BY <2>1 DEF StoreStep, StoreGoesDown, StoreComesBack, Fault
  <2>3. up' \in BOOLEAN BY DEF StoreStep, StoreGoesDown, StoreComesBack
  <2> QED BY <2>2, <2>3 DEF StoreStep, StoreGoesDown, StoreComesBack
<1>2. WalInv' /\ KeepsEvents BY <1>1, WalSame DEF CaptureInv
<1>3. TypeOK' BY <1>1, <1>2 DEF CaptureInv, TypeOK, WalInv, localVars
<1> QED BY <1>1, <1>2, <1>3, QuietStep DEF localVars

(* Nothing happens to the log or the store.                                 *)
LEMMA WalUnchanged ==
    ASSUME WalInv, UNCHANGED walVars
    PROVE  WalInv' /\ KeepsEvents
<1>1. /\ UNCHANGED <<copies, file, cut, flush, overrun, torn, spilled, doubtful>>
      /\ up' \in BOOLEAN /\ faults' \in Nat
  BY DEF walVars, WalInv, WalTypeOK
<1> QED BY <1>1, WalSame

(* A step of a hook script or of a request handler.                         *)
LEMMA HookStepCapture ==
    ASSUME CaptureInv, NEW e \in Events, HookStep(e)
    PROVE  CaptureInv'
<1>1. /\ WalInv /\ hook \in [Events -> HookPhases] /\ by \in [Events -> Procs]
      /\ daemon \in [Procs -> DaemonPhases] /\ crashes \in Nat /\ starts \in Nat
  BY DEF CaptureInv, TypeOK
<1>2. Stamped(e) \in Line /\ Raw(e) \in Line /\ Stamped(e).ev = e /\ Raw(e).ev = e
  BY DEF Stamped, Raw, Line
<1>3. ASSUME NEW ph \in HookPhases, Step(e, ph), UNCHANGED <<daemon, by, crashes, starts>>, WalInv'
      PROVE  TypeOK'
  BY <1>1, <1>3 DEF TypeOK, Step, WalInv
<1>4. CASE HookFires(e) \/ CurlFails(e)
  <2>1. PICK ph \in {"posting", "appending"} : Step(e, ph)
    BY <1>4 DEF HookFires, CurlFails
  <2>2. /\ hook[e] \in {"todo", "posting"}
        /\ UNCHANGED walVars /\ UNCHANGED <<daemon, by, crashes, starts>>
    BY <1>4 DEF HookFires, CurlFails
  <2>3. WalInv' /\ KeepsEvents BY <1>1, <2>2, WalUnchanged
  <2>4. Untouched(e)' \/ e \in doubtful'
    BY <2>2, <2>3 DEF CaptureInv, FirstHand, KeepsEvents
  <2>5. ph \in HookPhases /\ ph \notin {"answering", "done"} BY DEF HookPhases
  <2> QED BY <1>3, <2>1, <2>2, <2>3, <2>4, <2>5, HookMoves DEF KeepsEvents
<1>5. CASE HookAppends(e)
  <2>1. /\ hook[e] = "appending" /\ Step(e, "done")
        /\ UNCHANGED <<daemon, by, crashes, starts>>
    BY <1>5 DEF HookAppends
  <2>2. Untouched(e) \/ e \in doubtful BY <2>1 DEF CaptureInv, FirstHand
  <2>3. PICK l \in Line : l = Raw(e) BY <1>2
  <2>4. /\ WalInv' /\ doubtful \subseteq doubtful' /\ Accounted(e)'
        /\ \A f \in Events : Accounted(f) => Accounted(f)'
        /\ \A f \in Events \ {e} : Untouched(f) => Untouched(f)'
    <3>1. CASE WalAppend(Raw(e)) BY <1>1, <1>2, <2>2, <2>3, <3>1, AppendKeeps
    <3>2. CASE WalAppendFails(Raw(e))
      BY <1>1, <1>2, <2>3, <3>2, AppendFailsKeeps DEF KeepsEvents
    <3> QED BY <1>5, <3>1, <3>2 DEF HookAppends
  <2>5. "done" \in HookPhases BY DEF HookPhases
  <2> QED BY <1>3, <2>1, <2>4, <2>5, HookMoves
<1>6. CASE HandleInserts(e)
  <2>1. /\ hook[e] = "inserting" /\ InsertOK(Stamped(e)) /\ Step(e, "answering")
        /\ UNCHANGED <<up, file, cut, flush, overrun, torn, spilled, daemon, by, crashes, starts>>
    BY <1>6 DEF HandleInserts
  <2>2. Untouched(e) \/ e \in doubtful BY <2>1 DEF CaptureInv, FirstHand
  <2>3. /\ WalInv' /\ doubtful \subseteq doubtful' /\ Accounted(e)'
        /\ \A f \in Events : Accounted(f) => Accounted(f)'
        /\ \A f \in Events \ {e} : Untouched(f) => Untouched(f)'
    <3>1. PICK l \in Line : l = Stamped(e) BY <1>2
    <3>2. l.ev = e /\ InsertOK(l) BY <1>2, <2>1, <3>1
    <3>3. UNCHANGED <<up, file, cut, flush, overrun, torn, spilled>> BY <2>1
    <3> QED BY <1>1, <2>2, <3>2, <3>3, InsertKeeps
  <2>4. "answering" \in HookPhases BY DEF HookPhases
  <2> QED BY <1>3, <2>1, <2>3, <2>4, HookMoves
<1>7. CASE HandleInsertFails(e)
  <2>1. /\ hook[e] = "inserting" /\ Step(e, "buffering")
        /\ UNCHANGED <<up, file, cut, flush, overrun, torn, spilled, daemon, by, crashes, starts>>
    BY <1>7 DEF HandleInsertFails
  <2>2. Untouched(e) \/ e \in doubtful BY <2>1 DEF CaptureInv, FirstHand
  <2>3. "buffering" \in HookPhases BY DEF HookPhases
  <2>4. CASE InsertFails(Stamped(e))
    <3>1. UNCHANGED walVars BY <2>1, <2>4 DEF InsertFails, walVars
    <3>2. WalInv' /\ KeepsEvents BY <1>1, <3>1, WalUnchanged
    <3>3. Untouched(e)' \/ e \in doubtful' BY <2>2, <3>2 DEF KeepsEvents
    <3> QED BY <1>3, <2>1, <2>3, <3>2, <3>3, HookMoves DEF KeepsEvents
  <2>5. CASE InsertUncertain(Stamped(e))
    <3>1. /\ WalInv' /\ doubtful \subseteq doubtful' /\ e \in doubtful'
          /\ \A f \in Events : Accounted(f) => Accounted(f)'
          /\ \A f \in Events \ {e} : Untouched(f) => Untouched(f)'
      <4>1. PICK l \in Line : l = Stamped(e) BY <1>2
      <4>2. l.ev = e /\ InsertUncertain(l) BY <1>2, <2>5, <4>1
      <4>3. UNCHANGED <<up, file, cut, flush, overrun, torn, spilled>> BY <2>1
      <4> QED BY <1>1, <2>2, <4>2, <4>3, InsertKeeps
    <3> QED BY <1>3, <2>1, <2>3, <3>1, HookMoves
  <2> QED BY <1>7, <2>4, <2>5 DEF HandleInsertFails
<1>8. CASE HandleBuffers(e)
  <2>1. /\ hook[e] = "buffering" /\ Step(e, "answering")
        /\ UNCHANGED <<daemon, by, crashes, starts>>
    BY <1>8 DEF HandleBuffers
  <2>2. Untouched(e) \/ e \in doubtful BY <2>1 DEF CaptureInv, FirstHand
  <2>3. "answering" \in HookPhases BY DEF HookPhases
  <2>4. PICK l \in Line : l = Stamped(e) BY <1>2
  <2>5. /\ WalInv' /\ doubtful \subseteq doubtful' /\ Accounted(e)'
        /\ \A f \in Events : Accounted(f) => Accounted(f)'
        /\ \A f \in Events \ {e} : Untouched(f) => Untouched(f)'
    <3>1. CASE WalAppend(Stamped(e)) BY <1>1, <1>2, <2>2, <2>4, <3>1, AppendKeeps
    <3>2. CASE WalAppendFails(Stamped(e))
      BY <1>1, <1>2, <2>4, <3>2, AppendFailsKeeps DEF KeepsEvents
    <3> QED BY <1>8, <3>1, <3>2 DEF HandleBuffers
  <2> QED BY <1>3, <2>1, <2>3, <2>5, HookMoves
<1>9. CASE Answer(e)
  <2>1. /\ hook[e] = "answering" /\ Step(e, "done") /\ by' = [by EXCEPT ![e] = AnyDaemon]
        /\ UNCHANGED <<walVars, daemon, crashes, starts>>
    BY <1>9 DEF Answer
  <2>2. WalInv' /\ KeepsEvents BY <1>1, <2>1, WalUnchanged
  <2>3. AnyDaemon \in Procs BY LocalAssumption DEF AnyDaemon
  <2>4. "done" \in HookPhases BY DEF HookPhases
  <2>5. TypeOK' BY <1>1, <2>1, <2>2, <2>3, <2>4 DEF TypeOK, Step, WalInv
  <2>6. Accounted(e)' BY <2>1, <2>2 DEF CaptureInv, Told, KeepsEvents
  <2> QED BY <2>1, <2>2, <2>4, <2>5, <2>6, HookMoves DEF KeepsEvents
<1> QED BY <1>4, <1>5, <1>6, <1>7, <1>8, <1>9 DEF HookStep

(* Daemon d is gone: what it was handling falls back to the hook scripts,   *)
(* and what it had stored and not acknowledged becomes doubtful.            *)
LEMMA GoneCapture ==
    ASSUME CaptureInv, NEW d \in Procs, Gone(d), crashes' \in Nat
    PROVE  CaptureInv'
<1> DEFINE inHand == {e \in Events : by[e] = d /\ hook[e] \in InHandler}
           es == {e \in inHand : hook[e] = "answering"}
<1>1. /\ daemon' = [daemon EXCEPT ![d] = "off"]
      /\ hook' = [e \in Events |-> IF e \in inHand THEN "appending" ELSE hook[e]]
      /\ by' = [e \in Events |-> IF e \in inHand THEN AnyDaemon ELSE by[e]]
      /\ WalCrash(d, es)
      /\ starts' = starts
  BY DEF Gone
<1>2. PICK s \in SUBSET Events : s = es OBVIOUS
<1>3. WalInv' /\ KeepsEvents /\ s \subseteq doubtful'
  BY <1>1, <1>2, CrashKeeps DEF CaptureInv
<1>4. AnyDaemon \in Procs BY LocalAssumption DEF AnyDaemon
<1>5. TypeOK'
  BY <1>1, <1>3, <1>4 DEF CaptureInv, TypeOK, WalInv, DaemonPhases, HookPhases
<1>6. Told' BY <1>1, <1>3 DEF CaptureInv, Told, KeepsEvents
<1>7. FirstHand'
  <2> SUFFICES ASSUME NEW e \in Events,
                      hook'[e] \in {"todo", "posting", "inserting", "buffering", "appending"}
               PROVE  Untouched(e)' \/ e \in doubtful'
    BY DEF FirstHand
  <2>1. CASE e \in es BY <1>2, <1>3, <2>1
  <2>2. CASE e \notin es
    <3>1. hook[e] \in {"todo", "posting", "inserting", "buffering", "appending"}
      BY <1>1, <2>2 DEF InHandler
    <3> QED BY <1>3, <3>1 DEF CaptureInv, FirstHand, KeepsEvents
  <2> QED BY <2>1, <2>2
<1> QED BY <1>3, <1>5, <1>6, <1>7 DEF CaptureInv

(* A step of a daemon.                                                      *)
LEMMA DaemonStepCapture ==
    ASSUME CaptureInv, NEW d \in Procs, DaemonStep(d)
    PROVE  CaptureInv'
<1>1. /\ WalInv /\ hook \in [Events -> HookPhases] /\ by \in [Events -> Procs]
      /\ daemon \in [Procs -> DaemonPhases] /\ crashes \in Nat /\ starts \in Nat
  BY DEF CaptureInv, TypeOK
<1>2. ASSUME NEW ph \in DaemonPhases, daemon' = [daemon EXCEPT ![d] = ph],
             UNCHANGED <<hook, by, crashes>>, starts' \in Nat,
             UNCHANGED walVars \/ FlushRead(d)
      PROVE  CaptureInv'
  <2>1. WalInv' /\ KeepsEvents BY <1>1, <1>2, WalUnchanged, FlushReadKeeps
  <2>2. TypeOK' BY <1>1, <1>2, <2>1 DEF TypeOK, WalInv
  <2> QED BY <1>2, <2>1, <2>2, QuietStep
<1>3. CASE Start(d)
  <2>1. /\ daemon' = [daemon EXCEPT ![d] = "starting"] /\ starts' = starts + 1
        /\ UNCHANGED <<hook, by, crashes>> /\ (UNCHANGED walVars \/ FlushRead(d))
    BY <1>3 DEF Start
  <2>2. "starting" \in DaemonPhases BY DEF DaemonPhases
  <2>3. starts' \in Nat BY <1>1, <2>1
  <2> QED BY <1>2, <2>1, <2>2, <2>3
<1>4. CASE Serve(d)
  <2>1. "serving" \in DaemonPhases BY DEF DaemonPhases
  <2> QED BY <1>1, <1>2, <1>4, <2>1 DEF Serve
<1>5. CASE Shutdown(d)
  <2>1. "closing" \in DaemonPhases BY DEF DaemonPhases
  <2> QED BY <1>1, <1>2, <1>5, <2>1 DEF Shutdown
<1>6. CASE FlushTick(d) \/ FlushStep(d)
  <2>1. UNCHANGED localVars BY <1>6 DEF FlushTick, FlushStep
  <2>2. ASSUME NEW c, FlushTimesOut(d, c) PROVE WalInv' /\ KeepsEvents
    BY <1>1, <2>2, FlushTimesOutKeeps
  <2>3. \/ FlushRead(d) \/ FlushInserts(d) \/ FlushKeeps(d) \/ (\E c \in BOOLEAN : FlushTimesOut(d, c))
        \/ FlushTruncates(d) \/ FlushOpenFails(d) \/ FlushWrites(d) \/ FlushWriteFails(d)
    BY <1>6 DEF FlushTick, FlushStep, FlushTimesOut
  <2>4. WalInv' /\ KeepsEvents
    BY <1>1, <2>2, <2>3, FlushReadKeeps, FlushInsertsKeeps, FlushKeepsKeeps,
       FlushTruncatesKeeps, FlushOpenFailsKeeps, FlushWritesKeeps, FlushWriteFailsKeeps
  <2>5. TypeOK' BY <1>1, <2>1, <2>4 DEF TypeOK, WalInv, localVars
  <2> QED BY <2>1, <2>4, <2>5, QuietStep DEF localVars
<1>7. CASE Exit(d) BY <1>1, <1>7, GoneCapture DEF Exit
<1>8. CASE Crash(d)
  <2>1. crashes' \in Nat BY <1>1, <1>8 DEF Crash
  <2> QED BY <1>8, <2>1, GoneCapture DEF Crash
<1>9. ASSUME NEW e \in Events, Accept(d, e) PROVE CaptureInv'
  <2>1. /\ hook[e] = "posting" /\ Step(e, "inserting") /\ by' = [by EXCEPT ![e] = d]
        /\ UNCHANGED <<walVars, daemon, crashes, starts>>
    BY <1>9 DEF Accept
  <2>2. WalInv' /\ KeepsEvents BY <1>1, <2>1, WalUnchanged
  <2>3. "inserting" \in HookPhases BY DEF HookPhases
  <2>4. TypeOK' BY <1>1, <2>1, <2>2, <2>3 DEF TypeOK, Step, WalInv
  <2>5. Untouched(e)' \/ e \in doubtful'
    BY <2>1, <2>2 DEF CaptureInv, FirstHand, KeepsEvents
  <2> QED BY <2>1, <2>2, <2>3, <2>4, <2>5, HookMoves DEF KeepsEvents
<1> QED BY <1>3, <1>4, <1>5, <1>6, <1>7, <1>8, <1>9 DEF DaemonStep

(* Every step keeps the invariant.                                          *)
LEMMA NextCapture ==
    CaptureInv /\ [Next]_vars => CaptureInv'
<1> SUFFICES ASSUME CaptureInv, [Next]_vars PROVE CaptureInv'
  OBVIOUS
<1>1. CASE UNCHANGED vars
  <2>1. UNCHANGED walVars /\ UNCHANGED localVars BY <1>1 DEF vars
  <2>2. WalInv' /\ KeepsEvents BY <2>1, WalUnchanged DEF CaptureInv
  <2>3. TypeOK' BY <2>1, <2>2 DEF CaptureInv, TypeOK, WalInv, localVars
  <2> QED BY <2>1, <2>2, <2>3, QuietStep DEF localVars
<1>2. CASE StoreStep BY <1>2, StoreStepCapture
<1>3. ASSUME NEW e \in Events, HookStep(e) PROVE CaptureInv' BY <1>3, HookStepCapture
<1>4. ASSUME NEW d \in Procs, DaemonStep(d) PROVE CaptureInv' BY <1>4, DaemonStepCapture
<1> QED BY <1>1, <1>2, <1>3, <1>4 DEF Next

(* The invariant holds in every state of every capture.                     *)
THEOREM CaptureInvariance == Spec => []CaptureInv
  BY InitCapture, NextCapture, PTL DEF Spec

(* Every variable of the daemon, the hooks and the log keeps its type.      *)
THEOREM CaptureTypes == Spec => []TypeOK
<1>1. CaptureInv => TypeOK BY DEF CaptureInv
<1> QED BY <1>1, CaptureInvariance, PTL

(* However many hooks, daemons, crashes and store outages there are: an     *)
(* event whose hook has returned is stored, in the log or in the hands of a *)
(* flush that writes it back, but for the known windows.                    *)
THEOREM NoSilentLoss == Spec => []LostOnlyInKnownWindows
<1>1. CaptureInv => LostOnlyInKnownWindows
  BY DEF CaptureInv, Told, LostOnlyInKnownWindows, Accounted, Excused
<1> QED BY <1>1, CaptureInvariance, PTL

(* Replaying the log stores no event twice, except one that somebody        *)
(* stored without being able to know it.                                    *)
THEOREM ReplayNeverDuplicates == Spec => []OnceUnlessDoubtful
<1>1. ASSUME CaptureInv PROVE OnceUnlessDoubtful
  <2> SUFFICES ASSUME NEW e \in Events, CopiesOf(e) > 1, e \notin doubtful PROVE FALSE
    BY DEF OnceUnlessDoubtful
  <2>1. CopiesOf(e) \in Nat /\ CopiesOf(e) <= 1
    BY <1>1, CopiesNat DEF CaptureInv, WalInv, OnceInv, OnceFor
  <2> QED BY <2>1
<1> QED BY <1>1, CaptureInvariance, PTL

-----------------------------------------------------------------------------
(* The daemon's own lines.                                                  *)

(* Only a daemon that runs flushes or handles requests.                     *)
Running ==
    /\ starts = 0 => \A d \in Procs : daemon[d] = "off"
    /\ \A d \in Procs : daemon[d] = "off" => flush[d].pc = "none"
    /\ \A e \in Events : hook[e] \in InHandler => daemon[by[e]] # "off"

(* While the first daemon is the only one there was: it is alone, a flush   *)
(* has read every line a handler appended, and none of those was wiped.     *)
Alone ==
    starts <= 1 =>
       /\ \A l \in overrun : ~ l.stamped
       /\ \A p, q \in Procs : daemon[p] # "off" /\ daemon[q] # "off" => p = q
       /\ \A p \in Procs : flush[p].pc # "none" =>
             \A l \in ToSet(file) : l.stamped => l \in flush[p].read

OwnInv == Running /\ Alone

(* The steps of a flush under way, with the daemons and hooks as they are.  *)
LEMMA FlushStepOwn ==
    ASSUME CaptureInv, OwnInv, NEW d \in Procs, FlushStep(d)
    PROVE  OwnInv'
<1>1. flush \in [Procs -> FlushState] BY DEF CaptureInv, WalInv, WalTypeOK
<1>2. UNCHANGED <<daemon, hook, by, starts>> BY DEF FlushStep, localVars
<1>3. flush[d].pc # "none" /\ daemon[d] # "off"
  BY DEF FlushStep, FlushInserts, FlushKeeps, FlushTimesOut, FlushTruncates, FlushOpenFails,
         FlushWrites, FlushWriteFails, OwnInv, Running
<1>4. CASE UNCHANGED <<file, overrun>> /\ flush'[d].pc = flush[d].pc
           /\ flush'[d].read = flush[d].read /\ \A q \in Procs : q # d => flush'[q] = flush[q]
  BY <1>2, <1>4 DEF OwnInv, Running, Alone
<1>5. CASE FlushInserts(d) \/ FlushKeeps(d) \/ \E c \in BOOLEAN : FlushTimesOut(d, c)
  <2>1. /\ UNCHANGED <<file, overrun>> /\ flush'[d].pc = flush[d].pc
        /\ flush'[d].read = flush[d].read /\ \A q \in Procs : q # d => flush'[q] = flush[q]
    BY <1>1, <1>5 DEF FlushInserts, FlushKeeps, FlushTimesOut, FlushState
  <2> QED BY <1>4, <2>1
<1>6. CASE FlushTruncates(d)
  <2>1. /\ file' = << >> /\ overrun' = overrun \cup (ToSet(file) \ flush[d].read)
        /\ \A q \in Procs : q # d => flush'[q] = flush[q]
    BY <1>1, <1>6 DEF FlushTruncates, Unread
  <2>2. ToSet(<< >>) = {} BY DEF ToSet
  <2>3. starts <= 1 => \A l \in overrun' : ~ l.stamped
    BY <1>3, <2>1 DEF OwnInv, Alone
  <2> QED BY <1>2, <1>3, <2>1, <2>2, <2>3 DEF OwnInv, Running, Alone
<1>7. CASE FlushWrites(d) \/ FlushWriteFails(d)
  <2>1. flush'[d] = NoFlush /\ \A q \in Procs : q # d => flush'[q] = flush[q]
    BY <1>1, <1>7 DEF FlushWrites, FlushWriteFails
  <2>2. overrun' \subseteq overrun \cup (ToSet(file) \ flush[d].read)
    <3>1. CASE UNCHANGED overrun BY <3>1
    <3>2. CASE ~ UNCHANGED overrun
      <4>1. PICK n \in 0 .. Len(file) :
              overrun' = overrun \cup (ToSet(SubSeq(file, 1, n)) \ flush[d].read)
        <5>1. CASE FlushWrites(d) BY <3>2, <5>1 DEF FlushWrites, WriteOver, Unread
        <5>2. CASE FlushWriteFails(d) BY <5>2 DEF FlushWriteFails, WriteOver, Unread
        <5> QED BY <1>7, <5>1, <5>2
      <4>2. file \in Seq(Line) BY DEF CaptureInv, WalInv, WalTypeOK
      <4>3. \A s \in Seq(Line) : \A i \in 0 .. Len(s) : ToSet(SubSeq(s, 1, i)) \subseteq ToSet(s)
        <5> SUFFICES ASSUME NEW s \in Seq(Line), NEW i \in 0 .. Len(s)
                     PROVE  ToSet(SubSeq(s, 1, i)) \subseteq ToSet(s)
          OBVIOUS
        <5>1. ToSet(s) = ToSet(SubSeq(s, 1, i)) \cup ToSet(SubSeq(s, i + 1, Len(s)))
          BY ToSetCut
        <5> QED BY <5>1, Zenon
      <4>4. ToSet(SubSeq(file, 1, n)) \subseteq ToSet(file) BY <4>2, <4>3, Zenon
      <4> QED BY <4>1, <4>4, Zenon
    <3> QED BY <3>1, <3>2
  <2>3. starts <= 1 => \A l \in overrun' : ~ l.stamped
    BY <1>3, <2>2 DEF OwnInv, Alone
  <2>4. starts <= 1 => \A q \in Procs : flush'[q].pc = "none"
    BY <1>3, <2>1 DEF OwnInv, Alone, Running, NoFlush
  <2>5. Running' BY <1>2, <2>1 DEF OwnInv, Running, NoFlush
  <2> QED BY <1>2, <2>3, <2>4, <2>5 DEF OwnInv, Alone
<1>8. CASE FlushOpenFails(d)
  <2>1. /\ flush'[d] = NoFlush /\ UNCHANGED <<file, overrun>>
        /\ \A q \in Procs : q # d => flush'[q] = flush[q]
    BY <1>1, <1>8 DEF FlushOpenFails
  <2> QED BY <1>2, <2>1 DEF OwnInv, Running, Alone, NoFlush
<1> QED BY <1>5, <1>6, <1>7, <1>8 DEF FlushStep, FlushTimesOut

(* A process starts to flush.                                               *)
LEMMA FlushReadOwn ==
    ASSUME CaptureInv, NEW d \in Procs, FlushRead(d) \/ UNCHANGED walVars
    PROVE  /\ UNCHANGED <<file, overrun>>
           /\ \A q \in Procs : q # d => flush'[q] = flush[q]
           /\ flush'[d] = flush[d] \/ flush'[d].read = ToSet(file)
<1>1. flush \in [Procs -> FlushState] BY DEF CaptureInv, WalInv, WalTypeOK
<1> QED BY <1>1 DEF FlushRead, walVars

(* A daemon starts, serves or is told to stop.                              *)
LEMMA LifeOwn ==
    ASSUME CaptureInv, OwnInv, NEW d \in Procs,
           Start(d) \/ Serve(d) \/ Shutdown(d) \/ FlushTick(d)
    PROVE  OwnInv'
<1>1. /\ daemon \in [Procs -> DaemonPhases] /\ by \in [Events -> Procs]
      /\ starts \in Nat /\ UNCHANGED <<hook, by>>
  BY DEF CaptureInv, TypeOK, Start, Serve, Shutdown, FlushTick, localVars
<1>2. FlushRead(d) \/ UNCHANGED walVars BY DEF Start, Serve, Shutdown, FlushTick
<1>3. /\ UNCHANGED <<file, overrun>>
      /\ \A q \in Procs : q # d => flush'[q] = flush[q]
      /\ flush'[d] = flush[d] \/ flush'[d].read = ToSet(file)
  BY <1>2, FlushReadOwn
<1>4. daemon'[d] # "off" /\ \A q \in Procs : q # d => daemon'[q] = daemon[q]
  BY <1>1 DEF Start, Serve, Shutdown, FlushTick, localVars
<1>7. \A e \in Events : hook'[e] \in InHandler => daemon'[by'[e]] # "off"
  BY <1>1, <1>4 DEF OwnInv, Running
<1>8. \A q \in Procs : daemon'[q] = "off" => flush'[q].pc = "none"
  BY <1>3, <1>4 DEF OwnInv, Running
<1>5. CASE Start(d)
  <2>1. starts' = starts + 1 BY <1>5 DEF Start
  <2>2. starts' <= 1 => \A q \in Procs : daemon[q] = "off" /\ flush[q].pc = "none"
    BY <1>1, <2>1 DEF OwnInv, Running
  <2>3. Running' BY <1>1, <1>7, <1>8, <2>1 DEF Running
  <2>4. Alone'
    <3> SUFFICES ASSUME starts' <= 1
                 PROVE  /\ \A l \in overrun : ~ l.stamped
                        /\ \A p, q \in Procs : daemon'[p] # "off" /\ daemon'[q] # "off" => p = q
                        /\ \A p \in Procs : flush'[p].pc # "none" =>
                              \A l \in ToSet(file) : l.stamped => l \in flush'[p].read
      BY <1>3 DEF Alone
    <3>1. \A q \in Procs : q # d => daemon'[q] = "off" /\ flush'[q].pc = "none"
      BY <1>3, <1>4, <2>2
    <3>2. \A l \in overrun : ~ l.stamped BY <1>1, <2>1 DEF OwnInv, Alone
    <3>3. flush'[d].pc # "none" => flush'[d].read = ToSet(file) BY <1>3, <2>2
    <3> QED BY <3>1, <3>2, <3>3
  <2> QED BY <2>3, <2>4 DEF OwnInv
<1>6. CASE Serve(d) \/ Shutdown(d) \/ FlushTick(d)
  <2>1. starts' = starts /\ daemon[d] # "off"
    BY <1>6 DEF Serve, Shutdown, FlushTick, localVars
  <2>2. Running' BY <1>4, <1>7, <1>8, <2>1 DEF OwnInv, Running
  <2>3. \A q \in Procs : daemon'[q] # "off" => daemon[q] # "off" BY <1>4, <2>1
  <2>4. Alone' BY <1>3, <2>1, <2>3 DEF OwnInv, Alone
  <2> QED BY <2>2, <2>4 DEF OwnInv
<1> QED BY <1>5, <1>6

(* A daemon is gone, and its flush and its requests with it.                *)
LEMMA GoneOwn ==
    ASSUME CaptureInv, OwnInv, NEW d \in Procs, Gone(d)
    PROVE  OwnInv'
<1>1. /\ daemon \in [Procs -> DaemonPhases] /\ flush \in [Procs -> FlushState]
      /\ hook \in [Events -> HookPhases] /\ by \in [Events -> Procs]
  BY DEF CaptureInv, TypeOK, WalInv, WalTypeOK
<1>2. /\ flush' = [flush EXCEPT ![d] = NoFlush] /\ UNCHANGED <<file, overrun, starts>>
      /\ daemon' = [daemon EXCEPT ![d] = "off"]
  BY DEF Gone, WalCrash
<1>3. /\ flush'[d].pc = "none" /\ daemon'[d] = "off"
      /\ \A q \in Procs : q # d => flush'[q] = flush[q] /\ daemon'[q] = daemon[q]
  BY <1>1, <1>2 DEF NoFlush
<1>4. \A e \in Events : hook'[e] \in InHandler =>
         hook[e] \in InHandler /\ by[e] # d /\ by'[e] = by[e]
  BY DEF Gone, InHandler
<1>5. Running'
  <2>1. \A e \in Events : hook'[e] \in InHandler => daemon'[by'[e]] # "off"
    BY <1>1, <1>3, <1>4 DEF OwnInv, Running
  <2> QED BY <1>2, <1>3, <2>1 DEF OwnInv, Running
<1>6. Alone' BY <1>2, <1>3 DEF OwnInv, Alone
<1> QED BY <1>5, <1>6 DEF OwnInv

(* A hook script's line is not stamped; a handler appends its own only      *)
(* while its daemon, the one there is, does not flush.                      *)
LEMMA HookStepOwn ==
    ASSUME CaptureInv, OwnInv, NEW e \in Events, HookStep(e)
    PROVE  OwnInv'
<1>1. /\ hook \in [Events -> HookPhases] /\ by \in [Events -> Procs]
      /\ file \in Seq(Line) /\ AnyDaemon \in Procs
  BY LocalAssumption DEF CaptureInv, TypeOK, WalInv, WalTypeOK, AnyDaemon
<1>2. UNCHANGED <<daemon, starts, flush, overrun>>
  BY DEF HookStep, HookFires, CurlFails, HookAppends, HandleInserts, HandleInsertFails,
         HandleBuffers, Answer, WalAppend, WalAppendFails, walVars
<1>3. \A f \in Events : hook'[f] \in InHandler => hook[f] \in InHandler /\ by'[f] = by[f]
  BY <1>1 DEF HookStep, HookFires, CurlFails, HookAppends, HandleInserts, HandleInsertFails,
              HandleBuffers, Answer, Step, InHandler
<1>4. Running' BY <1>2, <1>3 DEF OwnInv, Running
<1>5. Stamped(e) \in Line /\ Raw(e) \in Line /\ ~ Raw(e).stamped
  BY DEF Stamped, Raw, Line
<1>6. Alone'
  <2>1. CASE HookAppends(e) /\ ~ UNCHANGED file
    <3>1. file' = Append(file, Raw(e)) BY <2>1 DEF HookAppends, WalAppend, WalAppendFails
    <3>2. \A s \in Seq(Line), l \in Line : ToSet(Append(s, l)) = ToSet(s) \cup {l}
      BY ToSetAppend
    <3>3. ToSet(file') = ToSet(file) \cup {Raw(e)} BY <1>1, <1>5, <3>1, <3>2, Zenon
    <3> QED BY <1>2, <1>5, <3>3 DEF OwnInv, Alone
  <2>2. CASE HandleBuffers(e) /\ WalAppend(Stamped(e))
    <3>1. hook[e] \in InHandler /\ flush[by[e]].pc = "none" /\ by[e] \in Procs
      BY <1>1, <2>2 DEF HandleBuffers, InHandler, WalMuFree
    <3>2. starts <= 1 => \A p \in Procs : flush[p].pc = "none"
      BY <3>1 DEF OwnInv, Running, Alone
    <3> QED BY <1>2, <3>2 DEF OwnInv, Alone
  <2>3. CASE UNCHANGED file BY <1>2, <2>3 DEF OwnInv, Alone
  <2> QED BY <2>1, <2>2, <2>3
       DEF HookStep, HookFires, CurlFails, HookAppends, HandleInserts, HandleInsertFails,
           HandleBuffers, Answer, WalAppendFails, walVars
<1> QED BY <1>4, <1>6 DEF OwnInv

(* Every step keeps the invariant.                                          *)
LEMMA NextOwn ==
    CaptureInv /\ OwnInv /\ [Next]_vars => OwnInv'
<1> SUFFICES ASSUME CaptureInv, OwnInv, [Next]_vars PROVE OwnInv'
  OBVIOUS
<1>1. CASE UNCHANGED vars \/ StoreStep
  BY <1>1 DEF StoreStep, StoreGoesDown, StoreComesBack, vars, walVars, localVars,
              OwnInv, Running, Alone
<1>2. ASSUME NEW e \in Events, HookStep(e) PROVE OwnInv' BY <1>2, HookStepOwn
<1>3. ASSUME NEW d \in Procs, DaemonStep(d) PROVE OwnInv'
  <2>1. CASE Start(d) \/ Serve(d) \/ Shutdown(d) \/ FlushTick(d) BY <2>1, LifeOwn
  <2>2. CASE FlushStep(d) BY <2>2, FlushStepOwn
  <2>3. CASE Exit(d) \/ Crash(d) BY <2>3, GoneOwn DEF Exit, Crash
  <2>4. ASSUME NEW e \in Events, Accept(d, e) PROVE OwnInv'
    <3>1. /\ hook' = [hook EXCEPT ![e] = "inserting"] /\ by' = [by EXCEPT ![e] = d]
          /\ UNCHANGED <<file, cut, flush, overrun, daemon, starts>> /\ daemon[d] # "off"
      BY <2>4 DEF Accept, Step, walVars
    <3>2. hook \in [Events -> HookPhases] /\ by \in [Events -> Procs]
      BY DEF CaptureInv, TypeOK
    <3>3. \A f \in Events : hook'[f] \in InHandler => daemon'[by'[f]] # "off"
      BY <3>1, <3>2 DEF OwnInv, Running
    <3> QED BY <3>1, <3>3 DEF OwnInv, Running, Alone
  <2> QED BY <1>3, <2>1, <2>2, <2>3, <2>4 DEF DaemonStep
<1> QED BY <1>1, <1>2, <1>3 DEF Next

(* walMu does what it is there for: as long as a single daemon has run, a   *)
(* flush wipes no line that the daemon's own handlers appended, however the *)
(* handlers, the flush and the hook scripts interleave.                     *)
THEOREM OwnLinesSafe == Spec => []OwnLinesNeverOverrun
<1>1. Init => OwnInv
  BY DEF Init, WalInit, OwnInv, Running, Alone, NoFlush, InHandler
<1>2. ASSUME CaptureInv, OwnInv PROVE OwnLinesNeverOverrun
  <2>1. starts \in Nat BY <1>2 DEF CaptureInv, TypeOK
  <2> QED BY <1>2, <2>1 DEF OwnInv, Alone, OwnLinesNeverOverrun
<1> QED BY <1>1, <1>2, NextOwn, CaptureInvariance, PTL DEF Spec

-----------------------------------------------------------------------------
(* Capture with a server.                                                   *)

(* A relay that got as far as storing or buffering its event left it        *)
(* accounted for, ...                                                       *)
RelayTold == \A e \in Events : relay[e] \in {"caughtUp", "flushing", "done"} => Accounted(e)

(* ... and before that nobody else has it.                                  *)
RelayFirstHand ==
    \A e \in Events :
       relay[e] \in {"todo", "inserting", "buffering"} => Untouched(e) \/ e \in doubtful

(* The inductive invariant.                                                 *)
RelayInv == RelayTypeOK /\ WalInv /\ RelayTold /\ RelayFirstHand

-----------------------------------------------------------------------------

(* At first no relay has started.                                           *)
LEMMA InitRelay ==
    RelayInit => RelayInv
<1> SUFFICES ASSUME RelayInit PROVE RelayInv
  OBVIOUS
<1>1. WalInv /\ \A e \in Events : Untouched(e) BY WalInitInv DEF RelayInit
<1>2. RelayTypeOK BY <1>1 DEF RelayInit, RelayTypeOK, WalInv, RelayPhases
<1> QED BY <1>1, <1>2 DEF RelayInv, RelayTold, RelayFirstHand, RelayInit

(* A step of one relay, with what it may do to its own event.               *)
LEMMA RelayMoves ==
    ASSUME RelayInv, WalInv', NEW e \in Events, NEW ph \in RelayPhases,
           relay' = [relay EXCEPT ![e] = ph], kills' \in Nat,
           doubtful \subseteq doubtful',
           \A f \in Events : Accounted(f) => Accounted(f)',
           \A f \in Events \ {e} : Untouched(f) => Untouched(f)',
           ph \in {"caughtUp", "flushing", "done"} => Accounted(e)',
           ph \in {"todo", "inserting", "buffering"} => Untouched(e)' \/ e \in doubtful'
    PROVE  RelayInv'
<1>1. relay \in [Events -> RelayPhases] BY DEF RelayInv, RelayTypeOK
<1>2. relay'[e] = ph /\ \A f \in Events \ {e} : relay'[f] = relay[f] BY <1>1
<1>3. RelayTypeOK' BY <1>1 DEF RelayTypeOK, WalInv
<1>4. RelayTold' BY <1>2 DEF RelayInv, RelayTold
<1>5. RelayFirstHand'
  <2> SUFFICES ASSUME NEW f \in Events, relay'[f] \in {"todo", "inserting", "buffering"}
               PROVE  Untouched(f)' \/ f \in doubtful'
    BY DEF RelayFirstHand
  <2> QED BY <1>2 DEF RelayInv, RelayFirstHand
<1> QED BY <1>3, <1>4, <1>5 DEF RelayInv

(* A step in which no relay moves on.                                       *)
LEMMA RelayQuiet ==
    ASSUME RelayInv, WalInv', KeepsEvents, UNCHANGED relayOwn
    PROVE  RelayInv'
<1>1. UNCHANGED <<relay, kills>> BY DEF relayOwn
<1>2. RelayTypeOK' BY <1>1 DEF RelayInv, RelayTypeOK, WalInv
<1> QED BY <1>1, <1>2 DEF RelayInv, RelayTold, RelayFirstHand, KeepsEvents

(* A step of the store.                                                     *)
LEMMA StoreStepRelay ==
    ASSUME RelayInv, RelayStoreStep
    PROVE  RelayInv'
<1>1. /\ UNCHANGED <<copies, file, cut, flush, overrun, torn, spilled, doubtful>>
      /\ up' \in BOOLEAN /\ faults' \in Nat /\ UNCHANGED relayOwn
  <2>1. faults \in Nat BY DEF RelayInv, WalInv, WalTypeOK
  <2>2. faults' \in Nat BY <2>1 DEF RelayStoreStep, StoreGoesDown, StoreComesBack, Fault
  <2>3. up' \in BOOLEAN BY DEF RelayStoreStep, StoreGoesDown, StoreComesBack
  <2> QED BY <2>2, <2>3 DEF RelayStoreStep, StoreGoesDown, StoreComesBack
<1>2. WalInv' /\ KeepsEvents BY <1>1, WalSame DEF RelayInv
<1> QED BY <1>1, <1>2, RelayQuiet

(* Handle, in the relay of event e.                                         *)
LEMMA HandleRelay ==
    ASSUME RelayInv, NEW e \in Events,
           \/ RelayStarts(e) \/ RelayCannotOpen(e)
           \/ RelayInserts(e) \/ RelayInsertFails(e) \/ RelayBuffers(e)
    PROVE  RelayInv'
<1>1. WalInv /\ kills \in Nat BY DEF RelayInv, RelayTypeOK
<1>2. PICK l \in Line : l = Stamped(e) /\ l.ev = e
  <2>1. Stamped(e) \in Line /\ Stamped(e).ev = e BY DEF Stamped, Line
  <2> QED BY <2>1
<1>3. relay[e] \in {"todo", "inserting", "buffering"} /\ kills' \in Nat
  BY <1>1 DEF RelayStarts, RelayCannotOpen, RelayInserts, RelayInsertFails, RelayBuffers, RelayGoes
<1>4. Untouched(e) \/ e \in doubtful BY <1>3 DEF RelayInv, RelayFirstHand
<1>5. CASE RelayStarts(e)
  <2>1. relay' = [relay EXCEPT ![e] = "inserting"] /\ UNCHANGED walVars
    BY <1>5 DEF RelayStarts, RelayGoes
  <2>2. WalInv' /\ KeepsEvents BY <1>1, <2>1, WalUnchanged
  <2>3. Untouched(e)' \/ e \in doubtful' BY <1>4, <2>2 DEF KeepsEvents
  <2>4. "inserting" \in RelayPhases BY DEF RelayPhases
  <2> QED BY <1>3, <2>1, <2>2, <2>3, <2>4, RelayMoves DEF KeepsEvents
<1>6. CASE RelayInserts(e)
  <2>1. /\ relay' = [relay EXCEPT ![e] = "caughtUp"] /\ InsertOK(l)
        /\ UNCHANGED <<up, file, cut, flush, overrun, torn, spilled>>
    BY <1>2, <1>6 DEF RelayInserts, RelayGoes
  <2>2. /\ WalInv' /\ doubtful \subseteq doubtful' /\ Accounted(e)'
        /\ \A f \in Events : Accounted(f) => Accounted(f)'
        /\ \A f \in Events \ {e} : Untouched(f) => Untouched(f)'
    BY <1>1, <1>2, <1>4, <2>1, InsertKeeps
  <2>3. "caughtUp" \in RelayPhases BY DEF RelayPhases
  <2> QED BY <1>3, <2>1, <2>2, <2>3, RelayMoves
<1>7. CASE RelayInsertFails(e)
  <2>1. /\ relay' = [relay EXCEPT ![e] = "buffering"]
        /\ InsertFails(l) \/ InsertUncertain(l)
        /\ UNCHANGED <<up, file, cut, flush, overrun, torn, spilled>>
    BY <1>2, <1>7 DEF RelayInsertFails, RelayGoes
  <2>2. "buffering" \in RelayPhases BY DEF RelayPhases
  <2>3. CASE InsertFails(l)
    <3>1. UNCHANGED walVars BY <2>1, <2>3 DEF InsertFails, walVars
    <3>2. WalInv' /\ KeepsEvents BY <1>1, <3>1, WalUnchanged
    <3>3. Untouched(e)' \/ e \in doubtful' BY <1>4, <3>2 DEF KeepsEvents
    <3> QED BY <1>3, <2>1, <2>2, <3>2, <3>3, RelayMoves DEF KeepsEvents
  <2>4. CASE InsertUncertain(l)
    <3>1. /\ WalInv' /\ doubtful \subseteq doubtful' /\ e \in doubtful'
          /\ \A f \in Events : Accounted(f) => Accounted(f)'
          /\ \A f \in Events \ {e} : Untouched(f) => Untouched(f)'
      BY <1>1, <1>2, <1>4, <2>1, <2>4, InsertKeeps
    <3> QED BY <1>3, <2>1, <2>2, <3>1, RelayMoves
  <2> QED BY <2>1, <2>3, <2>4
<1>8. CASE RelayBuffers(e)
  <2>1. /\ relay' = [relay EXCEPT ![e] = "caughtUp"]
        /\ WalAppend(l) \/ WalAppendFails(l)
    BY <1>2, <1>8 DEF RelayBuffers, RelayGoes
  <2>2. /\ WalInv' /\ doubtful \subseteq doubtful' /\ Accounted(e)'
        /\ \A f \in Events : Accounted(f) => Accounted(f)'
        /\ \A f \in Events \ {e} : Untouched(f) => Untouched(f)'
    <3>1. CASE WalAppend(l) BY <1>1, <1>2, <1>4, <3>1, AppendKeeps
    <3>2. CASE WalAppendFails(l)
      BY <1>1, <1>2, <3>2, AppendFailsKeeps DEF KeepsEvents
    <3> QED BY <2>1, <3>1, <3>2
  <2>3. "caughtUp" \in RelayPhases BY DEF RelayPhases
  <2> QED BY <1>3, <2>1, <2>2, <2>3, RelayMoves
<1>9. CASE RelayCannotOpen(e)
  <2>1. /\ relay' = [relay EXCEPT ![e] = "done"] /\ spilled' = spilled \cup {e}
        /\ UNCHANGED <<up, copies, file, cut, flush, overrun, torn, doubtful>>
    BY <1>9 DEF RelayCannotOpen, RelayGoes
  <2>2. cut' \in BOOLEAN /\ faults' \in Nat
    BY <1>1, <1>9 DEF RelayCannotOpen, Fault, WalInv, WalTypeOK
  <2>3. WalInv' /\ KeepsEvents /\ Accounted(e)' BY <1>1, <2>1, <2>2, SpillKeeps
  <2>4. "done" \in RelayPhases BY DEF RelayPhases
  <2> QED BY <1>3, <2>1, <2>3, <2>4, RelayMoves DEF KeepsEvents
<1> QED BY <1>5, <1>6, <1>7, <1>8, <1>9

(* The replay of the log after it, and a relay that dies anywhere.          *)
LEMMA ReplayRelay ==
    ASSUME RelayInv, OneRelayPerEvent, NEW e \in Events,
           RelayFlushes(e) \/ RelayFlushStep(e) \/ RelayFlushEnds(e) \/ Kill(e)
    PROVE  RelayInv'
<1>1. WalInv /\ kills \in Nat /\ e \in Procs BY DEF RelayInv, RelayTypeOK, OneRelayPerEvent
<1>2. ASSUME NEW ph \in {"flushing", "done"}, relay' = [relay EXCEPT ![e] = ph], kills' \in Nat,
             WalInv', KeepsEvents, relay[e] \in {"caughtUp", "flushing"}
      PROVE  RelayInv'
  <2>1. Accounted(e)' BY <1>2 DEF RelayInv, RelayTold, KeepsEvents
  <2>2. ph \in RelayPhases BY DEF RelayPhases
  <2> QED BY <1>2, <2>1, <2>2, RelayMoves DEF KeepsEvents
<1>3. CASE RelayFlushes(e)
  <2>1. relay[e] = "caughtUp" /\ kills' \in Nat BY <1>1, <1>3 DEF RelayFlushes, RelayGoes
  <2>2. CASE UNCHANGED walVars /\ RelayGoes(e, "done")
    BY <1>1, <1>2, <2>1, <2>2, WalUnchanged DEF RelayGoes
  <2>3. CASE FlushRead(e) /\ RelayGoes(e, "flushing")
    BY <1>1, <1>2, <2>1, <2>3, FlushReadKeeps DEF RelayGoes
  <2> QED BY <1>3, <2>2, <2>3 DEF RelayFlushes
<1>4. CASE RelayFlushStep(e)
  <2>1. UNCHANGED relayOwn BY <1>4 DEF RelayFlushStep
  <2>2. FlushInserts(e) \/ FlushKeeps(e) \/ FlushTimesOut(e, TRUE) \/ FlushTruncates(e)
    BY <1>4 DEF RelayFlushStep
  <2>3. WalInv' /\ KeepsEvents
    BY <1>1, <2>2, FlushInsertsKeeps, FlushKeepsKeeps, FlushTimesOutKeeps, FlushTruncatesKeeps
  <2> QED BY <2>1, <2>3, RelayQuiet
<1>5. CASE RelayFlushEnds(e)
  <2>1. /\ relay[e] = "flushing" /\ kills' \in Nat
        /\ FlushWrites(e) \/ FlushWriteFails(e) \/ FlushOpenFails(e)
        /\ relay' = [relay EXCEPT ![e] = "done"]
    BY <1>1, <1>5 DEF RelayFlushEnds, RelayGoes
  <2>2. WalInv' /\ KeepsEvents
    BY <1>1, <2>1, FlushWritesKeeps, FlushWriteFailsKeeps, FlushOpenFailsKeeps
  <2> QED BY <1>2, <2>1, <2>2
<1>6. CASE Kill(e)
  <2>1. WalCrash(e, {}) /\ relay' = [relay EXCEPT ![e] = "dead"] /\ kills' \in Nat
    BY <1>1, <1>6 DEF Kill
  <2>2. PICK es \in SUBSET Events : es = {} OBVIOUS
  <2>3. WalInv' /\ KeepsEvents BY <1>1, <2>1, <2>2, CrashKeeps
  <2>4. "dead" \in RelayPhases BY DEF RelayPhases
  <2> QED BY <2>1, <2>3, <2>4, RelayMoves DEF KeepsEvents
<1> QED BY <1>3, <1>4, <1>5, <1>6

(* Every step keeps the invariant.                                          *)
LEMMA NextRelay ==
    ASSUME OneRelayPerEvent
    PROVE  RelayInv /\ [RelayNext]_relayVars => RelayInv'
<1> SUFFICES ASSUME RelayInv, [RelayNext]_relayVars PROVE RelayInv'
  OBVIOUS
<1>1. CASE UNCHANGED relayVars
  <2>1. UNCHANGED walVars /\ UNCHANGED relayOwn BY <1>1 DEF relayVars
  <2>2. WalInv' /\ KeepsEvents BY <2>1, WalUnchanged DEF RelayInv
  <2> QED BY <2>1, <2>2, RelayQuiet
<1>2. CASE RelayStoreStep BY <1>2, StoreStepRelay
<1>3. ASSUME NEW e \in Events, RelayStep(e) \/ Kill(e) PROVE RelayInv'
  BY <1>3, HandleRelay, ReplayRelay DEF RelayStep
<1> QED BY <1>1, <1>2, <1>3 DEF RelayNext

(* The invariant holds whatever the relays do to each other.                *)
THEOREM RelayInvariance ==
    ASSUME OneRelayPerEvent
    PROVE  RelaySpec => []RelayInv
  BY InitRelay, NextRelay, PTL DEF RelaySpec

(* However many relays share the log without a lock: an event that was      *)
(* stored or buffered is in the store, in the log or in the hands of a      *)
(* flush that writes it back, but for the known windows.                    *)
THEOREM RelaysLoseNothingSilently ==
    ASSUME OneRelayPerEvent
    PROVE  RelaySpec => []RelayLosesOnlyInKnownWindows
<1>1. RelayInv => RelayLosesOnlyInKnownWindows
  BY DEF RelayInv, RelayTold, RelayLosesOnlyInKnownWindows, Accounted, Excused
<1> QED BY <1>1, RelayInvariance, PTL

(* And none is stored twice, except one that somebody stored without being  *)
(* able to know it or that two relays replayed at once.                     *)
THEOREM RelaysNeverDuplicate ==
    ASSUME OneRelayPerEvent
    PROVE  RelaySpec => []OnceUnlessDoubtful
<1>1. ASSUME RelayInv PROVE OnceUnlessDoubtful
  <2> SUFFICES ASSUME NEW e \in Events, CopiesOf(e) > 1, e \notin doubtful PROVE FALSE
    BY DEF OnceUnlessDoubtful
  <2>1. CopiesOf(e) \in Nat /\ CopiesOf(e) <= 1
    BY <1>1, CopiesNat DEF RelayInv, WalInv, OnceInv, OnceFor
  <2> QED BY <2>1
<1> QED BY <1>1, RelayInvariance, PTL
=============================================================================
