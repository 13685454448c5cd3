------------------------- MODULE DeviceLoginProofs -------------------------
(***************************************************************************)
(* The token file and the device login, proved for any number of processes, *)
(* machines, names, tokens, saves and faults.  First the file: what every   *)
(* copy of the tokens (the file's and each process's) satisfies, and what a *)
(* process knows of the file.  Then the login: where each minted token is.  *)
(***************************************************************************)
EXTENDS DeviceLogin, FiniteSetTheorems, TLAPS

(* u is the token t, perhaps granted or revoked since.                      *)
Same(t, u) == t.id = u.id /\ t.kind = u.kind /\ t.parent = u.parent /\ t.expires = u.expires

Kept(t, u) == Same(t, u) /\ (t.revoked => u.revoked) /\ (t.granted => u.granted)

(* prune drops the token.                                                   *)
Gone(t) == t.parent # None /\ now > t.expires + PruneTicks

Copies == {file.tokens} \cup {mem[p] : p \in Procs}

(* A token map by itself: an exchanged token expires, its key is there and  *)
(* takes it along when it is revoked.                                       *)
Sound(ts) ==
    \A n \in Names : ts[n] # None =>
        /\ ts[n].id \in 1 .. minted
        /\ ts[n].kind = "environment" => ts[n].parent = None
        /\ ts[n].parent # None =>
             /\ ts[n].expires # 0
             /\ ts[ts[n].parent] # None /\ ts[ts[n].parent].kind = "environment"
             /\ ts[ts[n].parent].revoked => ts[n].revoked

(* Two maps mean the same token by the same id.                             *)
Agree(ts, us) ==
    \A n, m \in Names : ts[n] # None /\ us[m] # None /\ ts[n].id = us[m].id => n = m /\ Same(ts[n], us[m])

CopiesInv ==
    /\ \A ts \in Copies : Sound(ts)
    /\ \A ts, us \in Copies : Agree(ts, us)

(* us has all that ts has, but for what may be pruned.                      *)
Extends(us, ts) == \A n \in Names : ts[n] # None => Gone(ts[n]) \/ (us[n] # None /\ Kept(ts[n], us[n]))

(* What process p knows: no version is from the future; the version it      *)
(* works on is the one it loaded; unless Restat took another's version for  *)
(* its own, the tokens it has extend the file of that version; what it just *)
(* wrote is the file until somebody else saves.                             *)
KnowsFile(p) ==
    /\ memVer[p] <= file.ver
    /\ p \notin stale /\ memVer[p] = file.ver => Extends(mem[p], file.tokens)
    /\ call[p] # None =>
         /\ call[p].ver <= file.ver
         /\ call[p].step \in {"change", "rename"} => call[p].ver = memVer[p]
         /\ call[p].step = "restat" /\ call[p].ver = file.ver => mem[p] = file.tokens
         /\ call[p].step = "rename" => \A c \in call[p].done : Holds(mem[p], c)

Revocation(id) == [id |-> id, what |-> "revoked"]

(* The tokens ts do not accept the token id.                                *)
Refused(ts, id) == \A n \in Names : ts[n] # None /\ ts[n].id = id => ts[n].revoked \/ Gone(ts[n])

(* A lookup that comes after a revocation finds it in the tokens it reads.  *)
KnowsRevoked(p) ==
    call[p] # None /\ call[p].kind = "lookup" /\ call[p].after =>
        /\ Revocation(call[p].id) \in acked
        /\ call[p].step = "change" /\ p \notin stale /\ ~ WasLost(Revocation(call[p].id)) => Refused(mem[p], call[p].id)

(* Every copy of the token id may be pruned.                                *)
AllGone(id) == \A ts \in Copies : \A n \in Names : ts[n] # None /\ ts[n].id = id => Gone(ts[n])

(* What was done is in the file, unless it was lost or may be pruned.       *)
DoneInv ==
    \A c \in Effective :
        /\ c.id \in 1 .. minted
        /\ WasLost(c) \/ Holds(file.tokens, c) \/ AllGone(c.id)

FileInv ==
    /\ FileTypeOK
    /\ CopiesInv
    /\ \A p \in Procs : KnowsFile(p) /\ KnowsRevoked(p)
    /\ DoneInv
    /\ AckedChangesKept /\ RevokedIsRefused

-----------------------------------------------------------------------------
(* The token that Approve has minted and not yet given to its request.      *)
Minting ==
    approving # None /\ call[Server] # None /\ call[Server].kind = "create" /\ call[Server].step \in {"rename", "restat"}

MintedNow == [id |-> call[Server].id, to |-> approving.device]

(* While Approve holds the flow its request stays pending, and every Create *)
(* of the server is Approve's.                                              *)
ApproveInv ==
    /\ approving # None =>
         /\ req[approving.device] # None /\ req[approving.device].state = "pending"
         /\ approving.try \in 1 .. Len(NamesFor[approving.device])
    /\ call[Server] # None /\ call[Server].kind = "create" => approving # None

(* An approved request holds a token of its own machine.                    *)
LinksInv ==
    /\ handed \subseteq issued
    /\ \A i, j \in issued : i.id = j.id => i = j
    /\ \A i \in issued : i.id \in 1 .. minted
    /\ \A d \in Devices : req[d] # None /\ req[d].state = "approved" => [id |-> req[d].link, to |-> d] \in issued \ handed
    /\ Minting => MintedNow \in issued \ handed

IssuedKnown ==
    \A i \in issued :
        \/ i \in handed
        \/ req[i.to] # None /\ req[i.to].state = "approved" /\ req[i.to].link = i.id
        \/ Minting /\ MintedNow = i
        \/ \E o \in orphans : o.id = i.id

(* A login command that has not asked has no request.                       *)
NotAsked == \A d \in Devices : client[d].state = "idle" => req[d] = None

LoginInv ==
    /\ FileInv
    /\ TypeOK
    /\ IsFiniteSet({d \in Devices : req[d] # None})
    /\ ApproveInv
    /\ LinksInv
    /\ IssuedKnown
    /\ NotAsked

-----------------------------------------------------------------------------
(* The copies of the tokens.  A step adds at most one new map: made from an *)
(* old one, with at most one new token, of a new id.                        *)
MadeFrom(new, old) ==
    \E a \in Names \cup {None} : \A n \in Names : new[n] # None =>
        \/ old[n] # None /\ Same(new[n], old[n])
        \/ n = a /\ minted' = minted + 1 /\ new[n].id = minted + 1

LEMMA CopiesAgree ==
    ASSUME CopiesInv, minted \in Nat, minted' \in {minted, minted + 1},
           NEW new, NEW old \in Copies, MadeFrom(new, old), Sound(new)',
           Copies' \subseteq Copies \cup {new}
    PROVE  CopiesInv'
<1>1. ASSUME NEW ts \in Copies PROVE Sound(ts)'
  <2>1. Sound(ts) BY DEF CopiesInv
  <2> QED BY <2>1 DEF Sound
<1>2. PICK a \in Names \cup {None} : \A n \in Names : new[n] # None =>
          \/ old[n] # None /\ Same(new[n], old[n])
          \/ n = a /\ minted' = minted + 1 /\ new[n].id = minted + 1
  BY DEF MadeFrom
<1>3. \A ts \in Copies : \A n \in Names : ts[n] # None => ts[n].id \in 1 .. minted
  BY DEF CopiesInv, Sound
<1>4. ASSUME NEW us \in Copies PROVE Agree(new, us) /\ Agree(us, new)
  <2>1. ASSUME NEW n \in Names, NEW m \in Names, new[n] # None, us[m] # None, new[n].id = us[m].id
        PROVE  n = m /\ Same(new[n], us[m])
    <3>1. us[m].id # minted + 1 BY <1>3, <2>1
    <3>2. old[n] # None /\ Same(new[n], old[n]) BY <1>2, <2>1, <3>1
    <3>3. Agree(old, us) BY DEF CopiesInv
    <3> QED BY <2>1, <3>2, <3>3 DEF Agree, Same
  <2> QED BY <2>1 DEF Agree, Same
<1>5. Agree(new, new)
  <2>1. ASSUME NEW n \in Names, NEW m \in Names, new[n] # None, new[m] # None, new[n].id = new[m].id
        PROVE  n = m /\ Same(new[n], new[m])
    <3>1. CASE old[n] # None /\ Same(new[n], old[n])
      <4>1. new[n].id # minted + 1 BY <1>3, <3>1 DEF Same
      <4>2. old[m] # None /\ Same(new[m], old[m]) BY <1>2, <2>1, <4>1
      <4>3. Agree(old, old) BY DEF CopiesInv
      <4> QED BY <2>1, <3>1, <4>2, <4>3 DEF Agree, Same
    <3>2. CASE n = a /\ new[n].id = minted + 1
      <4>1. ~ (old[m] # None /\ Same(new[m], old[m])) BY <1>3, <2>1, <3>2 DEF Same
      <4> QED BY <1>2, <2>1, <3>2, <4>1 DEF Same
    <3> QED BY <1>2, <2>1, <3>1, <3>2
  <2> QED BY <2>1 DEF Agree
<1>6. \A ts, us \in Copies : Agree(ts, us) BY DEF CopiesInv
<1>7. \A ts, us \in Copies' : Agree(ts, us) BY <1>4, <1>5, <1>6
<1> QED BY <1>1, <1>7 DEF CopiesInv

-----------------------------------------------------------------------------
(* The clock and the bounds.                                                *)
LEMMA FileNats ==
    ASSUME FileTypeOK
    PROVE  /\ now \in Nat /\ minted \in Nat /\ faults \in Nat /\ file.ver \in Nat \ {0}
           /\ PruneTicks \in Nat /\ TokenTicks \in Nat \ {0}
           /\ file.tokens \in Tokens
BY TokenFileAssumption DEF FileTypeOK

(* Tokens keep their fields in every map.                                   *)
LEMMA TokenFields ==
    ASSUME NEW ts \in Tokens, NEW n \in Names, ts[n] # None
    PROVE  /\ ts[n] \in Token
           /\ ts[n].id \in Nat /\ ts[n].expires \in Nat /\ ts[n].revoked \in BOOLEAN /\ ts[n].granted \in BOOLEAN
           /\ ts[n].parent \in Names \cup {None}
BY DEF Tokens, Token

(* A call of process p moves and the tokens stay: it begins, looks a bearer *)
(* up, or returns without having saved.                                     *)
LEMMA CallMoves ==
    ASSUME FileInv, NEW p \in Procs, NEW c \in Call \cup {None},
           call' = [call EXCEPT ![p] = c],
           UNCHANGED <<file, mem, memVer, minted, now, acked, stale, lost>>,
           faults' \in 0 .. MaxFaults,
           wrong' \subseteq {"lost", "stale", "unread"}, "unread" \notin wrong',
           c # None =>
             /\ c.ver = file.ver /\ c.step \in {"read", "change"}
             /\ c.step = "change" => Known(p)
             /\ c.after => Revocation(c.id) \in acked
    PROVE  FileInv'
<1> USE DEF FileInv
<1>1. FileTypeOK' BY DEF FileTypeOK
<1>2. CopiesInv' BY DEF CopiesInv, Copies, Sound
<1>3. call'[p] = c /\ \A q \in Procs \ {p} : call'[q] = call[q] BY DEF FileTypeOK
<1>4. DoneInv'
  <2>1. Effective' \subseteq Effective BY <1>3 DEF Effective
  <2>2. ASSUME NEW x \in Effective PROVE WasLost(x)' = WasLost(x) /\ AllGone(x.id)' = AllGone(x.id)
    BY DEF WasLost, AllGone, Copies, Gone
  <2> QED BY <2>1, <2>2 DEF DoneInv, Holds
<1>5. ASSUME NEW q \in Procs PROVE KnowsFile(q)' /\ KnowsRevoked(q)'
  <2>1. KnowsFile(q) /\ KnowsRevoked(q) OBVIOUS
  <2>2. CASE q # p
    <3>1. call'[q] = call[q] BY <1>3, <2>2
    <3>2. KnowsFile(q)' BY <2>1, <3>1 DEF KnowsFile, Extends, Gone, Holds
    <3>3. KnowsRevoked(q)' BY <2>1, <3>1 DEF KnowsRevoked, WasLost, Refused, Gone
    <3> QED BY <3>2, <3>3
  <2>3. CASE q = p
    <3>1. file.ver \in Nat BY FileNats
    <3>2. KnowsFile(q)' BY <1>3, <2>1, <2>3, <3>1 DEF KnowsFile, Extends, Gone, Known
    <3>3. ASSUME c # None, c.after, c.step = "change", p \notin stale, ~ WasLost(Revocation(c.id))
          PROVE  Refused(mem[p], c.id)
      <4>1. Extends(mem[p], file.tokens) BY <2>1, <2>3, <3>3 DEF KnowsFile, Known
      <4>2. Revocation(c.id) \in Effective BY <3>3 DEF Effective
      <4>3. Holds(file.tokens, Revocation(c.id)) \/ AllGone(c.id)
        BY <3>3, <4>2 DEF DoneInv, Revocation
      <4>4. CASE AllGone(c.id) BY <4>4 DEF AllGone, Copies, Refused
      <4>5. CASE Holds(file.tokens, Revocation(c.id))
        <5>1. PICK n \in Names : file.tokens[n] # None /\ file.tokens[n].id = c.id /\ file.tokens[n].revoked
          BY <4>5 DEF Holds, Revocation
        <5>2. ASSUME NEW m \in Names, mem[p][m] # None, mem[p][m].id = c.id PROVE mem[p][m].revoked \/ Gone(mem[p][m])
          <6>1. mem[p] \in Copies /\ file.tokens \in Copies BY DEF Copies
          <6>2. Agree(file.tokens, mem[p]) BY <6>1 DEF CopiesInv
          <6>3. n = m /\ Same(file.tokens[n], mem[p][m]) BY <5>1, <5>2, <6>2 DEF Agree
          <6> QED BY <4>1, <5>1, <6>3 DEF Extends, Kept, Same, Gone
        <5> QED BY <5>2 DEF Refused
      <4> QED BY <4>3, <4>4, <4>5
    <3>4. KnowsRevoked(q)' BY <1>3, <2>3, <3>3 DEF KnowsRevoked, WasLost, Refused, Gone
    <3> QED BY <3>2, <3>4
  <2> QED BY <2>2, <2>3
<1>6. AckedChangesKept' /\ RevokedIsRefused' BY DEF AckedChangesKept, RevokedIsRefused
<1> QED BY <1>1, <1>2, <1>4, <1>5, <1>6

LEMMA BeginKeeps ==
    ASSUME FileInv, NEW p \in Procs, NEW kind \in {"create", "revoke", "grant", "exchange", "lookup"},
           NEW name \in Names, NEW id \in Nat, Begin(p, kind, name, id),
           UNCHANGED <<file, mem, memVer, minted, now, faults, acked, stale, lost, wrong>>
    PROVE  FileInv'
<1>1. PICK step \in {"read", "change"} :
        /\ call' = [call EXCEPT ![p] = NewCall(kind, name, id, step)] /\ (step = "change" => Known(p))
  BY DEF Begin
<1>2. PICK c : c = NewCall(kind, name, id, step) OBVIOUS
<1>3. c \in Call BY <1>2, FileNats DEF NewCall, Call, FileInv
<1>4. /\ c.ver = file.ver /\ c.step = step
      /\ c.after => Revocation(c.id) \in acked
  BY <1>2 DEF NewCall, Revocation
<1>5. faults' \in 0 .. MaxFaults /\ wrong' \subseteq {"lost", "stale", "unread"} /\ "unread" \notin wrong'
  BY DEF FileInv, FileTypeOK, RevokedIsRefused
<1> QED BY <1>1, <1>2, <1>3, <1>4, <1>5, CallMoves

LEMMA ReturnKeeps ==
    ASSUME FileInv, NEW p \in Procs, ReturnUnchanged(p) \/ SaveFails(p)
    PROVE  FileInv'
<1>1. faults' \in 0 .. MaxFaults /\ wrong' \subseteq {"lost", "stale", "unread"} /\ "unread" \notin wrong'
  <2>1. MaxFaults \in Nat BY TokenFileAssumption
  <2>2. faults' \in 0 .. MaxFaults BY <2>1 DEF FileInv, FileTypeOK, ReturnUnchanged, SaveFails
  <2>3. wrong' = wrong BY DEF ReturnUnchanged, SaveFails
  <2> QED BY <2>2, <2>3 DEF FileInv, FileTypeOK, RevokedIsRefused
<1> QED BY <1>1, CallMoves DEF ReturnUnchanged, SaveFails

(* A lookup accepts a revoked token only when it is stale or was lost: a    *)
(* token that may be pruned has expired.                                    *)
LEMMA LookupKeeps ==
    ASSUME FileInv, NEW p \in Procs, Lookup(p)
    PROVE  FileInv'
<1> DEFINE ok == \E n \in Names : Matches(p, n, call[p].id) /\ mem[p][n].kind = "token" /\ ~ Expired(mem[p][n])
           why == IF WasLost([id |-> call[p].id, what |-> "revoked"]) THEN "lost"
                  ELSE IF p \in stale THEN "stale" ELSE "unread"
<1>1. wrong' = (IF ok /\ call[p].after THEN wrong \cup {why} ELSE wrong) /\ call[p] # None /\ call[p].kind = "lookup"
         /\ call[p].step = "change"
  BY DEF Lookup, Changing
<1>2. why \in {"lost", "stale", "unread"} /\ (why = "unread" => ~ WasLost(Revocation(call[p].id)) /\ p \notin stale)
  BY DEF Revocation
<1>3. ASSUME ok, call[p].after, why = "unread" PROVE FALSE
  <2>1. PICK n \in Names : Matches(p, n, call[p].id) /\ ~ Expired(mem[p][n]) BY <1>3
  <2>2. Refused(mem[p], call[p].id) BY <1>1, <1>2, <1>3 DEF FileInv, KnowsRevoked
  <2>3. mem[p][n] # None /\ Gone(mem[p][n]) BY <2>1, <2>2 DEF Matches, Refused
  <2>4. mem[p] \in Tokens /\ mem[p] \in Copies BY DEF FileInv, FileTypeOK, Copies
  <2>5. mem[p][n].expires \in Nat BY <2>3, <2>4, TokenFields
  <2>6. mem[p][n].expires # 0 BY <2>3, <2>4 DEF FileInv, CopiesInv, Sound, Gone
  <2>7. now \in Nat /\ PruneTicks \in Nat BY FileNats DEF FileInv
  <2> QED BY <2>1, <2>3, <2>5, <2>6, <2>7 DEF Gone, Expired
<1>4. wrong' \subseteq {"lost", "stale", "unread"} /\ "unread" \notin wrong'
  BY <1>1, <1>2, <1>3 DEF FileInv, FileTypeOK, RevokedIsRefused
<1>5. faults' \in 0 .. MaxFaults BY DEF Lookup, FileInv, FileTypeOK
<1> QED BY <1>4, <1>5, CallMoves DEF Lookup

-----------------------------------------------------------------------------
(* A call of process p changes the tokens it has in memory.                 *)
LEMMA MemChanges ==
    ASSUME FileInv, NEW p \in Procs, NEW new \in Tokens, NEW c \in Call,
           call[p] # None, call[p].step = "change", call[p].kind # "lookup",
           call' = [call EXCEPT ![p] = c], c.step = "rename", c.ver = call[p].ver, c.kind = call[p].kind,
           \A x \in c.done : Holds(new, x),
           mem' = [mem EXCEPT ![p] = new],
           minted' \in {minted, minted + 1}, minted' \in 0 .. MaxTokens,
           UNCHANGED <<file, memVer, now, faults, acked, stale, lost, wrong>>,
           Sound(new)', MadeFrom(new, mem[p]), Extends(new, mem[p])
    PROVE  FileInv'
<1> USE DEF FileInv
<1>1. FileTypeOK' BY DEF FileTypeOK
<1>2. /\ call'[p] = c /\ \A q \in Procs \ {p} : call'[q] = call[q]
      /\ mem'[p] = new /\ \A q \in Procs \ {p} : mem'[q] = mem[q]
  BY DEF FileTypeOK
<1>3. Copies' \subseteq Copies \cup {new} /\ mem[p] \in Copies BY <1>2 DEF Copies
<1>4. minted \in Nat BY FileNats
<1>5. CopiesInv' BY <1>3, <1>4, CopiesAgree
<1>6. Sound(mem[p]) BY <1>3 DEF CopiesInv
<1>7. ASSUME NEW id \in 1 .. minted, AllGone(id) PROVE AllGone(id)'
  <2>1. ASSUME NEW n \in Names, new[n] # None, new[n].id = id PROVE Gone(new[n])
    <3>1. mem[p][n] # None /\ Same(new[n], mem[p][n]) BY <1>4, <2>1 DEF MadeFrom
    <3>2. Gone(mem[p][n]) BY <1>3, <1>7, <2>1, <3>1 DEF AllGone, Same
    <3> QED BY <3>1, <3>2 DEF Same, Gone
  <2> QED BY <1>3, <1>7, <2>1 DEF AllGone, Gone
<1>8. DoneInv'
  <2>1. Effective' \subseteq Effective BY <1>2 DEF Effective
  <2>2. ASSUME NEW x \in Effective PROVE x.id \in 1 .. minted' /\ (WasLost(x)' \/ Holds(file.tokens, x)' \/ AllGone(x.id)')
    <3>1. x.id \in 1 .. minted /\ (WasLost(x) \/ Holds(file.tokens, x) \/ AllGone(x.id)) BY DEF DoneInv
    <3> QED BY <1>4, <1>7, <3>1 DEF WasLost, Holds
  <2> QED BY <2>1, <2>2 DEF DoneInv
<1>9. ASSUME NEW q \in Procs PROVE KnowsFile(q)' /\ KnowsRevoked(q)'
  <2>1. KnowsFile(q) /\ KnowsRevoked(q) OBVIOUS
  <2>2. CASE q # p
    <3>1. KnowsFile(q)' BY <1>2, <2>1, <2>2 DEF KnowsFile, Extends, Gone, Holds
    <3>2. KnowsRevoked(q)' BY <1>2, <2>1, <2>2 DEF KnowsRevoked, WasLost, Refused, Gone
    <3> QED BY <3>1, <3>2
  <2>3. CASE q = p
    <3>1. ASSUME Extends(mem[p], file.tokens) PROVE Extends(new, file.tokens)
      <4>1. ASSUME NEW n \in Names, file.tokens[n] # None, ~ Gone(file.tokens[n])
            PROVE  new[n] # None /\ Kept(file.tokens[n], new[n])
        <5>1. mem[p][n] # None /\ Kept(file.tokens[n], mem[p][n]) BY <3>1, <4>1 DEF Extends
        <5>2. ~ Gone(mem[p][n]) BY <4>1, <5>1 DEF Gone, Kept, Same
        <5>3. new[n] # None /\ Kept(mem[p][n], new[n]) BY <5>1, <5>2 DEF Extends
        <5> QED BY <5>1, <5>3 DEF Kept, Same
      <4> QED BY <4>1 DEF Extends
    <3>2. KnowsFile(q)' BY <1>2, <2>1, <2>3, <3>1 DEF KnowsFile, Extends, Gone, Holds
    <3>3. KnowsRevoked(q)' BY <1>2, <2>3 DEF KnowsRevoked
    <3> QED BY <3>2, <3>3
  <2> QED BY <2>2, <2>3
<1>10. AckedChangesKept' /\ RevokedIsRefused' BY DEF AckedChangesKept, RevokedIsRefused
<1> QED BY <1>1, <1>5, <1>8, <1>9, <1>10

(* appendToken, to the tokens ts: the process's own, perhaps pruned.        *)
LEMMA AppendKeeps ==
    ASSUME FileInv, NEW p \in Procs, NEW ts \in Tokens, NEW name \in Names, NEW kind \in {"token", "environment"},
           NEW parent \in Names \cup {None}, NEW expires \in Nat,
           call[p] # None, call[p].step = "change", call[p].kind # "lookup",
           \A n \in Names : ts[n] = mem[p][n] \/ (ts[n] = None /\ (mem[p][n] # None => Gone(mem[p][n]))),
           Sound(ts), ts[name] = None, mem[p][name] = None,
           kind = "environment" => parent = None,
           parent # None => expires # 0 /\ ts[parent] # None /\ ts[parent].kind = "environment" /\ ~ ts[parent].revoked,
           AppendToken(p, ts, name, kind, parent, expires)
    PROVE  FileInv'
<1>1. PICK new : new = Appended(ts, name, kind, parent, expires) OBVIOUS
<1>2. minted \in Nat /\ minted' = minted + 1 /\ minted' \in 0 .. MaxTokens
  <2>1. minted \in Nat /\ MaxTokens \in Nat BY FileNats, TokenFileAssumption DEF FileInv
  <2> QED BY <2>1 DEF AppendToken
<1>3. PICK t : t = [id |-> minted + 1, kind |-> kind, parent |-> parent,
                    granted |-> FALSE, revoked |-> FALSE, expires |-> expires] OBVIOUS
<1>4. t \in Token BY <1>2, <1>3 DEF Token
<1>5. new = [ts EXCEPT ![name] = t] BY <1>1, <1>3 DEF Appended
<1>6. new \in Tokens /\ new[name] = t /\ \A n \in Names \ {name} : new[n] = ts[n] BY <1>4, <1>5 DEF Tokens
<1>7. None \notin Names BY TokenFileAssumption
<1>8. t # None BY <1>4, NoTokenAssumption
<1>9. Sound(new)'
  <2>1. ASSUME NEW n \in Names, new[n] # None
        PROVE  /\ new[n].id \in 1 .. minted'
               /\ new[n].kind = "environment" => new[n].parent = None
               /\ new[n].parent # None =>
                    /\ new[n].expires # 0
                    /\ new[new[n].parent] # None /\ new[new[n].parent].kind = "environment"
                    /\ new[new[n].parent].revoked => new[n].revoked
    <3>1. CASE n = name
      <4>1. new[n] = t BY <1>6, <3>1
      <4>2. parent # None => parent \in Names /\ new[parent] = ts[parent] BY <1>6
      <4> QED BY <1>2, <1>3, <4>1, <4>2
    <3>2. CASE n # name
      <4>1. new[n] = ts[n] BY <1>6, <3>2
      <4>2. ts[n].parent \in Names \cup {None} BY <2>1, <4>1, TokenFields
      <4>3. ts[n].parent # None => ts[ts[n].parent] # None BY <2>1, <4>1 DEF Sound
      <4>4. ts[n].parent # None => new[ts[n].parent] = ts[ts[n].parent] BY <1>6, <4>2, <4>3
      <4> QED BY <1>2, <2>1, <4>1, <4>4 DEF Sound
    <3> QED BY <3>1, <3>2
  <2> QED BY <2>1 DEF Sound
<1>10. MadeFrom(new, mem[p])
  <2>1. ASSUME NEW n \in Names, new[n] # None
        PROVE  \/ mem[p][n] # None /\ Same(new[n], mem[p][n])
               \/ n = name /\ minted' = minted + 1 /\ new[n].id = minted + 1
    BY <1>2, <1>3, <1>6, <2>1 DEF Same
  <2> QED BY <2>1 DEF MadeFrom
<1>11. Extends(new, mem[p]) BY <1>6 DEF Extends, Kept, Same
<1>12. PICK c : c = [call[p] EXCEPT !.step = "rename", !.id = minted + 1, !.done = {[id |-> minted + 1, what |-> "created"]}]
  OBVIOUS
<1>13. call[p] \in Call BY DEF FileInv, FileTypeOK
<1>14. c \in Call /\ c.step = "rename" /\ c.ver = call[p].ver /\ c.kind = call[p].kind
       /\ c.done = {[id |-> minted + 1, what |-> "created"]}
  <2>1. PICK x : x = [id |-> minted + 1, what |-> "created"] OBVIOUS
  <2>2. {x} \in SUBSET Change /\ minted + 1 \in Nat BY <1>2, <2>1 DEF Change
  <2> QED BY <1>12, <1>13, <2>1, <2>2 DEF Call
<1>15. call' = [call EXCEPT ![p] = c] BY <1>12 DEF AppendToken, FileInv, FileTypeOK
<1>16. \A x \in c.done : Holds(new, x) BY <1>3, <1>6, <1>8, <1>14 DEF Holds
<1>17. mem' = [mem EXCEPT ![p] = new] /\ UNCHANGED <<file, memVer, now, faults, acked, stale, lost, wrong>>
  BY <1>1 DEF AppendToken
<1> QED BY <1>2, <1>6, <1>9, <1>10, <1>11, <1>14, <1>15, <1>16, <1>17, MemChanges

LEMMA CreateKeeps ==
    ASSUME FileInv, NEW p \in Procs, Create(p)
    PROVE  FileInv'
<1>1. call[p] # None /\ call[p].step = "change" /\ call[p].kind = "create" BY DEF Create, Changing
<1>2. call[p] \in Call /\ mem[p] \in Tokens /\ mem[p] \in Copies BY <1>1 DEF FileInv, FileTypeOK, Copies
<1>3. PICK n \in Names : n = call[p].name BY <1>2 DEF Call
<1>4. CASE mem[p][n] # None BY <1>3, <1>4, ReturnKeeps DEF Create
<1>5. CASE mem[p][n] = None
  <2>1. PICK kind \in {"token", "environment"} : AppendToken(p, mem[p], n, kind, None, 0)
    BY <1>3, <1>5 DEF Create
  <2>2. Sound(mem[p]) BY <1>2 DEF FileInv, CopiesInv
  <2> QED BY <1>1, <1>2, <1>5, <2>1, <2>2, AppendKeeps
<1> QED BY <1>4, <1>5

LEMMA PrunedSound ==
    ASSUME NEW ts \in Tokens, Sound(ts), now \in Nat, PruneTicks \in Nat
    PROVE  /\ Pruned(ts) \in Tokens /\ Sound(Pruned(ts))
           /\ \A n \in Names : IF ts[n] # None /\ Gone(ts[n]) THEN Pruned(ts)[n] = None ELSE Pruned(ts)[n] = ts[n]
<1>1. PICK us : us = Pruned(ts) OBVIOUS
<1>2. us \in Tokens BY <1>1 DEF Pruned, Tokens
<1>3. \A n \in Names : IF ts[n] # None /\ Gone(ts[n]) THEN us[n] = None ELSE us[n] = ts[n]
  BY <1>1 DEF Pruned, Gone
<1>4. ASSUME NEW n \in Names, us[n] # None
      PROVE  /\ us[n].id \in 1 .. minted
             /\ us[n].kind = "environment" => us[n].parent = None
             /\ us[n].parent # None =>
                  /\ us[n].expires # 0
                  /\ us[us[n].parent] # None /\ us[us[n].parent].kind = "environment"
                  /\ us[us[n].parent].revoked => us[n].revoked
  <2>1. us[n] = ts[n] BY <1>3, <1>4
  <2>2. CASE ts[n].parent = None BY <1>4, <2>1, <2>2 DEF Sound
  <2>3. CASE ts[n].parent # None
    <3>1. PICK k \in Names : k = ts[n].parent BY <1>4, <2>1, <2>3, TokenFields
    <3>2. ts[k] # None /\ ts[k].kind = "environment" BY <1>4, <2>1, <3>1, <2>3 DEF Sound
    <3>3. us[k] = ts[k] BY <1>3, <3>2 DEF Sound, Gone
    <3> QED BY <1>4, <2>1, <3>1, <3>3 DEF Sound
  <2> QED BY <2>2, <2>3
<1> QED BY <1>1, <1>2, <1>3, <1>4 DEF Sound

LEMMA ExchangeKeeps ==
    ASSUME FileInv, NEW p \in Procs, Exchange(p)
    PROVE  FileInv'
<1>1. call[p] # None /\ call[p].step = "change" /\ call[p].kind = "exchange" BY DEF Exchange, Changing
<1>2. call[p] \in Call /\ mem[p] \in Tokens /\ mem[p] \in Copies BY <1>1 DEF FileInv, FileTypeOK, Copies
<1>3. PICK n \in Names : n = call[p].name BY <1>2 DEF Call
<1> DEFINE keys == {k \in Names : Matches(p, k, call[p].id) /\ mem[p][k].kind = "environment"}
<1>4. CASE keys = {} \/ mem[p][n] # None BY <1>3, <1>4, ReturnKeeps DEF Exchange
<1>5. CASE keys # {} /\ mem[p][n] = None
  <2>1. PICK k \in Names : /\ Matches(p, k, call[p].id) /\ mem[p][k].kind = "environment"
                           /\ AppendToken(p, Pruned(mem[p]), n, "token", k, now + TokenTicks)
    BY <1>3, <1>5 DEF Exchange
  <2>2. Sound(mem[p]) BY <1>2 DEF FileInv, CopiesInv
  <2>3. now \in Nat /\ PruneTicks \in Nat /\ TokenTicks \in Nat \ {0} BY FileNats DEF FileInv
  <2>4. PICK ts : ts = Pruned(mem[p]) OBVIOUS
  <2>5. /\ ts \in Tokens /\ Sound(ts)
        /\ \A m \in Names : IF mem[p][m] # None /\ Gone(mem[p][m]) THEN ts[m] = None ELSE ts[m] = mem[p][m]
    BY <1>2, <2>2, <2>3, <2>4, PrunedSound
  <2>6. ts[n] = None BY <1>5, <2>5
  <2>7. mem[p][k] # None /\ mem[p][k].parent = None /\ ~ mem[p][k].revoked BY <2>1, <2>2 DEF Matches, Sound
  <2>8. ts[k] = mem[p][k] BY <2>5, <2>7 DEF Gone
  <2>9. now + TokenTicks \in Nat /\ now + TokenTicks # 0 BY <2>3
  <2> QED BY <1>1, <1>5, <2>1, <2>4, <2>5, <2>6, <2>7, <2>8, <2>9, AppendKeeps
<1> QED BY <1>4, <1>5

(* Tokens are marked, as revoked or granted; none comes or goes.            *)
LEMMA MarkKeeps ==
    ASSUME FileInv, NEW p \in Procs, NEW new \in Tokens, NEW done \in SUBSET Change,
           call[p] # None, call[p].step = "change", call[p].kind # "lookup",
           \A n \in Names : IF mem[p][n] = None THEN new[n] = None ELSE new[n] # None /\ Kept(mem[p][n], new[n]),
           \A n, k \in Names : mem[p][n] # None /\ mem[p][n].parent = k /\ new[k].revoked => new[n].revoked,
           \A x \in done : Holds(new, x),
           mem' = [mem EXCEPT ![p] = new],
           call' = [call EXCEPT ![p].step = "rename", ![p].done = done],
           UNCHANGED <<file, memVer, minted, now, faults, acked, stale, lost, wrong>>
    PROVE  FileInv'
<1>1. call[p] \in Call /\ mem[p] \in Tokens /\ mem[p] \in Copies BY DEF FileInv, FileTypeOK, Copies
<1>2. Sound(mem[p]) BY <1>1 DEF FileInv, CopiesInv
<1>3. ASSUME NEW n \in Names, new[n] # None
      PROVE  /\ new[n].id \in 1 .. minted'
             /\ new[n].kind = "environment" => new[n].parent = None
             /\ new[n].parent # None =>
                  /\ new[n].expires # 0
                  /\ new[new[n].parent] # None /\ new[new[n].parent].kind = "environment"
                  /\ new[new[n].parent].revoked => new[n].revoked
  <2>1. mem[p][n] # None /\ Same(mem[p][n], new[n]) BY <1>3 DEF Kept
  <2>2. CASE new[n].parent = None BY <1>2, <2>1, <2>2 DEF Sound, Same
  <2>3. CASE new[n].parent # None
    <3>1. PICK k \in Names : k = new[n].parent /\ k = mem[p][n].parent BY <1>3, <2>1, <2>3, TokenFields DEF Same
    <3>2. mem[p][k] # None /\ mem[p][k].kind = "environment" /\ mem[p][n].expires # 0 /\ mem[p][n].kind # "environment"
      BY <1>2, <2>1, <2>3, <3>1 DEF Sound
    <3>3. new[k] # None /\ new[k].kind = "environment" BY <3>2 DEF Kept, Same
    <3>4. new[k].revoked => new[n].revoked BY <2>1, <3>1
    <3> QED BY <1>2, <2>1, <3>1, <3>2, <3>3, <3>4 DEF Sound, Same
  <2> QED BY <2>2, <2>3
<1>4. Sound(new)' BY <1>3 DEF Sound
<1>5. MadeFrom(new, mem[p]) BY DEF MadeFrom, Kept, Same
<1>6. Extends(new, mem[p]) BY DEF Extends
<1>7. PICK c : c = [call[p] EXCEPT !.step = "rename", !.done = done] OBVIOUS
<1>8. c \in Call /\ c.step = "rename" /\ c.ver = call[p].ver /\ c.kind = call[p].kind /\ c.done = done
  BY <1>1, <1>7 DEF Call
<1>9. call' = [call EXCEPT ![p] = c] BY <1>7 DEF FileInv, FileTypeOK
<1>10. minted' \in {minted, minted + 1} /\ minted' \in 0 .. MaxTokens BY DEF FileInv, FileTypeOK
<1> QED BY <1>4, <1>5, <1>6, <1>8, <1>9, <1>10, MemChanges

LEMMA GrantKeeps ==
    ASSUME FileInv, NEW p \in Procs, Grant(p)
    PROVE  FileInv'
<1>1. call[p] # None /\ call[p].step = "change" /\ call[p].kind = "grant" BY DEF Grant, Changing
<1>2. call[p] \in Call /\ mem[p] \in Tokens /\ mem[p] \in Copies BY <1>1 DEF FileInv, FileTypeOK, Copies
<1>3. PICK n \in Names : n = call[p].name BY <1>2 DEF Call
<1>4. CASE mem[p][n] = None \/ mem[p][n].revoked BY <1>3, <1>4, ReturnKeeps DEF Grant
<1>5. CASE mem[p][n] # None /\ ~ mem[p][n].revoked
  <2>1. mem[p][n] \in Token BY <1>2, <1>5, TokenFields
  <2>2. PICK t : t = [mem[p][n] EXCEPT !.granted = TRUE] OBVIOUS
  <2>3. t \in Token /\ Kept(mem[p][n], t) /\ t.id = mem[p][n].id /\ t.granted /\ t.revoked = mem[p][n].revoked
    BY <2>1, <2>2 DEF Token, Kept, Same
  <2>4. t # None BY <2>3, NoTokenAssumption
  <2>5. PICK new : new = [mem[p] EXCEPT ![n] = t] OBVIOUS
  <2>6. new \in Tokens /\ new[n] = t /\ \A m \in Names \ {n} : new[m] = mem[p][m] BY <1>2, <2>3, <2>5 DEF Tokens
  <2>7. mem' = [mem EXCEPT ![p] = new]
    BY <1>2, <1>3, <1>5, <2>2, <2>5 DEF Grant, FileInv, FileTypeOK, Tokens
  <2>8. PICK done : done = {[id |-> mem[p][n].id, what |-> "granted"]} OBVIOUS
  <2>9. done \in SUBSET Change /\ \A x \in done : Holds(new, x)
    BY <2>1, <2>3, <2>4, <2>6, <2>8 DEF Change, Holds, Token
  <2>10. /\ call' = [call EXCEPT ![p].step = "rename", ![p].done = done]
         /\ UNCHANGED <<file, memVer, minted, now, faults, acked, stale, lost, wrong>>
    BY <1>3, <1>5, <2>8 DEF Grant
  <2>11. \A m \in Names : IF mem[p][m] = None THEN new[m] = None ELSE new[m] # None /\ Kept(mem[p][m], new[m])
    BY <1>5, <2>3, <2>4, <2>6 DEF Kept, Same
  <2>12. Sound(mem[p]) BY <1>2 DEF FileInv, CopiesInv
  <2>13. ASSUME NEW m \in Names, NEW k \in Names, mem[p][m] # None, mem[p][m].parent = k, new[k].revoked
         PROVE  new[m].revoked
    <3>1. k # None BY TokenFileAssumption
    <3>2. new[k].revoked = mem[p][k].revoked /\ new[m].revoked = mem[p][m].revoked BY <2>3, <2>6
    <3> QED BY <2>12, <2>13, <3>1, <3>2 DEF Sound
  <2> QED BY <1>1, <2>6, <2>7, <2>9, <2>10, <2>11, <2>13, MarkKeeps
<1> QED BY <1>4, <1>5

LEMMA RevokeKeeps ==
    ASSUME FileInv, NEW p \in Procs, Revoke(p)
    PROVE  FileInv'
<1>1. call[p] # None /\ call[p].step = "change" /\ call[p].kind = "revoke" BY DEF Revoke, Changing
<1>2. call[p] \in Call /\ mem[p] \in Tokens /\ mem[p] \in Copies BY <1>1 DEF FileInv, FileTypeOK, Copies
<1>3. PICK n \in Names : n = call[p].name BY <1>2 DEF Call
<1>4. PICK out : out = {m \in RevokedWith(mem[p], n) : ~ mem[p][m].revoked} OBVIOUS
<1>5. CASE mem[p][n] = None \/ out = {} BY <1>3, <1>4, <1>5, ReturnKeeps DEF Revoke
<1>6. CASE mem[p][n] # None /\ out # {}
  <2>1. PICK new : new = [m \in Names |-> IF m \in out THEN [mem[p][m] EXCEPT !.revoked = TRUE] ELSE mem[p][m]] OBVIOUS
  <2>2. PICK done : done = {[id |-> mem[p][m].id, what |-> "revoked"] : m \in out} OBVIOUS
  <2>3. /\ mem' = [mem EXCEPT ![p] = new]
        /\ call' = [call EXCEPT ![p].step = "rename", ![p].done = done]
        /\ UNCHANGED <<file, memVer, minted, now, faults, acked, stale, lost, wrong>>
    BY <1>3, <1>4, <1>6, <2>1, <2>2 DEF Revoke
  <2>4. \A m \in out : m \in Names /\ mem[p][m] # None BY <1>4, <1>6 DEF RevokedWith
  <2>5. ASSUME NEW m \in out
        PROVE  new[m] \in Token /\ new[m] # None /\ Kept(mem[p][m], new[m]) /\ new[m].revoked /\ new[m].id = mem[p][m].id
    <3>1. mem[p][m] \in Token BY <1>2, <2>4, TokenFields
    <3>2. PICK t : t = [mem[p][m] EXCEPT !.revoked = TRUE] OBVIOUS
    <3>3. t \in Token /\ Kept(mem[p][m], t) /\ t.revoked /\ t.id = mem[p][m].id BY <3>1, <3>2 DEF Token, Kept, Same
    <3>4. new[m] = t BY <2>1, <2>4, <3>2
    <3> QED BY <3>3, <3>4, NoTokenAssumption
  <2>6. \A m \in Names \ out : new[m] = mem[p][m] BY <2>1
  <2>7. new \in Tokens
    <3>1. \A m \in Names : new[m] \in Token \cup {None} BY <1>2, <2>5, <2>6 DEF Tokens
    <3>2. new = [m \in Names |-> new[m]] BY <2>1
    <3> QED BY <3>1, <3>2 DEF Tokens
  <2>8. \A m \in Names : IF mem[p][m] = None THEN new[m] = None ELSE new[m] # None /\ Kept(mem[p][m], new[m])
    BY <2>4, <2>5, <2>6 DEF Kept, Same
  <2>9. \A m \in out : mem[p][m].id \in Nat BY <1>2, <2>4, TokenFields
  <2>10. done \in SUBSET Change BY <2>2, <2>9 DEF Change
  <2>11. \A x \in done : Holds(new, x) BY <2>2, <2>4, <2>5 DEF Holds
  <2>12. Sound(mem[p]) BY <1>2 DEF FileInv, CopiesInv
  <2>13. ASSUME NEW m \in Names, NEW k \in Names, mem[p][m] # None, mem[p][m].parent = k, new[k].revoked
         PROVE  new[m].revoked
    <3>1. k # None /\ n # None BY TokenFileAssumption
    <3>2. /\ mem[p][k] # None /\ mem[p][k].kind = "environment" /\ mem[p][k].parent = None
          /\ mem[p][k].revoked => mem[p][m].revoked
      BY <2>12, <2>13, <3>1 DEF Sound
    <3>3. CASE m \in out BY <2>5, <3>3
    <3>4. CASE m \notin out
      <4>1. new[m] = mem[p][m] BY <2>6, <3>4
      <4>2. CASE k \notin out BY <2>6, <2>13, <3>2, <4>1, <4>2
      <4>3. CASE k \in out
        <5>1. k = n BY <1>4, <3>1, <3>2, <4>3 DEF RevokedWith
        <5>2. m \in RevokedWith(mem[p], n) BY <2>13, <3>2, <5>1 DEF RevokedWith
        <5> QED BY <1>4, <3>4, <4>1, <5>2
      <4> QED BY <4>2, <4>3
    <3> QED BY <3>3, <3>4
  <2> QED BY <1>1, <2>3, <2>7, <2>8, <2>10, <2>11, <2>13, MarkKeeps
<1> QED BY <1>5, <1>6

-----------------------------------------------------------------------------
(* A token whose revocation is in the file is refused by the file.          *)
LEMMA FileRefuses ==
    ASSUME FileInv, NEW id \in Nat, Revocation(id) \in acked, ~ WasLost(Revocation(id))
    PROVE  Refused(file.tokens, id)
<1>1. Revocation(id) \in Effective BY DEF Effective
<1>2. Holds(file.tokens, Revocation(id)) \/ AllGone(id) BY <1>1 DEF FileInv, DoneInv, Revocation
<1>3. file.tokens \in Copies BY DEF Copies
<1>4. CASE AllGone(id) BY <1>3, <1>4 DEF AllGone, Refused
<1>5. CASE Holds(file.tokens, Revocation(id))
  <2>1. PICK n \in Names : file.tokens[n] # None /\ file.tokens[n].id = id /\ file.tokens[n].revoked
    BY <1>5 DEF Holds, Revocation
  <2>2. Agree(file.tokens, file.tokens) BY <1>3 DEF FileInv, CopiesInv
  <2> QED BY <2>1, <2>2 DEF Agree, Refused
<1> QED BY <1>2, <1>4, <1>5

LEMMA ExtendsItself == ASSUME NEW ts PROVE Extends(ts, ts)
BY DEF Extends, Kept, Same

LEMMA ReadKeeps ==
    ASSUME FileInv, NEW p \in Procs, Read(p)
    PROVE  FileInv'
<1> USE DEF FileInv
<1>1. call[p] \in Call /\ call[p] # None /\ call[p].step = "read" BY DEF Read, FileTypeOK
<1>2. PICK c : c = [call[p] EXCEPT !.step = "change"] OBVIOUS
<1>3. /\ c \in Call /\ c # None /\ c.step = "change" /\ c.ver = call[p].ver /\ c.kind = call[p].kind /\ c.id = call[p].id
      /\ c.after = call[p].after /\ c.id \in Nat /\ c.ver \in Nat
  BY <1>1, <1>2, NoTokenAssumption DEF Call
<1>4. PICK new : new = file.tokens OBVIOUS
<1>5. /\ call' = [call EXCEPT ![p] = c] /\ mem' = [mem EXCEPT ![p] = new] /\ memVer' = [memVer EXCEPT ![p] = c.ver]
      /\ stale' = stale \ {p} /\ UNCHANGED <<file, minted, now, faults, acked, lost, wrong>>
  BY <1>2, <1>3, <1>4 DEF Read, FileTypeOK
<1>6. new \in Tokens BY <1>4, FileNats
<1>7. FileTypeOK' BY <1>3, <1>5, <1>6 DEF FileTypeOK
<1>8. /\ call'[p] = c /\ \A q \in Procs \ {p} : call'[q] = call[q]
      /\ mem'[p] = new /\ \A q \in Procs \ {p} : mem'[q] = mem[q]
      /\ memVer'[p] = c.ver /\ \A q \in Procs \ {p} : memVer'[q] = memVer[q]
  BY <1>5 DEF FileTypeOK
<1>9. Copies' \subseteq Copies BY <1>4, <1>5, <1>8 DEF Copies
<1>10. CopiesInv' BY <1>5, <1>9 DEF CopiesInv, Sound
<1>11. DoneInv'
  <2>1. Effective' \subseteq Effective BY <1>3, <1>5, <1>8 DEF Effective
  <2>2. ASSUME NEW x \in Effective PROVE WasLost(x)' = WasLost(x) /\ (AllGone(x.id) => AllGone(x.id)')
    BY <1>5, <1>9 DEF WasLost, AllGone, Gone
  <2> QED BY <1>5, <2>1, <2>2 DEF DoneInv, Holds
<1>12. ASSUME NEW q \in Procs PROVE KnowsFile(q)' /\ KnowsRevoked(q)'
  <2>1. KnowsFile(q) /\ KnowsRevoked(q) OBVIOUS
  <2>2. CASE q # p
    <3>1. KnowsFile(q)' BY <1>5, <1>8, <2>1, <2>2 DEF KnowsFile, Extends, Gone, Holds
    <3>2. KnowsRevoked(q)' BY <1>5, <1>8, <2>1, <2>2 DEF KnowsRevoked, WasLost, Refused, Gone
    <3> QED BY <3>1, <3>2
  <2>3. CASE q = p
    <3>1. Extends(new, new) BY ExtendsItself
    <3>2. KnowsFile(q)' BY <1>1, <1>3, <1>4, <1>5, <1>8, <2>1, <2>3, <3>1 DEF KnowsFile, Extends, Gone
    <3>3. c.kind = "lookup" /\ c.after => Revocation(c.id) \in acked BY <1>1, <1>3, <2>1, <2>3 DEF KnowsRevoked
    <3>4. c.kind = "lookup" /\ c.after /\ ~ WasLost(Revocation(c.id)) => Refused(new, c.id)
      BY <1>3, <1>4, <3>3, FileRefuses
    <3>5. KnowsRevoked(q)' BY <1>5, <1>8, <2>3, <3>3, <3>4 DEF KnowsRevoked, WasLost, Refused, Gone
    <3> QED BY <3>2, <3>5
  <2> QED BY <2>2, <2>3
<1>13. AckedChangesKept' /\ RevokedIsRefused' BY <1>5 DEF AckedChangesKept, RevokedIsRefused
<1> QED BY <1>7, <1>10, <1>11, <1>12, <1>13

LEMMA RestatKeeps ==
    ASSUME FileInv, NEW p \in Procs, Restat(p)
    PROVE  FileInv'
<1> USE DEF FileInv, Restat
<1>1. call[p] \in Call /\ call[p] # None /\ call[p].step = "restat" BY DEF FileTypeOK
<1>2. call[p].done \subseteq Change BY <1>1 DEF Call
<1>3. file.ver \in Nat BY FileNats
<1>4. FileTypeOK' BY <1>2, <1>3 DEF FileTypeOK
<1>5. /\ call'[p] = None /\ \A q \in Procs \ {p} : call'[q] = call[q]
      /\ memVer'[p] = file.ver /\ \A q \in Procs \ {p} : memVer'[q] = memVer[q]
  BY DEF FileTypeOK
<1>6. CopiesInv' BY DEF CopiesInv, Copies, Sound
<1>7. DoneInv'
  <2>1. Effective' \subseteq Effective BY <1>1, <1>5 DEF Effective
  <2>2. ASSUME NEW x \in Effective PROVE WasLost(x)' = WasLost(x) /\ AllGone(x.id)' = AllGone(x.id)
    BY DEF WasLost, AllGone, Copies, Gone
  <2> QED BY <2>1, <2>2 DEF DoneInv, Holds
<1>8. ASSUME NEW q \in Procs PROVE KnowsFile(q)' /\ KnowsRevoked(q)'
  <2>1. KnowsFile(q) /\ KnowsRevoked(q) OBVIOUS
  <2>2. CASE q # p
    <3>1. KnowsFile(q)' BY <1>5, <2>1, <2>2 DEF KnowsFile, Extends, Gone, Holds
    <3>2. KnowsRevoked(q)' BY <1>5, <2>1, <2>2 DEF KnowsRevoked, WasLost, Refused, Gone
    <3> QED BY <3>1, <3>2
  <2>3. CASE q = p
    <3>1. file.ver = call[p].ver => mem[p] = file.tokens BY <1>1, <2>1, <2>3 DEF KnowsFile
    <3>2. Extends(mem[p], mem[p]) BY ExtendsItself
    <3>3. p \notin stale' => Extends(mem[p], file.tokens) BY <3>1, <3>2
    <3>4. KnowsFile(q)' BY <1>3, <1>5, <2>3, <3>3 DEF KnowsFile, Extends, Gone
    <3>5. KnowsRevoked(q)' BY <1>5, <2>3 DEF KnowsRevoked
    <3> QED BY <3>4, <3>5
  <2> QED BY <2>2, <2>3
<1>9. AckedChangesKept' /\ RevokedIsRefused' BY DEF AckedChangesKept, RevokedIsRefused
<1> QED BY <1>4, <1>6, <1>7, <1>8, <1>9

(* A process that has the file's version takes nothing out of the file.     *)
LEMMA NothingUndone ==
    ASSUME FileInv, NEW p \in Procs, Extends(mem[p], file.tokens)
    PROVE  Undone(mem[p]) = {}
<1>1. now \in Nat /\ PruneTicks \in Nat /\ file.tokens \in Tokens /\ file.tokens \in Copies
  BY FileNats DEF FileInv, Copies
<1>2. PICK ts : ts = Pruned(file.tokens) OBVIOUS
<1>3. Sound(file.tokens) BY <1>1 DEF FileInv, CopiesInv
<1>4. \A n \in Names : IF file.tokens[n] # None /\ Gone(file.tokens[n]) THEN ts[n] = None ELSE ts[n] = file.tokens[n]
  BY <1>1, <1>2, <1>3, PrunedSound
<1>5. ASSUME NEW c, Holds(ts, c) PROVE Holds(mem[p], c)
  <2>1. PICK n \in Names : /\ ts[n] # None /\ ts[n].id = c.id
                           /\ c.what = "revoked" => ts[n].revoked
                           /\ c.what = "granted" => ts[n].granted
    BY <1>5 DEF Holds
  <2>2. ts[n] = file.tokens[n] /\ ~ Gone(file.tokens[n]) BY <1>4, <2>1
  <2>3. mem[p][n] # None /\ Kept(file.tokens[n], mem[p][n]) BY <2>1, <2>2 DEF Extends
  <2> QED BY <2>1, <2>2, <2>3 DEF Holds, Kept, Same
<1> QED BY <1>2, <1>5 DEF Undone

(* What was in the file and is not undone is in the file still, or may be   *)
(* pruned.                                                                  *)
LEMMA RenameDone ==
    ASSUME FileInv, NEW p \in Procs, NEW c \in Effective, c \notin Undone(mem[p]), Holds(file.tokens, c)
    PROVE  Holds(mem[p], c) \/ AllGone(c.id)
<1>1. now \in Nat /\ PruneTicks \in Nat /\ file.tokens \in Tokens /\ file.tokens \in Copies
  BY FileNats DEF FileInv, Copies
<1>2. PICK ts : ts = Pruned(file.tokens) OBVIOUS
<1>3. Sound(file.tokens) BY <1>1 DEF FileInv, CopiesInv
<1>4. \A n \in Names : IF file.tokens[n] # None /\ Gone(file.tokens[n]) THEN ts[n] = None ELSE ts[n] = file.tokens[n]
  BY <1>1, <1>2, <1>3, PrunedSound
<1>5. PICK n \in Names : /\ file.tokens[n] # None /\ file.tokens[n].id = c.id
                         /\ c.what = "revoked" => file.tokens[n].revoked
                         /\ c.what = "granted" => file.tokens[n].granted
  BY DEF Holds
<1>6. CASE ~ Gone(file.tokens[n])
  <2>1. Holds(ts, c) BY <1>4, <1>5, <1>6 DEF Holds
  <2> QED BY <1>2, <2>1 DEF Undone
<1>7. CASE Gone(file.tokens[n])
  <2>1. ASSUME NEW us \in Copies, NEW m \in Names, us[m] # None, us[m].id = c.id PROVE Gone(us[m])
    <3>1. Agree(file.tokens, us) BY <1>1 DEF FileInv, CopiesInv
    <3>2. Same(file.tokens[n], us[m]) BY <1>5, <2>1, <3>1 DEF Agree
    <3> QED BY <1>7, <3>2 DEF Same, Gone
  <2> QED BY <2>1 DEF AllGone
<1> QED BY <1>6, <1>7

LEMMA RenameKeeps ==
    ASSUME FileInv, NEW p \in Procs, Rename(p)
    PROVE  FileInv'
<1> USE DEF FileInv
<1>1. call[p] \in Call /\ call[p] # None /\ call[p].step = "rename" BY DEF Rename, FileTypeOK
<1>2. file.ver \in Nat \ {0} /\ minted \in Nat BY FileNats
<1>3. PICK c : c = [call[p] EXCEPT !.step = "restat", !.ver = file.ver + 1] OBVIOUS
<1>4. /\ c \in Call /\ c.step = "restat" /\ c.ver = file.ver + 1 /\ c.kind = call[p].kind /\ c.id = call[p].id
      /\ c.after = call[p].after /\ c.done = call[p].done
  <2>1. PICK v \in Nat : v = file.ver + 1 BY <1>2
  <2>2. c = [call[p] EXCEPT !.step = "restat", !.ver = v] BY <1>3, <2>1
  <2> QED BY <1>1, <2>1, <2>2 DEF Call
<1>5. c # None BY <1>4, NoTokenAssumption
<1>6. PICK why : why = (IF file.ver # call[p].ver THEN "overlap" ELSE IF p \in stale THEN "stale" ELSE "alone") OBVIOUS
<1>7. /\ call' = [call EXCEPT ![p] = c] /\ file' = [tokens |-> mem[p], ver |-> file.ver + 1]
      /\ lost' = lost \cup {[change |-> x, why |-> why] : x \in Undone(mem[p])}
      /\ UNCHANGED <<mem, memVer, minted, now, faults, acked, stale, wrong>>
  BY <1>3, <1>6 DEF Rename, FileTypeOK
<1>8. why \in {"overlap", "stale", "alone"} /\ (why = "alone" => file.ver = call[p].ver /\ p \notin stale) BY <1>6
<1>9. why = "alone" => Undone(mem[p]) = {}
  <2>1. KnowsFile(p) OBVIOUS
  <2>2. why = "alone" => Extends(mem[p], file.tokens) BY <1>1, <1>8, <2>1 DEF KnowsFile
  <2> QED BY <2>2, NothingUndone
<1>10. Effective \subseteq Change
  <2>1. \A q \in Procs : call[q] # None => call[q] \in Call BY DEF FileTypeOK
  <2>2. \A q \in Procs : call[q] # None => call[q].done \subseteq Change BY <2>1 DEF Call
  <2>3. acked \subseteq Change BY DEF FileTypeOK
  <2> QED BY <2>2, <2>3 DEF Effective
<1>11. Undone(mem[p]) \subseteq Effective BY DEF Undone
<1>12. FileTypeOK'
  <2>1. lost' \subseteq [change : Change, why : {"overlap", "stale", "alone"}] BY <1>7, <1>8, <1>10, <1>11 DEF FileTypeOK
  <2>2. call' \in [Procs -> Call \cup {None}] BY <1>4, <1>7 DEF FileTypeOK
  <2>3. mem[p] \in Tokens BY DEF FileTypeOK
  <2>4. file' \in [tokens : Tokens, ver : Nat \ {0}] BY <1>2, <1>7, <2>3
  <2> QED BY <1>7, <2>1, <2>2, <2>4 DEF FileTypeOK
<1>13. call'[p] = c /\ \A q \in Procs \ {p} : call'[q] = call[q] BY <1>7 DEF FileTypeOK
<1>14. file'.tokens = mem[p] /\ file'.ver = file.ver + 1 BY <1>7
<1>15. Copies' \subseteq Copies /\ mem[p] \in Copies BY <1>7, <1>14 DEF Copies
<1>16. CopiesInv' BY <1>7, <1>15 DEF CopiesInv, Sound
<1>17. DoneInv'
  <2>1. Effective' \subseteq Effective \cup c.done BY <1>4, <1>5, <1>7, <1>13 DEF Effective
  <2>2. \A id : AllGone(id) => AllGone(id)' BY <1>7, <1>15 DEF AllGone, Gone
  <2>3. ASSUME NEW x \in c.done PROVE x.id \in 1 .. minted' /\ Holds(file.tokens, x)'
    <3>1. KnowsFile(p) OBVIOUS
    <3>2. Holds(mem[p], x) BY <1>1, <1>4, <3>1 DEF KnowsFile
    <3>3. Sound(mem[p]) BY <1>15 DEF CopiesInv
    <3>4. x.id \in 1 .. minted BY <3>2, <3>3 DEF Holds, Sound
    <3> QED BY <1>7, <1>14, <3>2, <3>4 DEF Holds
  <2>4. ASSUME NEW x \in Effective
        PROVE  x.id \in 1 .. minted' /\ (WasLost(x)' \/ Holds(file.tokens, x)' \/ AllGone(x.id)')
    <3>1. x.id \in 1 .. minted /\ (WasLost(x) \/ Holds(file.tokens, x) \/ AllGone(x.id)) BY DEF DoneInv
    <3>2. WasLost(x) \/ x \in Undone(mem[p]) => WasLost(x)'
      <4>1. WasLost(x) => WasLost(x)' BY <1>7 DEF WasLost
      <4>2. x \in Undone(mem[p]) => [change |-> x, why |-> why] \in lost' BY <1>7
      <4>3. [change |-> x, why |-> why].change = x OBVIOUS
      <4> QED BY <4>1, <4>2, <4>3 DEF WasLost
    <3>3. Holds(file.tokens, x) /\ x \notin Undone(mem[p]) => Holds(mem[p], x) \/ AllGone(x.id) BY RenameDone
    <3>4. Holds(mem[p], x) => Holds(file.tokens, x)' BY <1>14 DEF Holds
    <3> QED BY <1>7, <2>2, <3>1, <3>2, <3>3, <3>4
  <2> QED BY <2>1, <2>3, <2>4 DEF DoneInv
<1>18. ASSUME NEW q \in Procs PROVE KnowsFile(q)' /\ KnowsRevoked(q)'
  <2>1. KnowsFile(q) /\ KnowsRevoked(q) OBVIOUS
  <2>2. memVer[q] \in Nat BY DEF FileTypeOK
  <2>3. memVer'[q] <= file'.ver /\ memVer'[q] # file'.ver BY <1>2, <1>7, <1>14, <2>1, <2>2 DEF KnowsFile
  <2>4. \A x : WasLost(x) => WasLost(x)' BY <1>7 DEF WasLost
  <2>5. CASE q # p
    <3>1. call[q] # None => call[q].ver \in Nat BY DEF FileTypeOK, Call
    <3>2. call[q] # None => call[q].ver <= file'.ver /\ call[q].ver # file'.ver BY <1>2, <1>14, <2>1, <3>1 DEF KnowsFile
    <3>3. KnowsFile(q)' BY <1>7, <1>13, <2>1, <2>3, <2>5, <3>2 DEF KnowsFile, Holds
    <3>4. KnowsRevoked(q)' BY <1>7, <1>13, <2>1, <2>4, <2>5 DEF KnowsRevoked, Refused, Gone
    <3> QED BY <3>3, <3>4
  <2>6. CASE q = p
    <3>1. KnowsFile(q)' BY <1>2, <1>4, <1>7, <1>13, <1>14, <2>3, <2>6 DEF KnowsFile
    <3>2. KnowsRevoked(q)' BY <1>1, <1>4, <1>7, <1>13, <2>1, <2>6 DEF KnowsRevoked
    <3> QED BY <3>1, <3>2
  <2> QED BY <2>5, <2>6
<1>19. AckedChangesKept' BY <1>7, <1>9 DEF AckedChangesKept
<1>20. RevokedIsRefused' BY <1>7 DEF RevokedIsRefused
<1> QED BY <1>12, <1>16, <1>17, <1>18, <1>19, <1>20

(* A process starts afresh: a new token command, or the server again.       *)
LEMMA ForgetsTokens ==
    ASSUME FileInv, NEW p \in Procs, NEW c \in Call \cup {None},
           c # None => c.step = "read" /\ c.ver = file.ver /\ c.kind # "lookup",
           call' = [call EXCEPT ![p] = c],
           mem' = [mem EXCEPT ![p] = NoTokens], memVer' = [memVer EXCEPT ![p] = 0], stale' = stale \ {p},
           faults' \in 0 .. MaxFaults,
           UNCHANGED <<file, minted, now, acked, lost, wrong>>
    PROVE  FileInv'
<1> USE DEF FileInv
<1>1. NoTokens \in Tokens /\ \A n \in Names : NoTokens[n] = None BY DEF NoTokens, Tokens
<1>2. FileTypeOK' BY <1>1 DEF FileTypeOK
<1>3. file.ver \in Nat \ {0} /\ minted \in Nat BY FileNats
<1>4. /\ call'[p] = c /\ \A q \in Procs \ {p} : call'[q] = call[q]
      /\ mem'[p] = NoTokens /\ \A q \in Procs \ {p} : mem'[q] = mem[q]
      /\ memVer'[p] = 0 /\ \A q \in Procs \ {p} : memVer'[q] = memVer[q]
  BY DEF FileTypeOK
<1>5. Copies' \subseteq Copies \cup {NoTokens} /\ mem[p] \in Copies BY <1>4 DEF Copies
<1>6. Sound(NoTokens)' /\ MadeFrom(NoTokens, mem[p])
  <2>1. \A n \in Names : NoTokens[n] = None BY <1>1
  <2> QED BY <2>1 DEF Sound, MadeFrom
<1>7. CopiesInv' BY <1>3, <1>5, <1>6, CopiesAgree
<1>8. DoneInv'
  <2>1. Effective' \subseteq Effective BY <1>4 DEF Effective
  <2>2. ASSUME NEW x \in Effective PROVE WasLost(x)' = WasLost(x) /\ (AllGone(x.id) => AllGone(x.id)')
    BY <1>1, <1>5 DEF WasLost, AllGone, Gone
  <2> QED BY <2>1, <2>2 DEF DoneInv, Holds
<1>9. ASSUME NEW q \in Procs PROVE KnowsFile(q)' /\ KnowsRevoked(q)'
  <2>1. KnowsFile(q) /\ KnowsRevoked(q) OBVIOUS
  <2>2. CASE q # p
    <3>1. KnowsFile(q)' BY <1>4, <2>1, <2>2 DEF KnowsFile, Extends, Gone, Holds
    <3>2. KnowsRevoked(q)' BY <1>4, <2>1, <2>2 DEF KnowsRevoked, WasLost, Refused, Gone
    <3> QED BY <3>1, <3>2
  <2>3. CASE q = p BY <1>3, <1>4, <2>3 DEF KnowsFile, KnowsRevoked
  <2> QED BY <2>2, <2>3
<1>10. AckedChangesKept' /\ RevokedIsRefused' BY DEF AckedChangesKept, RevokedIsRefused
<1> QED BY <1>2, <1>7, <1>8, <1>9, <1>10

(* Time passes: what may be pruned stays so.                                *)
LEMMA TickKeeps ==
    ASSUME FileInv, Tick
    PROVE  FileInv'
<1> USE DEF FileInv, Tick
<1>1. now \in Nat /\ now' \in Nat /\ now' >= now /\ PruneTicks \in Nat BY FileNats
<1>2. UNCHANGED <<file, mem, memVer, call, minted, faults, acked, stale, lost, wrong>> BY DEF fileVars
<1>3. MaxNow \in Nat BY TokenFileAssumption
<1>4. FileTypeOK'
  <2>1. now' \in 0 .. MaxNow BY <1>1, <1>3
  <2> QED BY <1>2, <2>1 DEF FileTypeOK
<1>5. CopiesInv' BY <1>2 DEF CopiesInv, Copies, Sound
<1>6. Copies \subseteq Tokens BY FileNats DEF Copies, FileTypeOK
<1>7. ASSUME NEW ts \in Copies, NEW n \in Names, ts[n] # None, Gone(ts[n]) PROVE Gone(ts[n])'
  <2>1. ts[n].expires \in Nat BY <1>6, <1>7, TokenFields
  <2>2. ts[n].parent # None /\ now > ts[n].expires + PruneTicks BY <1>7 DEF Gone
  <2>3. now' > ts[n].expires + PruneTicks BY <1>1, <2>1, <2>2
  <2> QED BY <2>2, <2>3 DEF Gone
<1>8. DoneInv'
  <2>1. Effective' = Effective BY <1>2 DEF Effective
  <2>2. ASSUME NEW x \in Effective PROVE WasLost(x)' = WasLost(x) /\ (AllGone(x.id) => AllGone(x.id)')
    BY <1>2, <1>7 DEF WasLost, AllGone, Copies
  <2> QED BY <1>2, <2>1, <2>2 DEF DoneInv, Holds
<1>9. ASSUME NEW q \in Procs PROVE KnowsFile(q)' /\ KnowsRevoked(q)'
  <2>1. KnowsFile(q) /\ KnowsRevoked(q) OBVIOUS
  <2>2. mem[q] \in Copies /\ file.tokens \in Copies BY DEF Copies
  <2>3. Extends(mem[q], file.tokens) => Extends(mem[q], file.tokens)' BY <1>2, <1>7, <2>2 DEF Extends
  <2>4. \A id : Refused(mem[q], id) => Refused(mem[q], id)' BY <1>2, <1>7, <2>2 DEF Refused
  <2>5. KnowsFile(q)' BY <1>2, <2>1, <2>3 DEF KnowsFile, Holds
  <2>6. KnowsRevoked(q)' BY <1>2, <2>1, <2>4 DEF KnowsRevoked, WasLost
  <2> QED BY <2>5, <2>6
<1>10. AckedChangesKept' /\ RevokedIsRefused' BY <1>2 DEF AckedChangesKept, RevokedIsRefused
<1> QED BY <1>4, <1>5, <1>8, <1>9, <1>10

LEMMA FileInitInv == ASSUME FileInit PROVE FileInv
<1> USE DEF FileInit
<1>1. NoTokens \in Tokens /\ \A n \in Names : NoTokens[n] = None BY DEF NoTokens, Tokens
<1>2. FileTypeOK
  <2>1. {MaxTokens, MaxNow, MaxFaults} \subseteq Nat BY TokenFileAssumption
  <2>2. minted \in 0 .. MaxTokens /\ now \in 0 .. MaxNow /\ faults \in 0 .. MaxFaults BY <2>1
  <2> QED BY <1>1, <2>2 DEF FileTypeOK
<1>3. \A ts \in Copies : ts = NoTokens BY DEF Copies
<1>4. CopiesInv BY <1>1, <1>3 DEF CopiesInv, Sound, Agree
<1>5. Effective = {} BY DEF Effective
<1>6. \A p \in Procs : KnowsFile(p) /\ KnowsRevoked(p) BY DEF KnowsFile, KnowsRevoked
<1> QED BY <1>2, <1>4, <1>5, <1>6 DEF FileInv, DoneInv, AckedChangesKept, RevokedIsRefused

LEMMA FileStepKeeps ==
    ASSUME FileInv, NEW p \in Procs, FileStep(p)
    PROVE  FileInv'
BY ReadKeeps, CreateKeeps, ExchangeKeeps, RevokeKeeps, GrantKeeps, LookupKeeps, RenameKeeps, ReturnKeeps, RestatKeeps
   DEF FileStep

-----------------------------------------------------------------------------
(* The login.                                                               *)
ClientStates == [Devices -> [state : {"idle", "polling", "linked", "over"}, token : Nat]]

ClientMoves ==
    /\ client' \in ClientStates
    /\ \A d \in Devices : client'[d].state = "idle" => client[d].state = "idle"

Asked == {d \in Devices : req[d] # None}

LEMMA FileUnchanged ==
    ASSUME FileInv, UNCHANGED <<file, mem, memVer, call, minted, now, acked, stale, lost, wrong>>, faults' \in 0 .. MaxFaults
    PROVE  FileInv'
<1> USE DEF FileInv
<1>1. FileTypeOK' BY DEF FileTypeOK
<1>2. CopiesInv' BY DEF CopiesInv, Copies, Sound
<1>3. Effective' = Effective BY DEF Effective
<1>4. ASSUME NEW x \in Effective PROVE WasLost(x)' = WasLost(x) /\ AllGone(x.id)' = AllGone(x.id)
    BY DEF WasLost, AllGone, Copies, Gone
<1>5. DoneInv' BY <1>3, <1>4 DEF DoneInv, Holds
<1>6. ASSUME NEW q \in Procs PROVE KnowsFile(q)' /\ KnowsRevoked(q)'
  <2>1. KnowsFile(q) /\ KnowsRevoked(q) OBVIOUS
  <2> QED BY <2>1 DEF KnowsFile, Extends, Gone, Holds, KnowsRevoked, WasLost, Refused
<1>7. AckedChangesKept' /\ RevokedIsRefused' BY DEF AckedChangesKept, RevokedIsRefused
<1> QED BY <1>1, <1>2, <1>5, <1>6, <1>7

(* A step of a process's call, as the flow sees it.                         *)
LEMMA CallSteps ==
    ASSUME FileInv, NEW p \in Procs, FileStep(p)
    PROVE  /\ call[p] # None /\ \A q \in Procs \ {p} : call'[q] = call[q]
           /\ \/ call'[p] = None /\ minted' = minted /\ call[p].step # "read"
              \/ /\ call[p].kind \in {"revoke", "grant"} /\ minted' = minted
                 /\ call'[p] # None => call'[p].kind = call[p].kind
              \/ /\ call'[p] # None /\ call'[p].kind = call[p].kind /\ call'[p].id = call[p].id /\ minted' = minted
                 /\ \/ call[p].step = "read" /\ call'[p].step = "change"
                    \/ call[p].step = "rename" /\ call'[p].step = "restat"
              \/ /\ call'[p] # None /\ call'[p].kind = call[p].kind /\ call[p].step = "change" /\ call'[p].step = "rename"
                 /\ minted' = minted + 1 /\ call'[p].id = minted + 1
<1>1. call \in [Procs -> Call \cup {None}] BY DEF FileInv, FileTypeOK
<1>2. ASSUME NEW c \in Call PROVE c # None BY NoTokenAssumption
<1>3. CASE Read(p)
  <2>1. call[p] \in Call BY <1>1, <1>3 DEF Read
  <2>2. PICK c : c = [call[p] EXCEPT !.step = "change"] OBVIOUS
  <2>3. c \in Call /\ c.kind = call[p].kind /\ c.id = call[p].id /\ c.step = "change" BY <2>1, <2>2 DEF Call
  <2>4. call' = [call EXCEPT ![p] = c] BY <1>1, <1>3, <2>2 DEF Read
  <2> QED BY <1>1, <1>2, <1>3, <2>3, <2>4 DEF Read
<1>4. ASSUME ReturnUnchanged(p), call[p] # None, call[p].step = "change"
      PROVE  /\ call'[p] = None /\ minted' = minted /\ call[p].step # "read" /\ \A q \in Procs \ {p} : call'[q] = call[q]
  BY <1>1, <1>4 DEF ReturnUnchanged
<1>5. ASSUME NEW ts, NEW name, NEW kind, NEW parent, NEW expires, AppendToken(p, ts, name, kind, parent, expires),
             call[p] # None, call[p].step = "change"
      PROVE  /\ call'[p] # None /\ call'[p].kind = call[p].kind /\ call'[p].step = "rename"
             /\ minted' = minted + 1 /\ call'[p].id = minted + 1
             /\ \A q \in Procs \ {p} : call'[q] = call[q]
  <2>1. call[p] \in Call /\ minted \in Nat BY <1>1, <1>5, FileNats DEF FileInv
  <2>2. PICK x, v : x = {[id |-> minted + 1, what |-> "created"]} /\ v = minted + 1 OBVIOUS
  <2>3. PICK c : c = [call[p] EXCEPT !.step = "rename", !.id = v, !.done = x] OBVIOUS
  <2>4. x \in SUBSET Change /\ v \in Nat BY <2>1, <2>2 DEF Change
  <2>5. c \in Call /\ c.kind = call[p].kind /\ c.id = v /\ c.step = "rename" BY <2>1, <2>3, <2>4 DEF Call
  <2>6. call' = [call EXCEPT ![p] = c] BY <1>1, <1>5, <2>2, <2>3 DEF AppendToken
  <2> QED BY <1>1, <1>2, <1>5, <2>2, <2>5, <2>6 DEF AppendToken
<1>6. ASSUME NEW done, call' = [call EXCEPT ![p].step = "rename", ![p].done = done], call[p] # None
      PROVE  call'[p].kind = call[p].kind /\ \A q \in Procs \ {p} : call'[q] = call[q]
  <2>1. call[p] \in Call BY <1>1, <1>6
  <2> QED BY <1>1, <1>6, <2>1 DEF Call
<1>7. CASE Create(p) BY <1>4, <1>5, <1>7 DEF Create, Changing
<1>8. CASE Exchange(p) BY <1>4, <1>5, <1>8 DEF Exchange, Changing
<1>9. CASE Revoke(p) BY <1>4, <1>6, <1>9 DEF Revoke, Changing
<1>10. CASE Grant(p) BY <1>4, <1>6, <1>10 DEF Grant, Changing
<1>11. CASE Lookup(p) \/ SaveFails(p) \/ Restat(p) BY <1>1, <1>11 DEF Lookup, Changing, SaveFails, Restat
<1>12. CASE Rename(p)
  <2>1. call[p] \in Call /\ file.ver \in Nat BY <1>1, <1>12, FileNats DEF Rename, FileInv
  <2>2. PICK v \in Nat : v = file.ver + 1 BY <2>1
  <2>3. PICK c : c = [call[p] EXCEPT !.step = "restat", !.ver = v] OBVIOUS
  <2>4. c \in Call /\ c.kind = call[p].kind /\ c.id = call[p].id /\ c.step = "restat" BY <2>1, <2>2, <2>3 DEF Call
  <2>5. call' = [call EXCEPT ![p] = c] BY <1>1, <1>12, <2>2, <2>3 DEF Rename
  <2> QED BY <1>1, <1>2, <1>12, <2>4, <2>5 DEF Rename
<1> QED BY <1>3, <1>7, <1>8, <1>9, <1>10, <1>11, <1>12 DEF FileStep

(* The requests and the minted tokens stay as they are.                     *)
LEMMA FlowKept ==
    ASSUME LoginInv, FileInv', minted' \in {minted, minted + 1},
           UNCHANGED <<req, approving, issued, handed, orphans>>, ClientMoves,
           Minting' => Minting /\ MintedNow' = MintedNow,
           Minting => Minting',
           call'[Server] # None /\ call'[Server].kind = "create" => approving # None
    PROVE  LoginInv'
<1> USE DEF LoginInv
<1>1. UNCHANGED <<req, approving, issued, handed, orphans>> OBVIOUS
<1>2. minted \in Nat BY FileNats DEF FileInv
<1>3. TypeOK'
  <2>1. FileTypeOK' BY DEF FileInv
  <2> QED BY <1>1, <2>1 DEF TypeOK, ClientMoves, ClientStates
<1>4. IsFiniteSet({d \in Devices : req[d] # None})' BY <1>1
<1>5. ApproveInv' BY <1>1 DEF ApproveInv
<1>6. LinksInv'
  <2>1. \A i \in issued' : i.id \in 1 .. minted' BY <1>1, <1>2 DEF LinksInv
  <2> QED BY <1>1, <2>1 DEF LinksInv
<1>7. IssuedKnown'
  <2>1. Minting => MintedNow' = MintedNow OBVIOUS
  <2> QED BY <1>1, <2>1 DEF IssuedKnown
<1>8. NotAsked' BY <1>1 DEF NotAsked, ClientMoves
<1> QED BY <1>3, <1>4, <1>5, <1>6, <1>7, <1>8

(* A request begins at the server that is not a Create.                     *)
LEMMA RequestBegins ==
    ASSUME LoginInv, NEW kind \in {"revoke", "exchange", "lookup"}, NEW name \in Names, NEW id \in Nat,
           Begin(Server, kind, name, id),
           UNCHANGED <<file, mem, memVer, minted, now, faults, acked, stale, lost, wrong>>,
           UNCHANGED <<req, approving, issued, handed, orphans>>, ClientMoves
    PROVE  LoginInv'
<1>1. FileInv' BY BeginKeeps, TokenFileAssumption DEF LoginInv
<1>2. call[Server] = None /\ call'[Server].kind = kind
  BY TokenFileAssumption DEF Begin, NewCall, LoginInv, FileInv, FileTypeOK
<1>3. ~ Minting /\ ~ Minting' BY <1>2 DEF Minting
<1> QED BY <1>1, <1>2, <1>3, FlowKept

LEMMA ClientTypes ==
    ASSUME LoginInv
    PROVE  /\ client \in ClientStates
           /\ client' = client => ClientMoves
           /\ \A d \in Devices : client[d].token \in Nat /\ (client' = Ends(d) => ClientMoves)
<1>1. client \in ClientStates BY DEF LoginInv, TypeOK, ClientStates
<1>2. \A d \in Devices : client[d].token \in Nat BY <1>1 DEF ClientStates
<1>3. \A d \in Devices : Ends(d) \in ClientStates /\ \A e \in Devices : Ends(d)[e].state = "idle" => client[e].state = "idle"
  BY <1>1 DEF Ends, ClientStates
<1> QED BY <1>1, <1>2, <1>3 DEF ClientMoves

LEMMA RequestsKeep ==
    ASSUME LoginInv, NEW d \in Devices, Authenticate(d) \/ Logout(d)
    PROVE  LoginInv'
<1>1. UNCHANGED flowVars => UNCHANGED <<req, approving, issued, handed, orphans>> /\ client' = client BY DEF flowVars
<1>2. client[d].token \in Nat /\ (client' = client => ClientMoves) /\ (client' = Ends(d) => ClientMoves) BY ClientTypes
<1>3. CASE Authenticate(d)
  <2>1. NamesFor[d] \in Seq(Names) /\ NamesFor[d] # << >> BY DeviceAssumption
  <2>2. NamesFor[d][1] \in Names BY <2>1
  <2>3. PICK n \in Names : n = CHOOSE m \in Names : TRUE BY <2>2
  <2> QED BY <1>1, <1>2, <1>3, <2>3, RequestBegins DEF Authenticate
<1>4. CASE Logout(d)
  <2>1. PICK n \in Names : Begin(Server, "revoke", n, client[d].token) BY <1>4 DEF Logout
  <2> QED BY <1>1, <1>2, <1>4, <2>1, RequestBegins DEF Logout
<1> QED BY <1>3, <1>4

(* A token command, in a process of its own.                                *)
LEMMA TokenCommandKeeps ==
    ASSUME LoginInv, NEW p \in Procs, TokenCommand(p)
    PROVE  LoginInv'
<1>1. /\ UNCHANGED <<req, approving, issued, handed, orphans>> /\ client' = client /\ p # Server
  BY DEF TokenCommand, flowVars
<1>2. ClientMoves BY <1>1, ClientTypes
<1>3. FileInv /\ call \in [Procs -> Call \cup {None}] /\ Server \in Procs
  BY TokenFileAssumption DEF LoginInv, FileInv, FileTypeOK
<1>4. FileInv' /\ call'[Server] = call[Server] /\ minted' \in {minted, minted + 1}
  <2>1. CASE FileStep(p) BY <1>1, <1>3, <2>1, FileStepKeeps, CallSteps
  <2>2. CASE ~ FileStep(p)
    <3>1. PICK x \in Commands :
             /\ call' = [call EXCEPT ![p] = NewCall(x[1], x[2], 0, "read")]
             /\ mem' = [mem EXCEPT ![p] = NoTokens] /\ memVer' = [memVer EXCEPT ![p] = 0]
             /\ stale' = stale \ {p}
             /\ UNCHANGED <<file, minted, faults, acked, lost, wrong, now>>
      BY <2>2 DEF TokenCommand
    <3>2. x[1] \in {"create", "revoke", "grant"} /\ x[2] \in Names BY DeviceAssumption
    <3>3. PICK c : c = NewCall(x[1], x[2], 0, "read") OBVIOUS
    <3>4. c \in Call /\ c.step = "read" /\ c.ver = file.ver /\ c.kind # "lookup"
      BY <1>3, <3>2, <3>3, FileNats DEF NewCall, Call, FileInv
    <3>5. faults' \in 0 .. MaxFaults BY <1>3, <3>1 DEF FileInv, FileTypeOK
    <3>6. FileInv' BY <1>3, <3>1, <3>3, <3>4, <3>5, ForgetsTokens
    <3> QED BY <1>1, <1>3, <3>1, <3>6
  <2> QED BY <2>1, <2>2
<1>5. Minting' = Minting /\ MintedNow' = MintedNow BY <1>1, <1>4 DEF Minting, MintedNow
<1>6. call[Server] # None /\ call[Server].kind = "create" => approving # None BY DEF LoginInv, ApproveInv
<1> QED BY <1>1, <1>2, <1>4, <1>5, <1>6, FlowKept

-----------------------------------------------------------------------------
(* Requests come, are denied, are collected or go, while Approve is not     *)
(* minting: an approved one stays, is handed over or leaves an orphan.      *)
LEMMA RequestsChange ==
    ASSUME LoginInv, FileInv', approving = None,
           UNCHANGED <<call, minted, approving, issued>>,
           req' \in [Devices -> Request \cup {None}],
           IsFiniteSet(Asked'), Cardinality(Asked') <= MaxPending,
           ClientMoves,
           \A d \in Devices : req'[d] # None => req[d] # None \/ client'[d].state # "idle",
           handed \subseteq handed', handed' \subseteq issued,
           orphans \subseteq orphans',
           orphans' \subseteq [id : Nat, why : {"expired", "answer", "restart", "unsaved"}],
           \A d \in Devices : req'[d] # None /\ req'[d].state = "approved" =>
              req'[d] = req[d] /\ (handed' # handed => [id |-> req[d].link, to |-> d] \notin handed'),
           \A d \in Devices : req[d] # None /\ req[d].state = "approved" =>
              \/ req'[d] = req[d]
              \/ [id |-> req[d].link, to |-> d] \in handed'
              \/ \E o \in orphans' : o.id = req[d].link
    PROVE  LoginInv'
<1> USE DEF LoginInv
<1>1. TypeOK'
  <2>1. FileTypeOK' BY DEF FileInv
  <2>2. Cardinality({d \in Devices : req[d] # None})' <= MaxPending BY DEF Asked
  <2>3. handed' \subseteq [id : Nat, to : Devices] BY DEF TypeOK
  <2> QED BY <2>1, <2>2, <2>3 DEF TypeOK, ClientMoves, ClientStates
<1>2. IsFiniteSet({d \in Devices : req[d] # None})' BY DEF Asked
<1>3. ~ Minting /\ ~ Minting' BY DEF Minting
<1>4. ApproveInv' BY DEF ApproveInv
<1>5. LinksInv'
  <2>1. ASSUME NEW d \in Devices, req'[d] # None, req'[d].state = "approved"
        PROVE  [id |-> req'[d].link, to |-> d] \in issued \ handed'
    <3>1. req'[d] = req[d] BY <2>1
    <3>2. [id |-> req[d].link, to |-> d] \in issued \ handed BY <2>1, <3>1 DEF LinksInv
    <3> QED BY <2>1, <3>1, <3>2
  <2> QED BY <1>3, <2>1 DEF LinksInv
<1>6. IssuedKnown'
  <2>1. ASSUME NEW i \in issued
        PROVE  \/ i \in handed'
               \/ req'[i.to] # None /\ req'[i.to].state = "approved" /\ req'[i.to].link = i.id
               \/ \E o \in orphans' : o.id = i.id
    <3>1. i \in [id : Nat, to : Devices] BY DEF TypeOK
    <3>2. i.to \in Devices /\ i = [id |-> i.id, to |-> i.to] BY <3>1
    <3>3. CASE i \in handed BY <3>3
    <3>4. CASE \E o \in orphans : o.id = i.id BY <3>4
    <3>5. CASE req[i.to] # None /\ req[i.to].state = "approved" /\ req[i.to].link = i.id BY <3>2, <3>5
    <3> QED BY <1>3, <3>3, <3>4, <3>5 DEF IssuedKnown
  <2> QED BY <2>1 DEF IssuedKnown
<1>7. NotAsked' BY DEF NotAsked, ClientMoves
<1> QED BY <1>1, <1>2, <1>4, <1>5, <1>6, <1>7

(* Requests removed leave fewer.                                            *)
LEMMA FewerAsked ==
    ASSUME LoginInv, NEW S \in SUBSET Asked
    PROVE  IsFiniteSet(S) /\ Cardinality(S) <= MaxPending
<1>1. IsFiniteSet(Asked) /\ Cardinality(Asked) <= MaxPending BY DEF LoginInv, TypeOK, Asked
<1>2. IsFiniteSet(S) /\ Cardinality(S) <= Cardinality(Asked) BY <1>1, FS_Subset
<1>3. Cardinality(S) \in Nat /\ Cardinality(Asked) \in Nat /\ MaxPending \in Nat
  BY <1>1, <1>2, FS_CardinalityType, DeviceAssumption
<1> QED BY <1>1, <1>2, <1>3

LEMMA RequestFields ==
    ASSUME LoginInv, NEW d \in Devices, req[d] # None
    PROVE  req[d] \in Request /\ req[d].link \in Nat /\ req[d].expires \in Nat
BY DEF LoginInv, TypeOK, Request

LEMMA WithoutSome ==
    ASSUME LoginInv, NEW ds \in SUBSET Devices
    PROVE  /\ Without(ds) \in [Devices -> Request \cup {None}]
           /\ \A d \in Devices : Without(ds)[d] = IF d \in ds THEN None ELSE req[d]
BY DEF LoginInv, TypeOK, Without

LEMMA UncollectedTypes ==
    ASSUME LoginInv, NEW ds \in SUBSET Devices, NEW why \in {"expired", "answer", "restart", "unsaved"}
    PROVE  /\ Uncollected(ds, why) \subseteq [id : Nat, why : {"expired", "answer", "restart", "unsaved"}]
           /\ \A d \in ds : req[d] # None /\ req[d].state = "approved" =>
                 \E o \in Uncollected(ds, why) : o.id = req[d].link
<1>1. \A d \in ds : req[d] # None => req[d].link \in Nat BY RequestFields
<1>2. Uncollected(ds, why) \subseteq [id : Nat, why : {"expired", "answer", "restart", "unsaved"}]
  BY <1>1 DEF Uncollected
<1>3. ASSUME NEW d \in ds, req[d] # None, req[d].state = "approved"
      PROVE  \E o \in Uncollected(ds, why) : o.id = req[d].link
  <2>1. [id |-> req[d].link, why |-> why] \in Uncollected(ds, why) BY <1>3 DEF Uncollected
  <2> QED BY <2>1
<1> QED BY <1>2, <1>3

LEMMA SameFaults ==
    ASSUME LoginInv, UNCHANGED fileVars, UNCHANGED now
    PROVE  FileInv'
<1>1. faults' \in 0 .. MaxFaults BY DEF fileVars, LoginInv, FileInv, FileTypeOK
<1> QED BY <1>1, FileUnchanged DEF fileVars, LoginInv

LEMMA ForgetKeeps == ASSUME LoginInv, Forget PROVE LoginInv'
<1>1. PICK ds \in SUBSET Devices :
        req' = Without(ds) /\ orphans' = orphans \cup Uncollected(ds, "expired")
  BY DEF Forget, ExpiredRequests
<1>2. /\ UNCHANGED <<call, minted, approving, issued>> /\ handed' = handed /\ client' = client
      /\ UNCHANGED fileVars /\ UNCHANGED now /\ approving = None
  BY DEF Forget, fileVars, FlowFree
<1>3. FileInv' BY <1>2, SameFaults
<1>4. /\ req' \in [Devices -> Request \cup {None}]
      /\ \A d \in Devices : req'[d] = IF d \in ds THEN None ELSE req[d]
  BY <1>1, WithoutSome
<1>5. Asked' \subseteq Asked BY <1>4 DEF Asked
<1>6. IsFiniteSet(Asked') /\ Cardinality(Asked') <= MaxPending BY <1>5, FewerAsked
<1>7. ClientMoves BY <1>2, ClientTypes
<1>8. orphans' \subseteq [id : Nat, why : {"expired", "answer", "restart", "unsaved"}]
  BY <1>1, UncollectedTypes DEF LoginInv, TypeOK
<1>9. handed' \subseteq issued BY <1>2 DEF LoginInv, LinksInv
<1>10. \A d \in Devices : req[d] # None /\ req[d].state = "approved" =>
         req'[d] = req[d] \/ \E o \in orphans' : o.id = req[d].link
  BY <1>1, <1>4, UncollectedTypes
<1> QED BY <1>1, <1>2, <1>3, <1>4, <1>6, <1>7, <1>8, <1>9, <1>10, RequestsChange

LEMMA DenyKeeps == ASSUME LoginInv, NEW d \in Devices, Deny(d) PROVE LoginInv'
<1>1. /\ UNCHANGED <<call, minted, approving, issued>> /\ handed' = handed /\ client' = client /\ orphans' = orphans
      /\ UNCHANGED fileVars /\ UNCHANGED now /\ approving = None /\ req[d] # None /\ req[d].state = "pending"
      /\ req' = [req EXCEPT ![d].state = "denied"]
  BY DEF Deny, fileVars, FlowFree, Decidable, Live
<1>2. FileInv' BY <1>1, SameFaults
<1>3. req[d] \in Request BY <1>1, RequestFields
<1>4. PICK r : r = [req[d] EXCEPT !.state = "denied"] OBVIOUS
<1>5. r \in Request /\ r.state = "denied" BY <1>3, <1>4 DEF Request
<1>6. req' = [req EXCEPT ![d] = r] BY <1>1, <1>4 DEF LoginInv, TypeOK
<1>7. /\ req' \in [Devices -> Request \cup {None}]
      /\ \A e \in Devices : req'[e] = IF e = d THEN r ELSE req[e]
  BY <1>5, <1>6 DEF LoginInv, TypeOK
<1>8. Asked' \subseteq Asked BY <1>1, <1>7 DEF Asked
<1>9. IsFiniteSet(Asked') /\ Cardinality(Asked') <= MaxPending BY <1>8, FewerAsked
<1>10. ClientMoves BY <1>1, ClientTypes
<1>11. orphans' \subseteq [id : Nat, why : {"expired", "answer", "restart", "unsaved"}] BY <1>1 DEF LoginInv, TypeOK
<1>12. handed' \subseteq issued BY <1>1 DEF LoginInv, LinksInv
<1>13. /\ \A e \in Devices : req[e] # None /\ req[e].state = "approved" => req'[e] = req[e]
       /\ \A e \in Devices : req'[e] # None /\ req'[e].state = "approved" => req'[e] = req[e]
  BY <1>1, <1>5, <1>7
<1> QED BY <1>1, <1>2, <1>7, <1>9, <1>10, <1>11, <1>12, <1>13, RequestsChange

LEMMA StartKeeps == ASSUME LoginInv, NEW d \in Devices, Start(d) PROVE LoginInv'
<1>1. PICK kept : kept = Without(ExpiredRequests) OBVIOUS
<1>2. /\ UNCHANGED <<call, minted, approving, issued>> /\ handed' = handed
      /\ orphans' = orphans \cup Uncollected(ExpiredRequests, "expired")
      /\ UNCHANGED fileVars /\ UNCHANGED now /\ approving = None
  BY DEF Start, fileVars, FlowFree
<1>3. FileInv' BY <1>2, SameFaults
<1>4. ExpiredRequests \in SUBSET Devices BY DEF ExpiredRequests
<1>5. /\ kept \in [Devices -> Request \cup {None}]
      /\ \A e \in Devices : kept[e] = IF e \in ExpiredRequests THEN None ELSE req[e]
  BY <1>1, <1>4, WithoutSome
<1>6. PICK S : S = {e \in Devices : kept[e] # None} OBVIOUS
<1>7. S \subseteq Asked BY <1>5, <1>6 DEF Asked
<1>8. IsFiniteSet(S) /\ Cardinality(S) <= MaxPending /\ Cardinality(S) \in Nat /\ MaxPending \in Nat
  BY <1>7, FewerAsked, FS_CardinalityType, DeviceAssumption
<1>9. orphans' \subseteq [id : Nat, why : {"expired", "answer", "restart", "unsaved"}]
  BY <1>2, <1>4, UncollectedTypes DEF LoginInv, TypeOK
<1>10. handed' \subseteq issued BY <1>2 DEF LoginInv, LinksInv
<1>11. \A e \in Devices : req[e] # None /\ req[e].state = "approved" =>
         kept[e] = req[e] \/ \E o \in orphans' : o.id = req[e].link
  BY <1>2, <1>4, <1>5, UncollectedTypes
<1>12. client \in ClientStates /\ (client' = Ends(d) => ClientMoves) BY ClientTypes
<1>13. CASE Full(kept)
  <2>1. req' = kept /\ client' = Ends(d) BY <1>1, <1>13 DEF Start
  <2>2. Asked' = S BY <1>6, <2>1 DEF Asked
  <2>3. \A e \in Devices : req'[e] # None /\ req'[e].state = "approved" => req'[e] = req[e] BY <1>5, <2>1
  <2> QED BY <1>2, <1>3, <1>5, <1>8, <1>9, <1>10, <1>11, <1>12, <2>1, <2>2, <2>3, RequestsChange
<1>14. CASE ~ Full(kept)
  <2>1. PICK r : r = [state |-> "pending", expires |-> now + TTL, link |-> 0] OBVIOUS
  <2>2. req' = [kept EXCEPT ![d] = r] /\ client' = [client EXCEPT ![d].state = "polling"] BY <1>1, <1>14, <2>1 DEF Start
  <2>3. now \in Nat /\ TTL \in Nat BY FileNats, DeviceAssumption DEF LoginInv, FileInv
  <2>4. r \in Request /\ r.state = "pending" BY <2>1, <2>3 DEF Request
  <2>5. /\ req' \in [Devices -> Request \cup {None}]
        /\ \A e \in Devices : req'[e] = IF e = d THEN r ELSE kept[e]
    BY <1>5, <2>2, <2>4
  <2>6. ClientMoves /\ client'[d].state # "idle" BY <1>12, <2>2 DEF ClientMoves, ClientStates
  <2>7. Asked' = S \cup {d}
    <3>1. r # None BY <2>4, NoRequestAssumption
    <3> QED BY <1>6, <2>5, <3>1 DEF Asked
  <2>8. Cardinality(S) < MaxPending BY <1>6, <1>8, <1>14 DEF Full
  <2>9. IsFiniteSet(S \cup {d}) /\ Cardinality(S \cup {d}) \in {Cardinality(S), Cardinality(S) + 1} BY <1>8, FS_AddElement
  <2>10. IsFiniteSet(Asked') /\ Cardinality(Asked') <= MaxPending BY <1>8, <2>7, <2>8, <2>9
  <2>11. \A e \in Devices : req'[e] # None /\ req'[e].state = "approved" => req'[e] = req[e] BY <1>5, <2>4, <2>5
  <2>12. req[d] = None BY DEF Start, LoginInv, NotAsked
  <2> QED BY <1>5, <1>2, <1>3, <1>9, <1>10, <1>11, <2>5, <2>6, <2>10, <2>11, <2>12, RequestsChange
<1> QED BY <1>13, <1>14

LEMMA PollKeeps == ASSUME LoginInv, NEW d \in Devices, Poll(d) PROVE LoginInv'
<1>1. /\ UNCHANGED <<call, minted, approving, issued>> /\ approving = None
      /\ UNCHANGED <<file, mem, memVer, call, minted, now, acked, stale, lost, wrong>>
  BY DEF Poll, FlowFree
<1>2. faults' \in 0 .. MaxFaults
  <2>1. faults \in 0 .. MaxFaults /\ MaxFaults \in Nat BY TokenFileAssumption DEF LoginInv, FileInv, FileTypeOK
  <2> QED BY <2>1 DEF Poll
<1>3. FileInv' BY <1>1, <1>2, FileUnchanged DEF LoginInv
<1>4. /\ client \in ClientStates /\ (client' = Ends(d) => ClientMoves)
      /\ req \in [Devices -> Request \cup {None}]
      /\ orphans \subseteq [id : Nat, why : {"expired", "answer", "restart", "unsaved"}]
      /\ handed \subseteq issued
  BY ClientTypes DEF LoginInv, TypeOK, LinksInv
<1>5. /\ Without({d}) \in [Devices -> Request \cup {None}]
      /\ \A e \in Devices : Without({d})[e] = IF e = d THEN None ELSE req[e]
  BY WithoutSome
<1>6. {e \in Devices : Without({d})[e] # None} \subseteq Asked BY <1>5 DEF Asked
<1>7. req' \in {req, Without({d})} => IsFiniteSet(Asked') /\ Cardinality(Asked') <= MaxPending
  <2>1. req' \in {req, Without({d})} => Asked' \subseteq Asked BY <1>6 DEF Asked
  <2> QED BY <2>1, FewerAsked
<1>8. CASE req[d] = None /\ client' = Ends(d) /\ UNCHANGED <<req, handed, orphans, faults>>
  BY <1>1, <1>3, <1>4, <1>7, <1>8, RequestsChange
<1>9. CASE req' = Without({d}) /\ client' = Ends(d) /\ UNCHANGED handed
           /\ orphans' = orphans \cup Uncollected({d}, "expired")
  <2>1. /\ orphans' \subseteq [id : Nat, why : {"expired", "answer", "restart", "unsaved"}]
        /\ req[d] # None /\ req[d].state = "approved" => \E o \in orphans' : o.id = req[d].link
    BY <1>4, <1>9, UncollectedTypes
  <2> QED BY <1>1, <1>3, <1>4, <1>5, <1>7, <1>9, <2>1, RequestsChange
<1>10. CASE req[d].state = "denied" /\ req' = Without({d}) /\ client' = Ends(d) /\ UNCHANGED <<handed, orphans>>
  BY <1>1, <1>3, <1>4, <1>5, <1>7, <1>10, RequestsChange
<1>11. CASE /\ req[d] # None /\ req[d].state = "approved" /\ req' = AfterHandover(d)
            /\ handed' = handed \cup {[id |-> req[d].link, to |-> d]}
            /\ \/ /\ client' = [client EXCEPT ![d] = [state |-> "linked", token |-> req[d].link]]
                  /\ UNCHANGED orphans
               \/ /\ client' = Ends(d)
                  /\ orphans' = orphans \cup {[id |-> req[d].link, why |-> "answer"]}
  <2>1. req' = Without({d}) BY <1>11 DEF AfterHandover
  <2>2. req[d].link \in Nat BY <1>11, RequestFields
  <2>3. [id |-> req[d].link, to |-> d] \in issued BY <1>11 DEF LoginInv, LinksInv
  <2>4. ClientMoves
    <3>1. CASE client' = [client EXCEPT ![d] = [state |-> "linked", token |-> req[d].link]]
      BY <1>4, <2>2, <3>1 DEF ClientStates, ClientMoves
    <3> QED BY <1>4, <1>11, <3>1
  <2>5. orphans \subseteq orphans' /\ orphans' \subseteq [id : Nat, why : {"expired", "answer", "restart", "unsaved"}]
    BY <1>4, <1>11, <2>2
  <2>6. ASSUME NEW e \in Devices, req'[e] # None, req'[e].state = "approved"
        PROVE  req'[e] = req[e] /\ [id |-> req[e].link, to |-> e] \notin handed'
    <3>1. e # d /\ req'[e] = req[e] BY <1>5, <2>1, <2>6
    <3>2. [id |-> req[e].link, to |-> e] \notin handed BY <2>6, <3>1 DEF LoginInv, LinksInv
    <3>3. [id |-> req[e].link, to |-> e] # [id |-> req[d].link, to |-> d] BY <3>1
    <3> QED BY <1>11, <3>1, <3>2, <3>3
  <2>7. handed \subseteq handed' /\ handed' \subseteq issued BY <1>4, <1>11, <2>3
  <2> QED BY <1>1, <1>3, <1>4, <1>5, <1>7, <1>11, <2>1, <2>4, <2>5, <2>6, <2>7, RequestsChange
<1> QED BY <1>8, <1>9, <1>10, <1>11 DEF Poll, Live

LEMMA GiveUpKeeps == ASSUME LoginInv, NEW d \in Devices, GiveUp(d) PROVE LoginInv'
<1>1. /\ UNCHANGED <<call, minted, approving, issued, req, handed, orphans>> /\ client' = Ends(d)
      /\ UNCHANGED fileVars /\ UNCHANGED now
  BY DEF GiveUp, fileVars
<1>2. FileInv' BY <1>1, SameFaults
<1>3. ClientMoves BY <1>1, ClientTypes
<1>4. Minting' = Minting /\ MintedNow' = MintedNow BY <1>1 DEF Minting, MintedNow
<1>5. call'[Server] # None /\ call'[Server].kind = "create" => approving # None BY <1>1 DEF LoginInv, ApproveInv
<1> QED BY <1>1, <1>2, <1>3, <1>4, <1>5, FlowKept

LEMMA TickLogin == ASSUME LoginInv, Tick PROVE LoginInv'
<1>1. UNCHANGED <<call, minted, approving, issued, req, handed, orphans, client>> BY DEF Tick, fileVars, flowVars
<1>2. FileInv' BY TickKeeps DEF LoginInv
<1>3. ClientMoves BY <1>1, ClientTypes
<1>4. Minting' = Minting /\ MintedNow' = MintedNow BY <1>1 DEF Minting, MintedNow
<1>5. call'[Server] # None /\ call'[Server].kind = "create" => approving # None BY <1>1 DEF LoginInv, ApproveInv
<1> QED BY <1>1, <1>2, <1>3, <1>4, <1>5, FlowKept

(* Approve, and its next try: a Create begins at the server.                *)
LEMMA MintBegins ==
    ASSUME LoginInv, NEW d \in Devices, Approve(d) \/ MintAgain
    PROVE  LoginInv'
<1> USE DEF LoginInv
<1>1. PICK a \in Approval :
        /\ approving' = a /\ Begin(Server, "create", NamesFor[a.device][a.try], 0)
        /\ req[a.device] # None /\ req[a.device].state = "pending"
        /\ a.try \in 1 .. Len(NamesFor[a.device])
  <2>1. CASE Approve(d)
    <3>1. NamesFor[d] \in Seq(Names) /\ NamesFor[d] # << >> BY DeviceAssumption
    <3>2. 1 \in 1 .. Len(NamesFor[d]) BY <3>1
    <3>3. PICK a : a = [device |-> d, try |-> 1] OBVIOUS
    <3>4. a \in Approval /\ a.device = d /\ a.try = 1 BY <3>3 DEF Approval
    <3> QED BY <2>1, <3>2, <3>3, <3>4 DEF Approve, Decidable, Live
  <2>2. CASE MintAgain
    <3>1. approving # None /\ approving \in Approval /\ approving' = approving
      BY <2>2 DEF MintAgain, TypeOK, flowVars
    <3> QED BY <2>2, <3>1 DEF MintAgain, ApproveInv
  <2> QED BY <2>1, <2>2
<1>2. /\ UNCHANGED <<file, mem, memVer, minted, faults, acked, stale, lost, wrong, now, req, client, issued, handed, orphans>>
  BY DEF Approve, MintAgain, flowVars
<1>3. NamesFor[a.device][a.try] \in Names
  <2>1. a.device \in Devices BY DEF Approval
  <2>2. NamesFor[a.device] \in Seq(Names) BY <2>1, DeviceAssumption
  <2> QED BY <1>1, <2>2
<1>4. FileInv' BY <1>1, <1>2, <1>3, BeginKeeps, TokenFileAssumption
<1>5. call[Server] = None /\ call'[Server].step \in {"read", "change"}
  BY <1>1, TokenFileAssumption DEF Begin, NewCall, FileInv, FileTypeOK
<1>6. ~ Minting /\ ~ Minting' BY <1>5 DEF Minting
<1>7. a # None BY NoRequestAssumption
<1>8. TypeOK' BY <1>1, <1>2, <1>4 DEF TypeOK, FileInv
<1>9. IsFiniteSet({e \in Devices : req[e] # None})' BY <1>2
<1>10. ApproveInv' BY <1>1, <1>2, <1>7 DEF ApproveInv
<1>11. LinksInv' BY <1>2, <1>6 DEF LinksInv
<1>12. IssuedKnown' BY <1>2, <1>6 DEF IssuedKnown
<1>13. NotAsked' BY <1>2 DEF NotAsked
<1> QED BY <1>4, <1>8, <1>9, <1>10, <1>11, <1>12, <1>13

(* The end of Approve's Create: its request is approved, the token is lost  *)
(* to a failed save, or the next name is due.                               *)
LEMMA MintEnds ==
    ASSUME LoginInv, FileInv', MintResult, UNCHANGED <<client, handed, issued, minted>>,
           call[Server] # None, call[Server].kind = "create", call'[Server] = None
    PROVE  LoginInv'
<1> USE DEF LoginInv
<1>1. approving # None /\ approving \in Approval BY DEF ApproveInv, TypeOK
<1>2. PICK d \in Devices : d = approving.device BY <1>1 DEF Approval
<1>3. req[d] # None /\ req[d].state = "pending" BY <1>1, <1>2 DEF ApproveInv
<1>4. req[d] \in Request BY <1>3, RequestFields
<1>5. call[Server] \in Call /\ call[Server].id \in Nat BY TokenFileAssumption DEF FileInv, FileTypeOK, Call
<1>6. ~ Minting' BY DEF Minting
<1>7. FileTypeOK' BY DEF FileInv
<1>8. CASE /\ Saved(call[Server])
           /\ req' = [req EXCEPT ![d].state = "approved", ![d].link = call[Server].id]
           /\ approving' = None /\ UNCHANGED orphans
  <2>1. Minting BY <1>1, <1>8 DEF Minting, Saved
  <2>2. PICK r : r = [req[d] EXCEPT !.state = "approved", !.link = call[Server].id] OBVIOUS
  <2>3. r \in Request /\ r.state = "approved" /\ r.link = call[Server].id BY <1>4, <1>5, <2>2 DEF Request
  <2>4. r # None BY <2>3, NoRequestAssumption
  <2>5. /\ req' \in [Devices -> Request \cup {None}]
        /\ \A e \in Devices : req'[e] = IF e = d THEN r ELSE req[e]
    BY <1>8, <2>2, <2>3 DEF TypeOK
  <2>6. Asked' = Asked BY <1>3, <2>4, <2>5 DEF Asked
  <2>7. TypeOK' BY <1>7, <1>8, <2>5, <2>6 DEF TypeOK, Asked
  <2>8. IsFiniteSet({e \in Devices : req[e] # None})' BY <2>6 DEF Asked
  <2>9. ApproveInv' BY <1>8 DEF ApproveInv
  <2>10. MintedNow = [id |-> call[Server].id, to |-> d] /\ MintedNow \in issued \ handed
    BY <1>2, <2>1 DEF MintedNow, LinksInv
  <2>11. LinksInv' BY <1>6, <2>3, <2>5, <2>10 DEF LinksInv
  <2>12. IssuedKnown'
    <3>1. ASSUME NEW i \in issued
          PROVE  \/ i \in handed
                 \/ req'[i.to] # None /\ req'[i.to].state = "approved" /\ req'[i.to].link = i.id
                 \/ \E o \in orphans : o.id = i.id
      <4>1. i.to \in Devices BY DEF TypeOK
      <4>2. CASE i = MintedNow BY <2>3, <2>4, <2>5, <2>10, <4>2
      <4>3. CASE req[i.to] # None /\ req[i.to].state = "approved" /\ req[i.to].link = i.id
        <5>1. i.to # d BY <1>3, <4>3
        <5> QED BY <2>5, <4>1, <4>3, <5>1
      <4> QED BY <4>2, <4>3 DEF IssuedKnown
    <3> QED BY <1>8, <3>1 DEF IssuedKnown
  <2>13. NotAsked' BY <1>3, <2>5 DEF NotAsked
  <2> QED BY <2>7, <2>8, <2>9, <2>11, <2>12, <2>13
<1>9. CASE /\ call[Server].step = "rename" /\ approving' = None /\ UNCHANGED req
           /\ orphans' = orphans \cup {[id |-> call[Server].id, why |-> "unsaved"]}
  <2>1. TypeOK' BY <1>5, <1>7, <1>9 DEF TypeOK
  <2>2. ApproveInv' BY <1>9 DEF ApproveInv
  <2>3. LinksInv' BY <1>6, <1>9 DEF LinksInv
  <2>4. IssuedKnown'
    <3>1. [id |-> call[Server].id, why |-> "unsaved"] \in orphans' BY <1>9
    <3>2. MintedNow.id = [id |-> call[Server].id, why |-> "unsaved"].id BY DEF MintedNow
    <3>3. orphans \subseteq orphans' /\ UNCHANGED <<req, handed, issued>> BY <1>9
    <3> QED BY <3>1, <3>2, <3>3 DEF IssuedKnown
  <2>5. NotAsked' BY <1>9 DEF NotAsked
  <2>6. IsFiniteSet({e \in Devices : req[e] # None})' BY <1>9
  <2> QED BY <2>1, <2>2, <2>3, <2>4, <2>5, <2>6
<1>10. CASE /\ call[Server].step = "change" /\ UNCHANGED <<req, orphans>>
            /\ approving' = IF approving.try < Len(NamesFor[d]) THEN [device |-> d, try |-> approving.try + 1] ELSE None
  <2>1. NamesFor[d] \in Seq(Names) BY DeviceAssumption
  <2>2. Len(NamesFor[d]) \in Nat /\ approving.try \in Nat /\ approving.try \in 1 .. Len(NamesFor[d])
    BY <1>1, <1>2, <2>1 DEF Approval, ApproveInv
  <2>3. \/ approving' = None
        \/ approving' \in Approval /\ approving'.device = d /\ approving'.try \in 1 .. Len(NamesFor[d])
    BY <1>10, <2>2 DEF Approval
  <2>4. TypeOK' BY <1>7, <1>10, <2>3 DEF TypeOK
  <2>5. ApproveInv' BY <1>3, <1>10, <2>3 DEF ApproveInv
  <2>6. ~ Minting BY <1>10 DEF Minting
  <2>7. LinksInv' BY <1>6, <1>10 DEF LinksInv
  <2>8. IssuedKnown' BY <1>10, <2>6 DEF IssuedKnown
  <2>9. NotAsked' BY <1>10 DEF NotAsked
  <2>10. IsFiniteSet({e \in Devices : req[e] # None})' BY <1>10
  <2> QED BY <2>4, <2>5, <2>7, <2>8, <2>9, <2>10
<1> QED BY <1>2, <1>8, <1>9, <1>10 DEF MintResult

LEMMA ServerStepKeeps == ASSUME LoginInv, ServerStep PROVE LoginInv'
<1>1. /\ FileStep(Server) /\ UNCHANGED <<client, handed>>
      /\ IF CreateEnds THEN MintResult ELSE UNCHANGED <<req, approving, orphans>>
      /\ issued' = IF approving # None /\ call[Server] # None /\ call[Server].kind = "create" /\ minted' # minted
                   THEN issued \cup {[id |-> minted', to |-> approving.device]} ELSE issued
  BY DEF ServerStep
<1>2. FileInv /\ FileInv' /\ Server \in Procs /\ minted \in Nat
  BY <1>1, FileStepKeeps, FileNats, TokenFileAssumption DEF LoginInv, FileInv
<1>3. /\ call[Server] # None
      /\ \/ call'[Server] = None /\ minted' = minted /\ call[Server].step # "read"
         \/ /\ call[Server].kind \in {"revoke", "grant"} /\ minted' = minted
            /\ call'[Server] # None => call'[Server].kind = call[Server].kind
         \/ /\ call'[Server] # None /\ call'[Server].kind = call[Server].kind
            /\ call'[Server].id = call[Server].id /\ minted' = minted
            /\ \/ call[Server].step = "read" /\ call'[Server].step = "change"
               \/ call[Server].step = "rename" /\ call'[Server].step = "restat"
         \/ /\ call'[Server] # None /\ call'[Server].kind = call[Server].kind
            /\ call[Server].step = "change" /\ call'[Server].step = "rename"
            /\ minted' = minted + 1 /\ call'[Server].id = minted + 1
  BY <1>1, <1>2, CallSteps
<1>4. ClientMoves BY <1>1, ClientTypes
<1>5. call[Server].kind = "create" => approving # None BY <1>3 DEF LoginInv, ApproveInv
<1>6. CASE CreateEnds
  <2>1. call[Server].kind = "create" /\ call'[Server] = None BY <1>6 DEF CreateEnds
  <2>2. minted' = minted BY <1>3, <2>1
  <2> QED BY <1>1, <1>2, <1>3, <1>6, <2>1, <2>2, MintEnds
<1>7. CASE ~ CreateEnds /\ call[Server].kind # "create"
  <2>1. UNCHANGED <<req, approving, issued, handed, orphans>> /\ minted' \in {minted, minted + 1} BY <1>1, <1>3, <1>7
  <2>2. ~ Minting /\ ~ Minting' BY <1>3, <1>7 DEF Minting
  <2> QED BY <1>2, <1>3, <1>4, <1>7, <2>1, <2>2, FlowKept
<1>8. CASE ~ CreateEnds /\ call[Server].kind = "create" /\ minted' = minted
  <2>1. UNCHANGED <<req, approving, issued, handed, orphans>> BY <1>1, <1>8
  <2>2. call'[Server] # None BY <1>3, <1>8 DEF CreateEnds
  <2>3. /\ call'[Server].kind = "create" /\ call'[Server].id = call[Server].id
        /\ \/ call[Server].step = "read" /\ call'[Server].step = "change"
           \/ call[Server].step = "rename" /\ call'[Server].step = "restat"
    BY <1>2, <1>3, <1>8, <2>2
  <2>4. (Minting' <=> Minting) /\ MintedNow' = MintedNow BY <1>3, <1>8, <2>1, <2>2, <2>3 DEF Minting, MintedNow
  <2> QED BY <1>2, <1>4, <1>5, <1>8, <2>1, <2>4, FlowKept
<1>9. CASE ~ CreateEnds /\ call[Server].kind = "create" /\ minted' # minted
  <2> USE DEF LoginInv
  <2>1. /\ call'[Server] # None /\ call'[Server].kind = "create" /\ call[Server].step = "change"
        /\ call'[Server].step = "rename" /\ minted' = minted + 1 /\ call'[Server].id = minted + 1
    BY <1>3, <1>9
  <2>2. PICK a \in Devices : a = approving.device
    <3>1. approving \in Approval BY <1>5, <1>9 DEF TypeOK
    <3> QED BY <3>1 DEF Approval
  <2>3. UNCHANGED <<req, approving, handed, orphans>> /\ approving # None BY <1>1, <1>5, <1>9
  <2>4. PICK j : j = [id |-> minted + 1, to |-> a] OBVIOUS
  <2>5. issued' = issued \cup {j} /\ j \in [id : Nat, to : Devices] /\ j.id = minted + 1 BY <1>1, <1>2, <1>3, <1>9, <2>1, <2>2, <2>3, <2>4
  <2>6. Minting' /\ MintedNow' = j BY <2>1, <2>2, <2>3, <2>4 DEF Minting, MintedNow
  <2>7. ~ Minting BY <2>1 DEF Minting
  <2>8. TypeOK'
    <3>1. FileTypeOK' BY <1>2 DEF FileInv
    <3> QED BY <1>1, <2>3, <2>5, <3>1 DEF TypeOK
  <2>9. ApproveInv' BY <2>3 DEF ApproveInv
  <2>10. LinksInv'
    <3>1. \A i \in issued : i.id \in 1 .. minted BY DEF LinksInv
    <3>2. j \notin issued /\ j \notin handed BY <1>2, <2>5, <3>1 DEF LinksInv
    <3>3. \A i \in issued' : i.id \in 1 .. minted' BY <1>2, <2>1, <2>5, <3>1
    <3>4. \A i, k \in issued' : i.id = k.id => i = k
      <4>1. \A i \in issued : i.id # j.id BY <1>2, <2>5, <3>1
      <4>2. \A i, k \in issued : i.id = k.id => i = k BY DEF LinksInv
      <4> QED BY <2>5, <4>1, <4>2
    <3> QED BY <1>1, <2>3, <2>5, <2>6, <3>2, <3>3, <3>4 DEF LinksInv
  <2>11. IssuedKnown' BY <1>1, <2>3, <2>5, <2>6, <2>7 DEF IssuedKnown
  <2>12. NotAsked' BY <1>1, <2>3 DEF NotAsked
  <2>13. IsFiniteSet({e \in Devices : req[e] # None})' BY <2>3
  <2> QED BY <1>2, <2>8, <2>9, <2>10, <2>11, <2>12, <2>13
<1> QED BY <1>6, <1>7, <1>8, <1>9

LEMMA RestartKeeps == ASSUME LoginInv, Restart PROVE LoginInv'
<1> USE DEF LoginInv
<1>1. PICK X : X = IF approving # None /\ call[Server] # None /\ call[Server].step \in {"rename", "restat"}
                   THEN {[id |-> call[Server].id, why |-> "restart"]} ELSE {} OBVIOUS
<1>2. /\ req' = [d \in Devices |-> None] /\ approving' = None
      /\ orphans' = orphans \cup Uncollected(Devices, "restart") \cup X
      /\ call' = [call EXCEPT ![Server] = None]
      /\ mem' = [mem EXCEPT ![Server] = NoTokens] /\ memVer' = [memVer EXCEPT ![Server] = 0] /\ stale' = stale \ {Server}
      /\ UNCHANGED <<file, minted, acked, lost, wrong, now, client, issued, handed>>
  BY <1>1 DEF Restart
<1>3. faults' \in 0 .. MaxFaults
  <2>1. faults \in 0 .. MaxFaults /\ MaxFaults \in Nat BY TokenFileAssumption DEF FileInv, FileTypeOK
  <2> QED BY <2>1 DEF Restart
<1>4. FileInv' BY <1>2, <1>3, ForgetsTokens, TokenFileAssumption
<1>5. call'[Server] = None BY <1>2, TokenFileAssumption DEF FileInv, FileTypeOK
<1>6. ~ Minting' BY <1>2 DEF Minting
<1>7. \A d \in Devices : req'[d] = None BY <1>2
<1>8. X \subseteq [id : Nat, why : {"expired", "answer", "restart", "unsaved"}]
  <2>1. call[Server] # None => call[Server].id \in Nat BY TokenFileAssumption DEF FileInv, FileTypeOK, Call
  <2> QED BY <1>1, <2>1
<1>9. Asked' = {} BY <1>7 DEF Asked
<1>10. IsFiniteSet(Asked') /\ Cardinality(Asked') <= MaxPending
  <2>1. MaxPending \in Nat BY DeviceAssumption
  <2> QED BY <1>9, <2>1, FS_EmptySet
<1>11. TypeOK'
  <2>1. FileTypeOK' BY <1>4 DEF FileInv
  <2>2. orphans' \subseteq [id : Nat, why : {"expired", "answer", "restart", "unsaved"}]
    BY <1>2, <1>8, UncollectedTypes DEF TypeOK
  <2>3. req' \in [Devices -> Request \cup {None}] BY <1>2
  <2> QED BY <1>2, <1>10, <2>1, <2>2, <2>3 DEF TypeOK, Asked
<1>12. ApproveInv' BY <1>2, <1>5 DEF ApproveInv
<1>13. LinksInv' BY <1>2, <1>6, <1>7 DEF LinksInv
<1>14. IssuedKnown'
  <2>1. ASSUME NEW i \in issued PROVE i \in handed \/ \E o \in orphans' : o.id = i.id
    <3>1. i.to \in Devices BY DEF TypeOK
    <3>2. CASE req[i.to] # None /\ req[i.to].state = "approved" /\ req[i.to].link = i.id
      BY <1>2, <3>1, <3>2, UncollectedTypes
    <3>3. CASE Minting /\ MintedNow = i
      <4>1. PICK o : o = [id |-> i.id, why |-> "restart"] OBVIOUS
      <4>2. o \in X /\ o.id = i.id BY <1>1, <3>3, <4>1 DEF Minting, MintedNow
      <4> QED BY <1>2, <4>2
    <3> QED BY <1>2, <3>2, <3>3 DEF IssuedKnown
  <2> QED BY <1>2, <2>1 DEF IssuedKnown
<1>15. NotAsked' BY <1>7 DEF NotAsked
<1> QED BY <1>4, <1>10, <1>11, <1>12, <1>13, <1>14, <1>15 DEF Asked

-----------------------------------------------------------------------------
LEMMA LoginInit == ASSUME Init PROVE LoginInv
<1> USE DEF Init
<1>1. FileInv BY FileInitInv
<1>2. call[Server] = None BY TokenFileAssumption DEF FileInit
<1>3. {d \in Devices : req[d] # None} = {} OBVIOUS
<1>4. IsFiniteSet({}) /\ Cardinality({}) <= MaxPending
  <2>1. MaxPending \in Nat BY DeviceAssumption
  <2> QED BY <2>1, FS_EmptySet
<1>5. client \in [Devices -> [state : {"idle", "polling", "linked", "over"}, token : Nat]] BY DEF Idle
<1>6. TypeOK BY <1>1, <1>3, <1>4, <1>5 DEF TypeOK, FileInv
<1>7. ApproveInv /\ LinksInv /\ IssuedKnown /\ NotAsked
  BY <1>2 DEF ApproveInv, LinksInv, IssuedKnown, NotAsked, Minting
<1> QED BY <1>1, <1>3, <1>4, <1>6, <1>7 DEF LoginInv

LEMMA LoginNext == ASSUME LoginInv, [Next]_vars PROVE LoginInv'
<1>1. CASE \E d \in Devices : \/ Start(d) \/ Poll(d) \/ GiveUp(d) \/ Deny(d) \/ Approve(d)
                              \/ Authenticate(d) \/ Logout(d)
  BY <1>1, StartKeeps, PollKeeps, GiveUpKeeps, DenyKeeps, MintBegins, RequestsKeep
<1>2. CASE MintAgain
  <2>1. approving \in Approval BY <1>2 DEF MintAgain, LoginInv, TypeOK
  <2>2. approving.device \in Devices BY <2>1 DEF Approval
  <2> QED BY <1>2, <2>2, MintBegins
<1>3. CASE ExchangeKey
  <2>1. UNCHANGED <<req, approving, issued, handed, orphans>> /\ client' = client BY <1>3 DEF ExchangeKey, flowVars
  <2>2. PICK k \in Keys, n \in Exchanged : file.tokens[k] # None /\ Begin(Server, "exchange", n, file.tokens[k].id)
    BY <1>3 DEF ExchangeKey
  <2>3. n \in Names /\ k \in Names BY DeviceAssumption, TokenFileAssumption
  <2>4. file.tokens \in Tokens BY FileNats DEF LoginInv, FileInv
  <2>5. file.tokens[k].id \in Nat BY <2>2, <2>3, <2>4, TokenFields
  <2>6. ClientMoves BY <2>1, ClientTypes
  <2> QED BY <1>3, <2>1, <2>2, <2>3, <2>5, <2>6, RequestBegins DEF ExchangeKey
<1>4. CASE Forget \/ ServerStep \/ Restart \/ Tick BY <1>4, ForgetKeeps, ServerStepKeeps, RestartKeeps, TickLogin
<1>5. CASE \E p \in Procs : TokenCommand(p) BY <1>5, TokenCommandKeeps
<1>6. CASE UNCHANGED vars
  <2>1. /\ UNCHANGED fileVars /\ UNCHANGED now /\ UNCHANGED flowVars BY <1>6 DEF vars
  <2>2. FileInv' BY <2>1, SameFaults
  <2>3. UNCHANGED <<call, minted, approving, issued, req, handed, orphans, client>> BY <2>1 DEF fileVars, flowVars
  <2>4. ClientMoves BY <2>3, ClientTypes
  <2>5. Minting' = Minting /\ MintedNow' = MintedNow BY <2>3 DEF Minting, MintedNow
  <2>6. call'[Server] # None /\ call'[Server].kind = "create" => approving # None BY <2>3 DEF LoginInv, ApproveInv
  <2> QED BY <2>2, <2>3, <2>4, <2>5, <2>6, FlowKept
<1> QED BY <1>1, <1>2, <1>3, <1>4, <1>5, <1>6 DEF Next

(* The inductive invariant of the token file and the login.                 *)
THEOREM LoginInvariance == Spec => []LoginInv
<1>1. Init => LoginInv BY LoginInit
<1>2. LoginInv /\ [Next]_vars => LoginInv' BY LoginNext
<1> QED BY <1>1, <1>2, PTL DEF Spec

(* Types, and the bound on the requests that Start keeps (device.Flow).     *)
THEOREM LoginTypes == Spec => []TypeOK
<1>1. LoginInv => TypeOK BY DEF LoginInv
<1> QED BY <1>1, LoginInvariance, PTL

(* save: a change that was reported as done leaves the token file only      *)
(* through a save at the same time or a stale process.                      *)
THEOREM NoChangeLostAlone == Spec => []AckedChangesKept
<1>1. LoginInv => AckedChangesKept BY DEF LoginInv, FileInv
<1> QED BY <1>1, LoginInvariance, PTL

(* Lookup: a token whose revocation was reported, and was not lost in these *)
(* ways, is refused.                                                        *)
THEOREM RevocationHolds == Spec => []RevokedIsRefused
<1>1. LoginInv => RevokedIsRefused BY DEF LoginInv, FileInv
<1> QED BY <1>1, LoginInvariance, PTL

(* Revoke: a revoked environment key takes its tokens along, in every       *)
(* version of the file.                                                     *)
THEOREM KeysRevokeTheirTokens == Spec => []KeyTakesItsTokens
<1>1. ASSUME LoginInv PROVE KeyTakesItsTokens
  <2>1. file.tokens \in Copies BY DEF Copies
  <2>2. Sound(file.tokens) BY <1>1, <2>1 DEF LoginInv, FileInv, CopiesInv
  <2>3. None \notin Names BY TokenFileAssumption
  <2> QED BY <2>2, <2>3 DEF Sound, KeyTakesItsTokens
<1> QED BY <1>1, LoginInvariance, PTL

(* Approve and Poll: a minted token goes to its one machine, once.          *)
THEOREM TokensHandedOnce == Spec => []HandedOverOnce
<1>1. ASSUME LoginInv PROVE HandedOverOnce
  <2>1. LinksInv BY <1>1 DEF LoginInv
  <2>2. ASSUME NEW d \in Devices, NEW h \in handed, req[d] # None, req[d].state = "approved" PROVE req[d].link # h.id
    <3>1. [id |-> req[d].link, to |-> d] \in issued \ handed BY <2>1, <2>2 DEF LinksInv
    <3> QED BY <2>1, <3>1 DEF LinksInv
  <2> QED BY <2>1, <2>2 DEF LinksInv, HandedOverOnce
<1> QED BY <1>1, LoginInvariance, PTL

(* Approve: every token it minted is handed over, waiting, or an orphan for *)
(* a known reason.                                                          *)
THEOREM NoUnknownOrphans == Spec => []OrphansKnown
<1>1. LoginInv => OrphansKnown BY DEF LoginInv, IssuedKnown, OrphansKnown, Minting, MintedNow
<1> QED BY <1>1, LoginInvariance, PTL
=============================================================================
