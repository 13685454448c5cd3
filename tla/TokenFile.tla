------------------------------ MODULE TokenFile ------------------------------
(***************************************************************************)
(* The token file (server/auth): a JSON file that the server and the token  *)
(* commands of the command line each read, change in memory and replace by  *)
(* a rename.  Every process keeps the tokens it read until the file's       *)
(* modification time or size changes; its mutex covers its own calls only,  *)
(* and no lock covers the file.                                             *)
(***************************************************************************)
EXTENDS Naturals, FiniteSets

CONSTANTS
    Procs,       \* processes that open the token file
    Server,      \* the one that serves requests
    Names,       \* token names
    Keys,        \* the names used for environment keys
    None,
    TokenTicks,  \* TokenTTL of a key's tokens, in clock ticks
    PruneTicks,  \* pruneAfter
    MaxTokens,   \* bound: tokens minted
    MaxSaves,    \* bound: saves of the file
    MaxFaults,   \* bound: saves that fail, and restarts and lost answers (DeviceLogin)
    MaxNow       \* bound: the clock

ASSUME TokenFileAssumption ==
    /\ Server \in Procs
    /\ Keys \subseteq Names
    /\ None \notin Procs \cup Names
    /\ TokenTicks \in Nat \ {0}
    /\ {PruneTicks, MaxTokens, MaxSaves, MaxFaults, MaxNow} \subseteq Nat

VARIABLES
    file,    \* the file: its tokens by name, and which version of it this is
    mem,     \* TokenFile.tokens of each process
    memVer,  \* the version a process believes mem to be (mtime and size), 0 for not loaded
    call,    \* the call that holds each process's mutex
    minted,  \* tokens minted so far: a token's raw value is its number
    now,
    faults,
    acked,   \* history: changes reported as done
    stale,   \* history: processes whose mem is not the version memVer names
    lost,    \* history: the changes that left the file again after they were done, and why
    wrong    \* history: why a revoked token was accepted

fileVars == <<file, mem, memVer, call, minted, faults, acked, stale, lost, wrong>>

Token == [id : Nat, kind : {"token", "environment"}, parent : Names \cup {None},
          granted : BOOLEAN, revoked : BOOLEAN, expires : Nat]

Tokens == [Names -> Token \cup {None}]

Change == [id : Nat, what : {"created", "revoked", "granted"}]

(* kind and name are the request, id the token it is about (the one a       *)
(* lookup presents, or the one just minted), ver the version Stat saw, done *)
(* the changes it has made and after whether its token had been revoked     *)
(* before it began.                                                         *)
Call == [kind : {"create", "revoke", "grant", "exchange", "lookup"}, name : Names, id : Nat,
         step : {"read", "change", "rename", "restat"}, ver : Nat, done : SUBSET Change, after : BOOLEAN]

ASSUME NoTokenAssumption == None \notin Token \cup Call

FileTypeOK ==
    /\ file \in [tokens : Tokens, ver : Nat \ {0}]
    /\ mem \in [Procs -> Tokens]
    /\ memVer \in [Procs -> Nat]
    /\ call \in [Procs -> Call \cup {None}]
    /\ minted \in 0 .. MaxTokens /\ now \in 0 .. MaxNow /\ faults \in 0 .. MaxFaults
    /\ acked \subseteq Change
    /\ stale \subseteq Procs
    /\ lost \subseteq [change : Change, why : {"overlap", "stale", "alone"}]
    /\ wrong \subseteq {"lost", "stale", "unread"}

NoTokens == [n \in Names |-> None]

FileInit ==
    /\ file = [tokens |-> NoTokens, ver |-> 1]
    /\ mem = [p \in Procs |-> NoTokens]
    /\ memVer = [p \in Procs |-> 0]
    /\ call = [p \in Procs |-> None]
    /\ minted = 0 /\ now = 0 /\ faults = 0
    /\ acked = {} /\ stale = {} /\ lost = {} /\ wrong = {}

(* The change c is in the tokens ts.                                        *)
Holds(ts, c) ==
    \E n \in Names : /\ ts[n] # None /\ ts[n].id = c.id
                     /\ c.what = "revoked" => ts[n].revoked
                     /\ c.what = "granted" => ts[n].granted

Expired(t) == t.expires # 0 /\ now >= t.expires

-----------------------------------------------------------------------------
(* Mutant: a process that has read the file once never reads it again.      *)
Known_Once(p) == memVer[p] # 0

(* load: os.Stat finds the time and size of the tokens in memory.           *)
Known(p) == memVer[p] = file.ver

NewCall(kind, name, id, step) ==
    [kind |-> kind, name |-> name, id |-> id, step |-> step, ver |-> file.ver, done |-> {},
     after |-> [id |-> id, what |-> "revoked"] \in acked]

(* A call takes the mutex and stats the file.                               *)
Begin(p, kind, name, id) ==
    /\ call[p] = None
    /\ kind = "lookup" \/ file.ver <= MaxSaves
    /\ call' = [call EXCEPT ![p] = NewCall(kind, name, id, IF Known(p) THEN "change" ELSE "read")]

(* load: os.ReadFile, which may find a newer file than Stat did.            *)
Read(p) ==
    /\ call[p] # None /\ call[p].step = "read"
    /\ mem' = [mem EXCEPT ![p] = file.tokens]
    /\ memVer' = [memVer EXCEPT ![p] = call[p].ver]
    /\ stale' = stale \ {p}
    /\ call' = [call EXCEPT ![p].step = "change"]
    /\ UNCHANGED <<file, minted, now, faults, acked, lost, wrong>>

Changing(p, kind) == call[p] # None /\ call[p].step = "change" /\ call[p].kind = kind

(* The call returns, with an error or without having changed anything.      *)
ReturnUnchanged(p) ==
    /\ call' = [call EXCEPT ![p] = None]
    /\ UNCHANGED <<file, mem, memVer, minted, now, faults, acked, stale, lost, wrong>>

(* appendToken: mem has the token before it is saved.                       *)
Appended(ts, name, kind, parent, expires) ==
    [ts EXCEPT ![name] = [id |-> minted + 1, kind |-> kind, parent |-> parent,
                          granted |-> FALSE, revoked |-> FALSE, expires |-> expires]]

AppendToken(p, ts, name, kind, parent, expires) ==
    /\ minted < MaxTokens
    /\ minted' = minted + 1
    /\ mem' = [mem EXCEPT ![p] = Appended(ts, name, kind, parent, expires)]
    /\ call' = [call EXCEPT ![p].step = "rename", ![p].id = minted + 1, ![p].done = {[id |-> minted + 1, what |-> "created"]}]
    /\ UNCHANGED <<file, memVer, now, faults, acked, stale, lost, wrong>>

(* A taken name is ErrTokenExists.                                          *)
Create(p) ==
    /\ Changing(p, "create")
    /\ LET n == call[p].name
       IN  IF mem[p][n] # None THEN ReturnUnchanged(p)
           ELSE AppendToken(p, mem[p], n, IF n \in Keys THEN "environment" ELSE "token", None, 0)

(* match: an unrevoked token with that raw value.                           *)
Matches(p, n, id) == mem[p][n] # None /\ mem[p][n].id = id /\ ~ mem[p][n].revoked

(* prune: exchanged tokens that expired long ago.                           *)
Pruned(ts) ==
    [n \in Names |-> IF ts[n] # None /\ ts[n].parent # None /\ now > ts[n].expires + PruneTicks THEN None ELSE ts[n]]

(* Exchange: the key's value gives a token of a free name.                  *)
Exchange(p) ==
    /\ Changing(p, "exchange")
    /\ LET keys == {k \in Names : Matches(p, k, call[p].id) /\ mem[p][k].kind = "environment"}
       IN  IF keys = {} \/ mem[p][call[p].name] # None THEN ReturnUnchanged(p)
           ELSE \E k \in keys : AppendToken(p, Pruned(mem[p]), call[p].name, "token", k, now + TokenTicks)

(* Mutant: the tokens a key was exchanged for outlive it.                   *)
RevokedWith_KeyOnly(ts, n) == {n}

(* Revoking an environment key revokes the tokens it was exchanged for.     *)
RevokedWith(ts, n) ==
    {n} \cup {m \in Names : ts[m] # None /\ ts[n].kind = "environment" /\ ts[m].parent = n}

Revoke(p) ==
    /\ Changing(p, "revoke")
    /\ LET n == call[p].name
           out == {m \in RevokedWith(mem[p], n) : ~ mem[p][m].revoked}
       IN  IF mem[p][n] = None \/ out = {} THEN ReturnUnchanged(p)
           ELSE /\ mem' = [mem EXCEPT ![p] = [m \in Names |-> IF m \in out THEN [mem[p][m] EXCEPT !.revoked = TRUE] ELSE mem[p][m]]]
                /\ call' = [call EXCEPT ![p].step = "rename", ![p].done = {[id |-> mem[p][m].id, what |-> "revoked"] : m \in out}]
                /\ UNCHANGED <<file, memVer, minted, now, faults, acked, stale, lost, wrong>>

(* Grant: more projects, but not to a revoked token.                        *)
Grant(p) ==
    /\ Changing(p, "grant")
    /\ LET n == call[p].name
       IN  IF mem[p][n] = None \/ mem[p][n].revoked THEN ReturnUnchanged(p)
           ELSE /\ mem' = [mem EXCEPT ![p][n].granted = TRUE]
                /\ call' = [call EXCEPT ![p].step = "rename", ![p].done = {[id |-> mem[p][n].id, what |-> "granted"]}]
                /\ UNCHANGED <<file, memVer, minted, now, faults, acked, stale, lost, wrong>>

WasLost(c) == \E l \in lost : l.change = c

(* Lookup of a request's bearer.                                            *)
Lookup(p) ==
    /\ Changing(p, "lookup")
    /\ LET ok == \E n \in Names : Matches(p, n, call[p].id) /\ mem[p][n].kind = "token" /\ ~ Expired(mem[p][n])
           why == IF WasLost([id |-> call[p].id, what |-> "revoked"]) THEN "lost"
                  ELSE IF p \in stale THEN "stale" ELSE "unread"
       IN  wrong' = IF ok /\ call[p].after THEN wrong \cup {why} ELSE wrong
    /\ call' = [call EXCEPT ![p] = None]
    /\ UNCHANGED <<file, mem, memVer, minted, now, faults, acked, stale, lost>>

-----------------------------------------------------------------------------
(* The changes that are reported as done, or are about to be.               *)
Effective == acked \cup UNION {call[q].done : q \in {r \in Procs : call[r] # None /\ call[r].step = "restat"}}

(* What the tokens new would take out of the file, pruned tokens aside.     *)
Undone(new) == {c \in Effective : Holds(Pruned(file.tokens), c) /\ ~ Holds(new, c)}

(* save: the rename.  When it undoes something: somebody else has saved     *)
(* since this call looked, or its process had the wrong tokens.             *)
Rename(p) ==
    /\ call[p] # None /\ call[p].step = "rename" /\ file.ver <= MaxSaves
    /\ LET why == IF file.ver # call[p].ver THEN "overlap" ELSE IF p \in stale THEN "stale" ELSE "alone"
       IN  lost' = lost \cup {[change |-> c, why |-> why] : c \in Undone(mem[p])}
    /\ file' = [tokens |-> mem[p], ver |-> file.ver + 1]
    /\ call' = [call EXCEPT ![p].step = "restat", ![p].ver = file.ver + 1]
    /\ UNCHANGED <<mem, memVer, minted, now, faults, acked, stale, wrong>>

(* save fails: the call reports it and mem keeps the change.                *)
SaveFails(p) ==
    /\ call[p] # None /\ call[p].step = "rename" /\ faults < MaxFaults
    /\ faults' = faults + 1
    /\ call' = [call EXCEPT ![p] = None]
    /\ UNCHANGED <<file, mem, memVer, minted, now, acked, stale, lost, wrong>>

(* save: the Stat after the rename takes whatever version is there for the  *)
(* one just written.                                                        *)
Restat(p) ==
    /\ call[p] # None /\ call[p].step = "restat"
    /\ memVer' = [memVer EXCEPT ![p] = file.ver]
    /\ stale' = IF file.ver # call[p].ver THEN stale \cup {p} ELSE stale
    /\ acked' = acked \cup call[p].done
    /\ call' = [call EXCEPT ![p] = None]
    /\ UNCHANGED <<file, mem, minted, now, faults, lost, wrong>>

FileStep(p) ==
    \/ Read(p)
    \/ Create(p) \/ Exchange(p) \/ Revoke(p) \/ Grant(p) \/ Lookup(p)
    \/ Rename(p) \/ SaveFails(p) \/ Restat(p)

-----------------------------------------------------------------------------
(* A change that was reported as done leaves the file again only when       *)
(* another process was saving at the same time, or when an earlier save     *)
(* took another process's version for its own: never when the calls follow  *)
(* each other.                                                              *)
AckedChangesKept == \A l \in lost : l.why # "alone"

(* A token whose revocation was reported is refused by every request that   *)
(* comes after, unless that revocation was lost in one of these two ways or *)
(* the server has taken another process's version for its own.              *)
RevokedIsRefused == "unread" \notin wrong

(* The tokens of a revoked environment key are revoked with it, in every    *)
(* version of the file: concurrent saves lose changes, they never mix them. *)
KeyTakesItsTokens ==
    \A n, k \in Names :
        file.tokens[n] # None /\ file.tokens[n].parent = k /\ file.tokens[k] # None /\ file.tokens[k].revoked =>
            file.tokens[n].revoked
=============================================================================
