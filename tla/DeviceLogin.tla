----------------------------- MODULE DeviceLogin -----------------------------
(***************************************************************************)
(* The device login (server/device, server/device_routes.go and the login   *)
(* command): a machine without a token asks for a code and polls, somebody  *)
(* with a token approves or denies the code, and the next poll takes the    *)
(* token that was minted.  Requests live in the server's memory only.       *)
(* Approve holds the flow's mutex while the token file is read and saved.   *)
(***************************************************************************)
EXTENDS TokenFile, Sequences

CONSTANTS
    Devices,      \* login commands, each with the random codes it is given
    NamesFor,     \* the names mint tries for each: name, name-2, ...
    Exchanged,    \* the names of exchanged tokens, random
    Commands,     \* token commands the operator gives: <<kind, name>>
    MaxPending,   \* requests kept
    TTL           \* lifetime of a request, in clock ticks

ASSUME DeviceAssumption ==
    /\ NamesFor \in [Devices -> Seq(Names) \ {<< >>}]
    /\ Exchanged \subseteq Names
    /\ Commands \subseteq {"create", "revoke", "grant"} \X Names
    /\ {MaxPending, TTL} \subseteq Nat

VARIABLES
    req,        \* the flow's requests
    approving,  \* the request Approve is minting for, and which name it tries
    client,     \* what each machine's login command does
    issued,     \* history: the tokens minted by an approval, for whom
    handed,     \* history: the tokens handed over, to whom
    orphans     \* history: tokens minted for a login that will never get them, and why

flowVars == <<req, approving, client, issued, handed, orphans>>

vars == <<fileVars, now, flowVars>>

(* link is the token of an approved request.                                *)
Request == [state : {"pending", "approved", "denied"}, expires : Nat, link : Nat]

Approval == [device : Devices, try : Nat]

ASSUME NoRequestAssumption == None \notin Request \cup Approval

TypeOK ==
    /\ FileTypeOK
    /\ req \in [Devices -> Request \cup {None}]
    /\ Cardinality({d \in Devices : req[d] # None}) <= MaxPending
    /\ approving \in Approval \cup {None}
    /\ client \in [Devices -> [state : {"idle", "polling", "linked", "over"}, token : Nat]]
    /\ issued \subseteq [id : Nat, to : Devices]
    /\ handed \subseteq [id : Nat, to : Devices]
    /\ orphans \subseteq [id : Nat, why : {"expired", "answer", "restart", "unsaved"}]

Idle == [state |-> "idle", token |-> 0]

Init ==
    /\ FileInit
    /\ req = [d \in Devices |-> None]
    /\ approving = None
    /\ client = [d \in Devices |-> Idle]
    /\ issued = {} /\ handed = {} /\ orphans = {}

(* Approve has released the flow's mutex.                                   *)
FlowFree == approving = None

Live(d) == req[d] # None /\ now < req[d].expires

(* Tokens nobody can collect any more once the requests ds are removed.     *)
Uncollected(ds, why) == {[id |-> req[d].link, why |-> why] : d \in {e \in ds : req[e] # None /\ req[e].state = "approved"}}

ExpiredRequests == {d \in Devices : req[d] # None /\ ~ Live(d)}

Without(ds) == [d \in Devices |-> IF d \in ds THEN None ELSE req[d]]

Ends(d) == [client EXCEPT ![d] = [state |-> "over", token |-> 0]]

-----------------------------------------------------------------------------
Full(kept) == Cardinality({e \in Devices : kept[e] # None}) >= MaxPending

(* The login command asks for a code: Start prunes, then refuses when full. *)
Start(d) ==
    /\ FlowFree /\ client[d].state = "idle"
    /\ LET kept == Without(ExpiredRequests)
       IN  /\ req' = IF Full(kept) THEN kept
                     ELSE [kept EXCEPT ![d] = [state |-> "pending", expires |-> now + TTL, link |-> 0]]
           /\ client' = IF Full(kept) THEN Ends(d) ELSE [client EXCEPT ![d].state = "polling"]
    /\ orphans' = orphans \cup Uncollected(ExpiredRequests, "expired")
    /\ UNCHANGED <<fileVars, now, approving, issued, handed>>

(* Pending, for the approver, prunes too; Approve and Deny drop the request *)
(* they are about when it has expired (decidable).                          *)
Forget ==
    /\ FlowFree /\ ExpiredRequests # {}
    /\ \E ds \in {{d} : d \in ExpiredRequests} \cup {ExpiredRequests} :
         /\ req' = Without(ds)
         /\ orphans' = orphans \cup Uncollected(ds, "expired")
    /\ UNCHANGED <<fileVars, now, approving, client, issued, handed>>

(* Mutant: the link stays after it was handed over.                         *)
AfterHandover_Kept(d) == req

(* The request is forgotten as its link is handed over.                     *)
AfterHandover(d) == Without({d})

(* Poll, for the answers that change anything (a pending request, and one   *)
(* polled too fast, are asked about again).  They end the login command,    *)
(* which also ends when a link is lost on the way: by then the server has   *)
(* forgotten the request.                                                   *)
Poll(d) ==
    /\ FlowFree /\ client[d].state = "polling"
    /\ UNCHANGED <<file, mem, memVer, call, minted, now, acked, stale, lost, wrong, approving, issued>>
    /\ \/ /\ req[d] = None
          /\ client' = Ends(d)
          /\ UNCHANGED <<req, handed, orphans, faults>>
       \/ /\ req[d] # None /\ ~ Live(d)
          /\ req' = Without({d})
          /\ client' = Ends(d)
          /\ orphans' = orphans \cup Uncollected({d}, "expired")
          /\ UNCHANGED <<handed, faults>>
       \/ /\ Live(d) /\ req[d].state = "denied"
          /\ req' = Without({d})
          /\ client' = Ends(d)
          /\ UNCHANGED <<handed, orphans, faults>>
       \/ /\ Live(d) /\ req[d].state = "approved"
          /\ req' = AfterHandover(d)
          /\ handed' = handed \cup {[id |-> req[d].link, to |-> d]}
          /\ \/ /\ client' = [client EXCEPT ![d] = [state |-> "linked", token |-> req[d].link]]
                /\ UNCHANGED <<orphans, faults>>
             \/ /\ faults < MaxFaults /\ faults' = faults + 1
                /\ client' = Ends(d)
                /\ orphans' = orphans \cup {[id |-> req[d].link, why |-> "answer"]}

(* The login command stops: --wait has passed, it is interrupted or a poll  *)
(* does not reach the server.                                               *)
GiveUp(d) ==
    /\ client[d].state = "polling"
    /\ client' = Ends(d)
    /\ UNCHANGED <<fileVars, now, req, approving, issued, handed, orphans>>

-----------------------------------------------------------------------------
(* Mutant: a request can be decided again.                                  *)
Decidable_Live(d) == Live(d)

Decidable(d) == Live(d) /\ req[d].state = "pending"

Deny(d) ==
    /\ FlowFree /\ Decidable(d)
    /\ req' = [req EXCEPT ![d].state = "denied"]
    /\ UNCHANGED <<fileVars, now, approving, client, issued, handed, orphans>>

(* Approve: mint calls the token file's Create with the first name.         *)
Approve(d) ==
    /\ FlowFree /\ Decidable(d) /\ minted < MaxTokens
    /\ Begin(Server, "create", NamesFor[d][1], 0)
    /\ approving' = [device |-> d, try |-> 1]
    /\ UNCHANGED <<file, mem, memVer, minted, faults, acked, stale, lost, wrong, now, req, client, issued, handed, orphans>>

(* The step of the token file that ends Approve's Create.                   *)
CreateEnds == call[Server] # None /\ call[Server].kind = "create" /\ call'[Server] = None

Saved(c) == c.step = "restat"

(* mint goes on with the next name while names are taken; a failed save     *)
(* ends it, and the request can be approved again.                          *)
MintResult ==
    LET d == approving.device
        t == approving.try
    IN  \/ /\ Saved(call[Server])
           /\ req' = [req EXCEPT ![d].state = "approved", ![d].link = call[Server].id]
           /\ approving' = None
           /\ UNCHANGED orphans
        \/ /\ ~ Saved(call[Server]) /\ call[Server].step = "rename"
           /\ approving' = None
           /\ orphans' = orphans \cup {[id |-> call[Server].id, why |-> "unsaved"]}
           /\ UNCHANGED req
        \/ /\ call[Server].step = "change"
           /\ approving' = IF t < Len(NamesFor[d]) THEN [device |-> d, try |-> t + 1] ELSE None
           /\ UNCHANGED <<req, orphans>>

(* The next name is tried.                                                  *)
MintAgain ==
    /\ approving # None /\ call[Server] = None
    /\ Begin(Server, "create", NamesFor[approving.device][approving.try], 0)
    /\ UNCHANGED <<file, mem, memVer, minted, faults, acked, stale, lost, wrong, now, flowVars>>

(* The server's token file moves on.                                        *)
ServerStep ==
    /\ FileStep(Server)
    /\ IF CreateEnds THEN MintResult ELSE UNCHANGED <<req, approving, orphans>>
    /\ issued' = IF approving # None /\ call[Server] # None /\ call[Server].kind = "create" /\ minted' # minted
                 THEN issued \cup {[id |-> minted', to |-> approving.device]} ELSE issued
    /\ UNCHANGED <<client, handed>>

-----------------------------------------------------------------------------
(* Requests that carry a token: any call of a linked machine, and its       *)
(* logout, which is looked up first and then revokes the token's name.      *)
Authenticate(d) ==
    /\ client[d].state = "linked"
    /\ Begin(Server, "lookup", CHOOSE n \in Names : TRUE, client[d].token)
    /\ UNCHANGED <<file, mem, memVer, minted, faults, acked, stale, lost, wrong, now, flowVars>>

Logout(d) ==
    /\ client[d].state = "linked"
    /\ \E n \in Names : /\ Matches(Server, n, client[d].token)
                        /\ Begin(Server, "revoke", n, client[d].token)
    /\ client' = Ends(d)
    /\ UNCHANGED <<file, mem, memVer, minted, faults, acked, stale, lost, wrong, now, req, approving, issued, handed, orphans>>

(* A machine with an environment key exchanges it.                          *)
ExchangeKey ==
    /\ \E k \in Keys, n \in Exchanged :
         file.tokens[k] # None /\ Begin(Server, "exchange", n, file.tokens[k].id)
    /\ UNCHANGED <<file, mem, memVer, minted, faults, acked, stale, lost, wrong, now, flowVars>>

(* The operator's token commands, each in a process of its own, which reads *)
(* the file first.                                                          *)
TokenCommand(p) ==
    /\ p # Server
    /\ \/ call[p] = None /\ file.ver <= MaxSaves /\ \E c \in Commands :
             /\ call' = [call EXCEPT ![p] = NewCall(c[1], c[2], 0, "read")]
             /\ mem' = [mem EXCEPT ![p] = NoTokens] /\ memVer' = [memVer EXCEPT ![p] = 0]
             /\ stale' = stale \ {p}
             /\ UNCHANGED <<file, minted, faults, acked, lost, wrong, now>>
       \/ FileStep(p)
    /\ UNCHANGED flowVars

(* The server is restarted: requests and cached tokens are gone.            *)
Restart ==
    /\ faults < MaxFaults /\ faults' = faults + 1
    /\ req' = [d \in Devices |-> None]
    /\ orphans' = orphans \cup Uncollected(Devices, "restart")
                   \cup (IF approving # None /\ call[Server] # None /\ call[Server].step \in {"rename", "restat"}
                         THEN {[id |-> call[Server].id, why |-> "restart"]} ELSE {})
    /\ approving' = None
    /\ call' = [call EXCEPT ![Server] = None]
    /\ mem' = [mem EXCEPT ![Server] = NoTokens] /\ memVer' = [memVer EXCEPT ![Server] = 0]
    /\ stale' = stale \ {Server}
    /\ UNCHANGED <<file, minted, acked, lost, wrong, now, client, issued, handed>>

Tick ==
    /\ now < MaxNow
    /\ now' = now + 1
    /\ UNCHANGED <<fileVars, flowVars>>

Next ==
    \/ \E d \in Devices :
         \/ Start(d) \/ Poll(d) \/ GiveUp(d) \/ Deny(d) \/ Approve(d)
         \/ Authenticate(d) \/ Logout(d)
    \/ Forget \/ MintAgain \/ ServerStep \/ ExchangeKey \/ Restart \/ Tick
    \/ \E p \in Procs : TokenCommand(p)

Spec == Init /\ [][Next]_vars

-----------------------------------------------------------------------------
(* A token goes to the one machine whose code was approved for it, once:    *)
(* through taken names, failed saves, restarts and repeated approvals.      *)
HandedOverOnce ==
    /\ handed \subseteq issued
    /\ \A i, j \in issued : i.id = j.id => i = j
    /\ \A d \in Devices : \A h \in handed : req[d] # None /\ req[d].state = "approved" => req[d].link # h.id

(* Every token minted by an approval is with its machine, waits for the     *)
(* next poll, or is one of the known orphans: its request expired, the      *)
(* answer was lost, the server was restarted or the file was not saved.     *)
OrphansKnown ==
    \A i \in issued :
        \/ i \in handed
        \/ req[i.to] # None /\ req[i.to].link = i.id
        \/ approving # None /\ approving.device = i.to
        \/ \E o \in orphans : o.id = i.id
=============================================================================
