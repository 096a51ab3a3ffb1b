--------------------------- MODULE Administration ---------------------------
(***************************************************************************)
(* Administration over the directory: the commands of the two CLIs and the *)
(* HTTP requests that they and the peers' own clients send.                *)
(*                                                                         *)
(* A command (client/src/main.rs, server/src/lib.rs) lists what is there,  *)
(* asks the administrator what to do (shared/src/prompts.rs), and sends    *)
(* one request; the answer may take any time.  The innernet-server command *)
(* works on the database itself.  A request (server/src/lib.rs             *)
(* `get_session`, api/admin, api/user) is let in by the row that has its   *)
(* address, then waits for its body, then does its work under the lock:    *)
(* what was read at each of these moments may be stale at the next.        *)
(*                                                                         *)
(* The database and its operations are those of Directory.  Its mailbox    *)
(* and its walk stand still here.  Names are left out: a row is known by   *)
(* its id, an association by its CIDRs.                                    *)
(***************************************************************************)
EXTENDS Directory

CONSTANTS
  Admins,      \* the peers with the is_admin flag; no command changes it
  NewRanges,   \* bound: the ranges that an administrator may ask for
  MaxCommands  \* bound: commands

ASSUME AdministrationAssumption ==
  /\ Admins \subseteq 2 .. MaxPeer
  /\ NewRanges \subseteq Ranges
  /\ MaxCommands \in Nat

VARIABLES
  command,  \* per administrator the command he runs
  asked,    \* commands so far
  request,  \* per peer the request of its own client at the server
  keys,     \* per row the invitation's key, and the key that redeemed it
  issued    \* invitation keys drawn so far

adminVars == <<command, asked, request, keys, issued>>
allVars   == <<vars, adminVars>>

\* The server's operator has no session: he has the database.
Commanders == {Server} \cup Admins

Nothing   == [do |-> "nothing"]
NoCommand == [phase |-> "none", cidrs |-> <<>>, what |-> Nothing]
NoRequest == [do |-> "nothing", row |-> NoPeer, key |-> 0]
NoKey     == [invite |-> 0, by |-> 0]

\* The first CIDRs, an administrator and an invited peer.
AdminInit ==
  /\ cidr = FirstCidrs
  /\ assoc = {{3, 4}}
  /\ peer = [p \in 1 .. MaxPeer |->
              CASE p = 1 -> [cidr |-> 2, ip |-> 1, disabled |-> FALSE, redeemed |-> TRUE]
                [] p = 2 -> [cidr |-> 3, ip |-> 2, disabled |-> FALSE, redeemed |-> TRUE]
                [] p = 3 -> [cidr |-> 3, ip |-> 3, disabled |-> FALSE, redeemed |-> FALSE]
                [] OTHER -> NoPeer]
  /\ maxId = 3 /\ revision = 1 /\ swept = 1
  /\ bundle = [p \in 1 .. MaxPeer |-> NoBundle]
  /\ drawn = 0 /\ mail = {} /\ opened = 0
  /\ walk = NoWalk
  /\ command = [a \in Commanders |-> NoCommand] /\ asked = 0
  /\ request = [p \in 2 .. MaxPeer |-> NoRequest]
  /\ keys = [p \in 1 .. MaxPeer |->
              CASE p \in {1, 2} -> [invite |-> p, by |-> p]
                [] p = 3 -> [invite |-> p, by |-> 0]
                [] OTHER -> NoKey]
  /\ issued = 3

-----------------------------------------------------------------------------
(* Sessions *)

\* `get_session`: a row with the address that is not disabled.
Session(p) == p \in Rows /\ ~ peer[p].disabled

UserCapable(p)  == Session(p) /\ peer[p].redeemed
Redeemable(p)   == Session(p) /\ ~ peer[p].redeemed
AdminCapable(p) == p \in Admins /\ UserCapable(p)

\* The operator of the server needs none.
MayRead(a) == a = Server \/ AdminCapable(a)

-----------------------------------------------------------------------------
(* Commands: what is read, and what is asked for *)

Set(a, c) == command' = [command EXCEPT ![a] = c]

\* GET /admin/cidrs, the first list of all commands about CIDRs and of
\* add-peer.
ListCidrs(a) ==
  /\ command[a] = NoCommand /\ MayRead(a)
  /\ asked < MaxCommands /\ asked' = asked + 1
  /\ Set(a, [phase |-> "listed", cidrs |-> cidr, what |-> Nothing])
  /\ UNCHANGED <<vars, request, keys, issued>>

Listed(cs) == {c \in DOMAIN cs : cs[c] # NoCidr}

\* `CidrTree::leaves`
Leaves(cs) == {c \in Listed(cs) : \A d \in Listed(cs) : cs[d].parent # c}

\* `prompts::add_cidr`, `rename_cidr`, `delete_cidr` and `add_association`.
\* A CIDR given by name is not held to the eligible ones.
AskedAddCidr(cs) == [do : {"addCidr"}, range : NewRanges, parent : Listed(cs)]
AskedRenameCidr(cs) == [do : {"renameCidr"}, cidr : Listed(cs)]
AskedDeleteCidr(cs) == [do : {"deleteCidr"}, cidr : Listed(cs)]
AskedAddAssociation(cs) == [do : {"addAssociation"}, pair : {{c, d} : c, d \in Listed(cs)}]

\* `choose_association`: the second list is of the associations; one whose
\* CIDR is not on the first list makes the command panic.
AskedDeleteAssociation(cs) ==
  [do : {"deleteAssociation"}, pair : {a \in assoc : a \subseteq Listed(cs)}]

\* `gather_new_peer_info`: the second list is of the peers.  A CIDR without a
\* free address makes it panic; the administrator may still type another.
AskedAddPeer(cs) ==
  [do   : {"addPeer"},
   cidr : {c \in Leaves(cs) : \E ip \in cs[c].range : \A p \in Rows : peer[p].ip # ip},
   ip   : NewAddrs]

Ask(a, answers) ==
  /\ \E w \in answers : Set(a, [phase |-> "asked", cidrs |-> <<>>, what |-> w])
  /\ UNCHANGED <<vars, request, keys, issued>>

\* add-cidr, rename-cidr, delete-cidr
AskAboutCidr(a) ==
  LET cs == command[a].cidrs
  IN /\ command[a].phase = "listed" /\ MayRead(a)
     /\ Ask(a, AskedAddCidr(cs) \cup AskedRenameCidr(cs) \cup AskedDeleteCidr(cs))
     /\ UNCHANGED asked

\* add-association, delete-association: commands of the client only
AskAboutAssociation(a) ==
  LET cs == command[a].cidrs
  IN /\ command[a].phase = "listed" /\ AdminCapable(a)
     /\ Ask(a, AskedAddAssociation(cs) \cup AskedDeleteAssociation(cs))
     /\ UNCHANGED asked

\* add-peer
AskAddPeer(a) ==
  /\ command[a].phase = "listed" /\ MayRead(a)
  /\ Ask(a, AskedAddPeer(command[a].cidrs))
  /\ UNCHANGED asked

\* `prompts::rename_peer` and `enable_or_disable_peer`: the whole contents are
\* sent back as they were listed, except for what was asked for.
AskedRenamePeer ==
  {[do |-> "updatePeer", id |-> p, why |-> "rename", disabled |-> peer[p].disabled] :
     p \in Rows \ {Server}}
AskedEnableOrDisable ==
  {[do |-> "updatePeer", id |-> p, why |-> "switch", disabled |-> ~ peer[p].disabled] : p \in Rows}

\* DELETE /admin/peers disables; no command of this repository sends it.
AskedDeletePeer == [do : {"deletePeer"}, id : Rows]

\* rename-peer, enable-peer, disable-peer; the list is of the peers
AskAboutPeer(a) ==
  /\ command[a] = NoCommand /\ MayRead(a)
  /\ asked < MaxCommands /\ asked' = asked + 1
  /\ Ask(a, AskedRenamePeer \cup AskedEnableOrDisable
            \cup IF a = Server THEN {} ELSE AskedDeletePeer)

\* The administrator says no, the server cannot be reached, or it refuses.
Abandon(a) ==
  /\ command[a].phase \in {"listed", "asked"}
  /\ Set(a, NoCommand)
  /\ UNCHANGED <<vars, asked, request, keys, issued>>

-----------------------------------------------------------------------------
(* What a request does to the database *)

DoCidr(w) ==
  \/ w.do = "addCidr" /\ CreateCidr(w.range, w.parent)
  \/ w.do = "renameCidr" /\ w.cidr \in Cidrs /\ Touch
  \/ w.do = "deleteCidr" /\ DeleteCidr(w.cidr)

DoAssociation(w) ==
  \/ w.do = "addAssociation" /\ \E c, d \in w.pair : CreateAssociation(c, d)
  \/ w.do = "deleteAssociation" /\ DeleteAssociation(w.pair)

\* The keypair of a new peer is drawn by the command.
Invite(id) ==
  /\ issued' = issued + 1
  /\ keys' = [keys EXCEPT ![id] = [invite |-> issued + 1, by |-> 0]]

DoPeer(w) ==
  \/ w.do = "addPeer" /\ CreatePeer(w.cidr, w.ip) /\ Invite(NewId)
  \/ w.do = "updatePeer" /\ UpdatePeer(w.id, w.disabled) /\ UNCHANGED <<keys, issued>>
  \/ w.do = "deletePeer" /\ UpdatePeer(w.id, TRUE) /\ UNCHANGED <<keys, issued>>

Do(w) ==
  \/ (DoCidr(w) \/ DoAssociation(w)) /\ UNCHANGED <<keys, issued>>
  \/ DoPeer(w)

\* Without a body there is nothing to wait for.
HasBody(w) == w.do \notin {"deleteCidr", "deleteAssociation", "deletePeer"}

-----------------------------------------------------------------------------
(* Requests of administrators *)

\* The routes: who is let in is decided before the body is read.
Send(a) ==
  /\ command[a].phase = "asked" /\ AdminCapable(a)
  /\ Set(a, [command[a] EXCEPT !.phase = "sent"])
  /\ UNCHANGED <<vars, asked, request, keys, issued>>

\* The handler.  It may fail: the database refuses, or another process has
\* it locked.
Handle(a) ==
  /\ command[a].phase = "sent"
  /\ \/ Do(command[a].what)
     \/ UNCHANGED <<vars, keys, issued>>
  /\ Set(a, NoCommand)
  /\ UNCHANGED <<asked, request>>

\* `form_body` waits five seconds.
\* Mutant of BodyLate: it waits for ever.
BodyLateNever(w) == FALSE

BodyLate(w) == HasBody(w)

TimeOut(a) ==
  /\ command[a].phase = "sent" /\ BodyLate(command[a].what)
  /\ Set(a, NoCommand)
  /\ UNCHANGED <<vars, asked, request, keys, issued>>

\* The innernet-server command does its work in its own process.
OperatorDoesCidr ==
  /\ command[Server].phase = "asked"
  /\ DoCidr(command[Server].what)
  /\ Set(Server, NoCommand)
  /\ UNCHANGED <<asked, request, keys, issued>>

OperatorDoesPeer ==
  /\ command[Server].phase = "asked"
  /\ DoPeer(command[Server].what)
  /\ Set(Server, NoCommand)
  /\ UNCHANGED <<asked, request>>

-----------------------------------------------------------------------------
(* Requests of peers *)

SendRedeem(p) ==
  /\ request[p] = NoRequest /\ Redeemable(p)
  /\ request' = [request EXCEPT ![p] =
                   [do |-> "redeem", row |-> peer[p], key |-> keys[p].invite]]
  /\ UNCHANGED <<vars, command, asked, keys, issued>>

\* PUT /user/candidates and PUT /user/endpoint
SendReport(p) ==
  /\ request[p] = NoRequest /\ UserCapable(p)
  /\ request' = [request EXCEPT ![p] = [do |-> "report", row |-> peer[p], key |-> keys[p].by]]
  /\ UNCHANGED <<vars, command, asked, keys, issued>>

HandleRedeem(p) ==
  /\ request[p].do = "redeem"
  /\ \/ RedeemPeer(p) /\ keys' = [keys EXCEPT ![p].by = request[p].key]
     \/ UNCHANGED <<vars, keys>>
  /\ request' = [request EXCEPT ![p] = NoRequest]
  /\ UNCHANGED <<command, asked, issued>>

\* The row is read again, and written back with the report in it.
\* Mutant of SelectedPeer: the session's copy is written back.
SelectedPeerOfSession(p, r) == r.row

SelectedPeer(p, r) == peer[p]

HandleReport(p) ==
  /\ request[p].do = "report"
  /\ \/ UpdatePeer(p, SelectedPeer(p, request[p]).disabled)
     \/ UNCHANGED vars
  /\ request' = [request EXCEPT ![p] = NoRequest]
  /\ UNCHANGED <<command, asked, keys, issued>>

\* `spawn_expired_invite_sweeper`
ExpireInvite(p) ==
  /\ DeleteExpiredInvite(p)
  /\ UNCHANGED adminVars

-----------------------------------------------------------------------------
Commanding ==
  \E a \in Commanders :
    \/ ListCidrs(a) \/ AskAboutCidr(a) \/ AskAddPeer(a) \/ AskAboutPeer(a) \/ Abandon(a)
    \/ AskAboutAssociation(a)

AdminNext ==
  \/ Commanding
  \/ OperatorDoesCidr \/ OperatorDoesPeer
  \/ \E a \in Admins : Send(a) \/ Handle(a) \/ TimeOut(a)
  \/ \E p \in 2 .. MaxPeer :
       SendRedeem(p) \/ SendReport(p) \/ HandleRedeem(p) \/ HandleReport(p) \/ ExpireInvite(p)

AdminSpec == AdminInit /\ [][AdminNext]_allVars

\* A body may never come, but the wait for it ends; what needs none is done.
AdminFairness ==
  \A a \in Admins :
    /\ WF_allVars(TimeOut(a))
    /\ WF_allVars(~ HasBody(command[a].what) /\ Handle(a))

AdminLiveSpec == AdminSpec /\ AdminFairness

-----------------------------------------------------------------------------
(* Properties *)

\* A row is redeemed with the key of its own invitation's holder, however
\* long his request waited: not when the invitation expired meanwhile and its
\* address was given to another peer (api/user.rs:121 looks the row up by id,
\* and no id is used twice).
RedeemedByItsInvite == \A p \in Rows : keys[p].by \in {0, keys[p].invite}

\* A disabled peer comes back only by a request of an administrator that says
\* so: a report of the peer's own client that was let in before it was
\* disabled and is handled after does not bring it back (api/user.rs:185).
OnlyAdminEnables ==
  [][\A p \in Rows :
       peer[p].disabled /\ peer'[p] # NoPeer /\ ~ peer'[p].disabled =>
         \E a \in Commanders :
           /\ command[a].what.do = "updatePeer" /\ command[a].what.id = p
           /\ ~ command[a].what.disabled /\ command'[a] = NoCommand]_allVars

\* A disabled administrator may still have a request under way that was let
\* in before; it does not stay there, so that he is without power in the end.
RevocationTakesEffect ==
  \A a \in Admins : peer[a].disabled ~> (command[a].phase # "sent" \/ ~ peer[a].disabled)

\* A peer that was disabled is enabled only by enable-peer.  A rename asked
\* for on an earlier list writes the old flag back.
RenameKeepsDisabled ==
  [][\A p \in Rows :
       peer[p].disabled /\ peer'[p] # NoPeer /\ ~ peer'[p].disabled =>
         \A a \in Commanders :
           command'[a] # command[a] => command[a].what.why # "rename"]_allVars
=============================================================================
