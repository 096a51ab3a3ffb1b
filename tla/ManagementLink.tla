--------------------------- MODULE ManagementLink ---------------------------
(***************************************************************************)
(* The management link: the preshared key that protects the WireGuard      *)
(* tunnel between the coordination server and each of its peers.           *)
(*                                                                         *)
(* Server side: `require-management`, `add-peer`, `enable-peer`,           *)
(* `disable-peer`, the rotation commands, `serve` and the redemption       *)
(* handler (server/src/management.rs, server/src/lib.rs, api/user.rs).     *)
(* Client side: `install`, `up`, `fetch` and the rotation commands         *)
(* (client-core/src/management.rs, client-core/src/interface.rs).          *)
(*                                                                         *)
(* Every command opens the private store, works and exits, so a command    *)
(* is one step, or one step per prefix of its writes where it may be cut   *)
(* by a crash.  The two ends share nothing but what the operator carries   *)
(* from one to the other.  The rotation commands check almost nothing of   *)
(* the other end: docs/design.md 5.10 gives the order in which the         *)
(* operator runs them, and `Procedure` below is that order.                *)
(***************************************************************************)
EXTENDS Integers, FiniteSets

CONSTANTS
  Peers,      \* peer ids, positive numbers
  Managed,    \* bound: the peers that the operator disables and whose secret
              \* he rotates
  MaxSecret,  \* bound: secrets drawn
  Trusted,    \* secrets an adoption file may give, numbers above MaxSecret
  MaxFaults   \* bound: crashes, reboots and lost responses

ASSUME ManagementAssumption ==
  /\ Peers \subseteq Nat \ {0} /\ IsFiniteSet(Peers)
  /\ Managed \subseteq Peers
  /\ MaxSecret \in Nat
  /\ Trusted \subseteq Nat \ (0 .. MaxSecret)
  /\ MaxFaults \in Nat

VARIABLES
  required,  \* `management_required` of the server's configuration
  prepared,  \* whether the server's private store exists
  ready,     \* `pq_network.management_ready`
  row,       \* the peers table: per peer none, invited or redeemed
  disabled,  \* the disabled peers
  link,      \* `ServerState.links`, as saved
  prov,      \* the exported files peer-N.management.json
  artifact,  \* the exported files peer-N.management.rotation.json
  up,        \* whether the server's WireGuard interface exists
  serving,   \* whether `serve` runs
  psks,      \* its copy of the secrets, taken when it started (0: none)
  entry,     \* the server's kernel entry per peer: Missing, Open or a secret
  swapped,   \* the peers whose kernel entry has the redeemed key
  pending,   \* redemptions whose delayed kernel update is still to run
  invite,    \* the invitation files: the enrollment inside, NoFile if none
  cstate,    \* the client's `ManagementState`
  config,    \* the client's interface config: none, plain or managed
  tunnel,    \* the client's kernel entry of the server
  joining,   \* the clients between wg::up and the answer to /user/redeem
  drawn,     \* secrets drawn so far
  faults     \* faults so far

serverDisk == <<required, prepared, ready, row, disabled, link, prov, artifact>>
serverLive == <<up, serving, psks, entry, swapped, pending>>
clientVars == <<invite, cstate, config, tunnel, joining>>
vars == <<serverDisk, serverLive, clientVars, drawn, faults>>

-----------------------------------------------------------------------------
(* Data *)

\* A kernel entry's preshared key.
Down    == -2  \* no interface
Missing == -1  \* an interface without the entry
Open    == 0   \* an entry without a preshared key

Secret == 1 .. MaxSecret \cup Trusted

\* `StagedLink` and `Enrollment`: a provision id, drawn anew, and a secret.
Candidate == [id : 1 .. MaxSecret, psk : Secret]
NoCand    == [id |-> 0, psk |-> 0]
NoFile    == [id |-> -1, psk |-> 0]
CandOrNone == Candidate \cup {NoCand}

\* `ManagementLink`; NoLink for a peer without one.
Link    == [active : CandOrNone, verified : BOOLEAN, staged : CandOrNone, previous : CandOrNone]
NoLink  == [active |-> NoCand, verified |-> FALSE, staged |-> NoCand, previous |-> NoCand]
Linked(p) == link[p] # NoLink

\* `ManagementState` of the client.
NoState == [active |-> NoCand, staged |-> NoCand, previous |-> NoCand]
State   == [active : CandOrNone, staged : CandOrNone, previous : CandOrNone]
Enrolled(p) == cstate[p] # NoState

Enabled(p) == row[p] # "none" /\ p \notin disabled

TypeOK ==
  /\ required \in BOOLEAN /\ prepared \in BOOLEAN /\ ready \in BOOLEAN
  /\ up \in BOOLEAN /\ serving \in BOOLEAN
  /\ row \in [Peers -> {"none", "invited", "redeemed"}]
  /\ disabled \subseteq Peers /\ swapped \subseteq Peers
  /\ pending \subseteq Peers /\ joining \subseteq Peers
  /\ link \in [Peers -> Link]
  /\ prov \in [Peers -> CandOrNone] /\ artifact \in [Peers -> CandOrNone]
  /\ psks \in [Peers -> Secret \cup {0}]
  /\ entry \in [Peers -> Secret \cup {Missing, Open}]
  /\ invite \in [Peers -> CandOrNone \cup {NoFile}]
  /\ cstate \in [Peers -> State]
  /\ config \in [Peers -> {"none", "plain", "managed"}]
  /\ tunnel \in [Peers -> Secret \cup {Down, Missing, Open}]
  /\ drawn \in 0 .. MaxSecret /\ faults \in 0 .. MaxFaults

\* A network of some redeemed peers, before management was ever required:
\* `serve` runs, and no link has a preshared key.
Init ==
  \E old \in SUBSET Peers :
    /\ required = FALSE /\ prepared = FALSE /\ ready = FALSE
    /\ up = TRUE /\ serving = TRUE
    /\ row = [p \in Peers |-> IF p \in old THEN "redeemed" ELSE "none"]
    /\ disabled = {} /\ swapped = old /\ pending = {} /\ joining = {}
    /\ link = [p \in Peers |-> NoLink]
    /\ prov = [p \in Peers |-> NoCand] /\ artifact = [p \in Peers |-> NoCand]
    /\ psks = [p \in Peers |-> 0]
    /\ entry = [p \in Peers |-> IF p \in old THEN Open ELSE Missing]
    /\ invite = [p \in Peers |-> NoFile]
    /\ cstate = [p \in Peers |-> NoState]
    /\ config = [p \in Peers |-> IF p \in old THEN "plain" ELSE "none"]
    /\ tunnel = [p \in Peers |-> IF p \in old THEN Open ELSE Down]
    /\ drawn = 0 /\ faults = 0

-----------------------------------------------------------------------------
(* The link record (pq/src/state.rs) *)

\* `StagedLink::generate` with the n-th drawn secret, then the adopted one
\* (0: none) in its place.
Generate(n, adopted) == [id |-> n, psk |-> IF adopted = 0 THEN n ELSE adopted]

Fresh(cand) == [NoLink EXCEPT !.active = cand]

\* An adopted secret must be the one that is there.
AdoptionAgrees(cand, adopted) == adopted = 0 \/ adopted = cand.psk

\* Mutant of ApplyRotation: the superseded secret is not retained.
ApplyForgets(l) ==
  [l EXCEPT !.active = l.staged, !.staged = NoCand, !.verified = FALSE]

ApplyRotation(l) ==
  [l EXCEPT !.previous = l.active, !.active = l.staged, !.staged = NoCand, !.verified = FALSE]

\* Mutant of MayConfirm: the superseded secret goes before anyone verified
\* the new one.
MayConfirmUnverified(l) == l.previous # NoCand

MayConfirm(l) == l.previous # NoCand /\ l.verified

\* `Manager::mark_verified`
Verified(l) == [l EXCEPT !.verified = TRUE]

ConfirmRotation(l) == [l EXCEPT !.previous = NoCand]

RollbackRotation(l) ==
  [l EXCEPT !.staged = NoCand, !.active = l.previous, !.previous = NoCand, !.verified = TRUE]

ForceActive(l, n, secret) == Fresh(Generate(n, secret))

-----------------------------------------------------------------------------
(* Faults *)

Fault == faults < MaxFaults /\ faults' = faults + 1

\* How far a command got that saves, removes a kernel entry and adds it again.
Cut == {"saved", "removed", "done"}
CutBy(cut) == IF cut = "done" THEN faults' = faults ELSE Fault

\* `PeerConfigBuilder::from(peer)`: the entry of a disabled peer is a removal.
\* An entry built without a preshared key leaves the one in place alone.
Built(p, psk)  == IF p \in disabled THEN Missing ELSE psk
Merged(p, psk) ==
  IF psk = Open /\ p \in swapped /\ entry[p] # Missing THEN entry[p] ELSE psk

\* `push_management_psk_to_kernel` and `push_active_to_kernel`: nothing
\* happens without an interface on the server; on the client it is an error.
Pushed(kernel, there, cut, psk) ==
  IF ~ there \/ cut = "saved" THEN kernel ELSE IF cut = "removed" THEN Missing ELSE psk

\* Bound: a draw that gives no peer its first link leaves enough for those.
Spare == drawn + Cardinality({p \in Peers : ~ Linked(p)}) < MaxSecret

-----------------------------------------------------------------------------
(* The server: enrollment *)

\* The peers `prepare` gives a link, in the order of their ids.
Unlinked == {p \in Peers : Enabled(p) /\ ~ Linked(p)}
Nth(p) == Cardinality({q \in Unlinked : q =< p})

\* The exports stop at the first file that already holds something else.
Clashes(p, links) == prov[p] # NoCand /\ prov[p] # links[p].active
Exported(links) ==
  [p \in Peers |->
    IF Enabled(p) /\ \A q \in Peers : Enabled(q) /\ q =< p => ~ Clashes(q, links)
    THEN links[p].active ELSE prov[p]]

\* `require-management`: links for the enabled peers without one, the state
\* saved, the configuration marked, then the files.  A trusted secret is
\* adopted for one peer, and refused when the peer has another.
\* Mutant of PrepareSaves: the files come first, and a clash stops the
\* command before the state is saved.
PrepareExportsFirst(links, cut) ==
  IF \E q \in Peers : Enabled(q) /\ Clashes(q, links)
  THEN UNCHANGED <<link, prepared, required, prov>>
  ELSE /\ link' = links /\ prepared' = TRUE /\ required' = TRUE /\ prov' = Exported(links)

PrepareSaves(links, cut) ==
  /\ link' = links
  /\ prepared' = TRUE
  /\ required' = (required \/ cut # "saved")
  /\ prov' = IF cut = "done" THEN Exported(links) ELSE prov

Prepare(p, adopted, cut) ==
  /\ adopted = 0 \/ Enabled(p)
  /\ Linked(p) => AdoptionAgrees(link[p].active, adopted)
  /\ drawn + Cardinality(Unlinked) =< MaxSecret
  /\ drawn' = drawn + Cardinality(Unlinked)
  /\ LET cand(q) == Generate(drawn + Nth(q), IF q = p THEN adopted ELSE 0)
     IN PrepareSaves([q \in Peers |-> IF q \in Unlinked THEN Fresh(cand(q)) ELSE link[q]], cut)
  /\ CutBy(cut)
  /\ UNCHANGED <<ready, row, disabled, artifact, serverLive, clientVars>>

\* `provision_new_peer`: the link is saved, and the network is ready once
\* every enabled peer has one.
ProvisionNewPeer(links) ==
  /\ link' = links
  /\ ready' = (ready \/ \A q \in Peers : Enabled(q) => links[q] # NoLink)

\* `add-peer`: the row, then the link and readiness, then the kernel entry,
\* then the invitation.  A crash leaves a prefix of these.
AddPeer(p, upto) ==
  LET cand  == Generate(drawn + 1, 0)
      links == [link EXCEPT ![p] = Fresh(cand)]
  IN /\ row[p] = "none"
     /\ row' = [row EXCEPT ![p] = "invited"]
     /\ IF upto = 4 THEN faults' = faults ELSE Fault
     /\ IF required /\ upto >= 2
        THEN drawn < MaxSecret /\ drawn' = drawn + 1 /\ ProvisionNewPeer(links)
        ELSE UNCHANGED <<drawn, link, ready>>
     /\ entry' = IF up /\ upto >= 3
                 THEN [entry EXCEPT ![p] = IF required THEN cand.psk ELSE Open] ELSE entry
     /\ invite' = IF upto = 4
                  THEN [invite EXCEPT ![p] = IF required THEN cand ELSE NoCand] ELSE invite
     /\ UNCHANGED <<required, prepared, disabled, prov, artifact, up, serving, psks, swapped,
                    pending, cstate, config, tunnel, joining>>

\* `POST /admin/peers`: the row and a kernel entry; no link, and the
\* administrator's invitation has no enrollment.
AdminCreate(p) ==
  /\ serving /\ row[p] = "none"
  /\ row' = [row EXCEPT ![p] = "invited"]
  /\ entry' = [entry EXCEPT ![p] = Open]
  /\ invite' = [invite EXCEPT ![p] = NoCand]
  /\ UNCHANGED <<required, prepared, ready, disabled, link, prov, artifact, up, serving, psks,
                 swapped, pending, cstate, config, tunnel, joining, drawn, faults>>

\* `disable-peer`, then `enable-peer`; the latter stops after the row when the
\* peer has no link on a network that requires one.
Disable(p) ==
  /\ row[p] # "none" /\ p \notin disabled
  /\ disabled' = disabled \cup {p}
  /\ entry' = IF up THEN [entry EXCEPT ![p] = Missing] ELSE entry
  /\ UNCHANGED <<required, prepared, ready, row, link, prov, artifact, up, serving, psks,
                 swapped, pending, clientVars, drawn, faults>>

Enable(p) ==
  /\ p \in disabled
  /\ disabled' = disabled \ {p}
  /\ IF up /\ (required => Linked(p))
     THEN /\ entry' = [entry EXCEPT ![p] = IF required THEN link[p].active.psk ELSE Merged(p, Open)]
          /\ swapped' = IF row[p] = "redeemed" THEN swapped \cup {p} ELSE swapped
     ELSE UNCHANGED <<entry, swapped>>
  /\ UNCHANGED <<required, prepared, ready, row, link, prov, artifact, up, serving, psks,
                 pending, clientVars, drawn, faults>>

\* PUT and DELETE of /admin/peers/N: the row alone; the kernel entry is left
\* to the next start of the server.
AdminSwitch(p) ==
  /\ serving /\ row[p] # "none"
  /\ disabled' = IF p \in disabled THEN disabled \ {p} ELSE disabled \cup {p}
  /\ UNCHANGED <<required, prepared, ready, row, link, prov, artifact, serverLive, clientVars,
                 drawn, faults>>

\* `serve`.  `Manager::load` refuses a network with an enabled peer that has
\* no link; otherwise every enabled peer gets an entry with its secret.
LoadSucceeds == (required \/ prepared) => prepared /\ \A p \in Peers : Enabled(p) => Linked(p)

Serve ==
  /\ ~ serving /\ LoadSucceeds
  /\ serving' = TRUE /\ up' = TRUE
  /\ psks' = [p \in Peers |-> link[p].active.psk]
  /\ swapped' = {p \in Peers : row[p] = "redeemed"}
  /\ entry' = [p \in Peers |->
                IF ~ Enabled(p) THEN Missing
                ELSE IF prepared THEN link[p].active.psk
                ELSE Merged(p, Open)]
  /\ UNCHANGED <<serverDisk, pending, clientVars, drawn, faults>>

\* The process ends, by itself or with the machine and its interfaces.
ServerStops(reboot) ==
  /\ serving /\ Fault
  /\ serving' = FALSE /\ pending' = {} /\ psks' = [p \in Peers |-> 0]
  /\ up' = ~ reboot
  /\ entry' = IF reboot THEN [p \in Peers |-> Missing] ELSE entry
  /\ swapped' = IF reboot THEN {} ELSE swapped
  /\ UNCHANGED <<serverDisk, clientVars, drawn>>

-----------------------------------------------------------------------------
(* Redemption: `redeem_invite` and `POST /user/redeem` *)

\* `install`: an invitation, and no interface of its name.
MayInstall(p) == config[p] = "none" /\ tunnel[p] = Down /\ invite[p] # NoFile

\* `adopt`: what an abandoned attempt left is overwritten.
Adopt(p) == cstate' = [cstate EXCEPT ![p] = [NoState EXCEPT !.active = invite[p]]]

\* The enrollment is saved before the interface comes up with its secret.
RedeemStart(p) ==
  /\ MayInstall(p)
  /\ IF invite[p] = NoCand THEN cstate' = cstate ELSE Adopt(p)
  /\ tunnel' = [tunnel EXCEPT ![p] = invite[p].psk]
  /\ joining' = joining \cup {p}
  /\ UNCHANGED <<serverDisk, serverLive, invite, config, drawn, faults>>

Reaches(p) == serving /\ tunnel[p] >= Open /\ tunnel[p] = entry[p]

\* The server marks the row at once and moves the kernel entry later.  When
\* the answer is lost the client takes its interface down and forgets the key.
Redeem(p, answered) ==
  /\ p \in joining /\ Reaches(p) /\ row[p] = "invited" /\ p \notin disabled
  /\ row' = [row EXCEPT ![p] = "redeemed"]
  /\ pending' = pending \cup {p}
  /\ joining' = joining \ {p}
  /\ IF answered
     THEN /\ config' = [config EXCEPT ![p] = IF invite[p] = NoCand THEN "plain" ELSE "managed"]
          /\ UNCHANGED <<tunnel, faults>>
     ELSE /\ tunnel' = [tunnel EXCEPT ![p] = Down]
          /\ Fault /\ UNCHANGED config
  /\ UNCHANGED <<required, prepared, ready, disabled, link, prov, artifact, up, serving, psks,
                 entry, swapped, invite, cstate, drawn>>

RedeemFails(p) ==
  /\ p \in joining /\ Fault
  /\ tunnel' = [tunnel EXCEPT ![p] = Down]
  /\ joining' = joining \ {p}
  /\ UNCHANGED <<serverDisk, serverLive, invite, cstate, config, drawn>>

\* REDEEM_TRANSITION_WAIT later: the invitation's entry gives way to one of
\* the new key, with the secret of the process's own copy, if it has one.
\* The peer is the one read before the wait, so it counts as enabled.
\* Mutant of RedeemedEntry: the entry is built without a preshared key.
RedeemedEntryOpen(p) == Merged(p, Open)

RedeemedEntry(p) == IF psks[p] # 0 THEN psks[p] ELSE Merged(p, Open)

RedeemSettles(p) ==
  /\ p \in pending
  /\ pending' = pending \ {p}
  /\ entry' = [entry EXCEPT ![p] = RedeemedEntry(p)]
  /\ swapped' = swapped \cup {p}
  /\ UNCHANGED <<serverDisk, up, serving, psks, clientVars, drawn, faults>>

-----------------------------------------------------------------------------
(* The client between commands *)

\* `load`: `fetch` fails closed without the state that the configuration calls
\* for.
Loaded(p) == config[p] # "none" /\ (config[p] = "managed" => Enrolled(p))

\* `fetch` on an interface that is down
ClientUp(p) ==
  /\ Loaded(p) /\ tunnel[p] = Down
  /\ tunnel' = [tunnel EXCEPT ![p] = cstate[p].active.psk]
  /\ UNCHANGED <<serverDisk, serverLive, invite, cstate, config, joining, drawn, faults>>

\* `fetch` on one that is up: a missing entry of the server is added, and one
\* whose endpoint changed is modified; either way with the active secret.
Refetched(p) == IF Enrolled(p) THEN cstate[p].active.psk
                ELSE IF tunnel[p] = Missing THEN Open ELSE tunnel[p]

ClientFetch(p) ==
  /\ Loaded(p) /\ tunnel[p] # Down
  /\ tunnel' = [tunnel EXCEPT ![p] = Refetched(p)]
  /\ UNCHANGED <<serverDisk, serverLive, invite, cstate, config, joining, drawn, faults>>

ClientReboot(p) ==
  /\ tunnel[p] # Down /\ Fault
  /\ tunnel' = [tunnel EXCEPT ![p] = Down]
  /\ joining' = joining \ {p}
  /\ UNCHANGED <<serverDisk, serverLive, invite, cstate, config, drawn>>

-----------------------------------------------------------------------------
(* Rotation: what the commands of either end do *)

\* `find_peer_by_name`, `required_management`: the peer is there, and the
\* network has required management.
Manageable(p) == required /\ row[p] # "none" /\ Linked(p)

\* `Manager::rotate`: the changed link is saved, or nothing changes.
Rotate(p, l) == link' = [link EXCEPT ![p] = l]

\* The server's command saves link l of peer p, then pushes its secret.
ServerPush(p, l, cut) ==
  /\ Rotate(p, l)
  /\ entry' = [entry EXCEPT ![p] = Pushed(entry[p], up, cut, Built(p, l.active.psk))]
  /\ swapped' = IF up /\ cut = "done" /\ row[p] = "redeemed" THEN swapped \cup {p} ELSE swapped
  /\ CutBy(cut)
  /\ UNCHANGED <<required, prepared, ready, row, disabled, prov, artifact, up, serving, psks,
                 pending, clientVars>>

\* `update_state`
UpdateState(p, s) == Enrolled(p) /\ cstate' = [cstate EXCEPT ![p] = s]

\* The commands that push read the server's key from the configuration.
Configured(p) == config[p] # "none"

\* The client's command saves state s, then pushes; without an interface it
\* fails after the save.
ClientPush(p, s, cut) ==
  /\ Configured(p)
  /\ UpdateState(p, s)
  /\ tunnel' = [tunnel EXCEPT ![p] = Pushed(tunnel[p], tunnel[p] # Down, cut, s.active.psk)]
  /\ CutBy(cut)
  /\ UNCHANGED <<serverDisk, serverLive, invite, config, joining, drawn>>

\* `staged_enrollment`, `export_artifact`: the file is never overwritten.
ExportStaged(p, cand) == artifact' = [artifact EXCEPT ![p] = IF @ = NoCand THEN cand ELSE @]

\* stage-management on the server: the candidate is saved, then exported.  The
\* command may fail at the export.
ServerStage(p, adopted) ==
  LET l    == link[p]
      cand == IF l.staged = NoCand THEN Generate(drawn + 1, adopted) ELSE l.staged
  IN /\ Manageable(p)
     /\ AdoptionAgrees(cand, adopted)
     /\ IF l.staged = NoCand THEN Spare /\ drawn' = drawn + 1 ELSE drawn' = drawn
     /\ Rotate(p, [l EXCEPT !.staged = cand])
     /\ ExportStaged(p, cand)
     /\ UNCHANGED <<required, prepared, ready, row, disabled, prov, serverLive, clientVars, faults>>

ServerApply(p, cut) ==
  /\ Manageable(p) /\ link[p].staged # NoCand
  /\ ServerPush(p, ApplyRotation(link[p]), cut)
  /\ UNCHANGED drawn

MarkVerified(p) ==
  /\ Manageable(p)
  /\ link' = [link EXCEPT ![p] = Verified(@)]
  /\ UNCHANGED <<required, prepared, ready, row, disabled, prov, artifact, serverLive, clientVars,
                 drawn, faults>>

ServerConfirm(p) ==
  /\ Manageable(p) /\ MayConfirm(link[p])
  /\ Rotate(p, ConfirmRotation(link[p]))
  /\ UNCHANGED <<required, prepared, ready, row, disabled, prov, artifact, serverLive, clientVars,
                 drawn, faults>>

ServerRollback(p, cut) ==
  /\ Manageable(p) /\ link[p].previous # NoCand
  /\ ServerPush(p, RollbackRotation(link[p]), cut)
  /\ UNCHANGED drawn

Repair(p, secret, cut) ==
  /\ Manageable(p) /\ Spare
  /\ ServerPush(p, ForceActive(link[p], drawn + 1, secret), cut)
  /\ drawn' = drawn + 1

ClientStage(p) ==
  /\ artifact[p] # NoCand
  /\ UpdateState(p, [cstate[p] EXCEPT !.staged = artifact[p]])
  /\ UNCHANGED <<serverDisk, serverLive, invite, config, tunnel, joining, drawn, faults>>

ClientApply(p, cut) ==
  LET s == cstate[p]
  IN /\ s.staged # NoCand
     /\ ClientPush(p, [active |-> s.staged, staged |-> NoCand, previous |-> s.active], cut)

ClientConfirm(p) ==
  /\ cstate[p].previous # NoCand
  /\ UpdateState(p, [cstate[p] EXCEPT !.previous = NoCand])
  /\ UNCHANGED <<serverDisk, serverLive, invite, config, tunnel, joining, drawn, faults>>

ClientRollback(p, cut) ==
  LET s == cstate[p]
  IN /\ s.previous # NoCand
     /\ ClientPush(p, [active |-> s.previous, staged |-> NoCand, previous |-> NoCand], cut)

-----------------------------------------------------------------------------
(* Rotation: the operator's order (docs/design.md 5.10) *)

Agree(p) == link[p].active.psk = cstate[p].active.psk

\* One end went back to the old secret and the other is still to.
WentBack(a, b) ==
  /\ a.previous = NoCand /\ a.staged = NoCand
  /\ b.previous # NoCand /\ a.active.psk = b.previous.psk
RollingBack(p) == WentBack(link[p], cstate[p]) \/ WentBack(cstate[p], link[p])

\* The guards below are what the operator sees to, not the code.
Procedure(p) ==
  LET s == link[p]
      c == cstate[p]
  IN \* stage at the server, carry the file over, stage at the client
     \/ /\ row[p] = "redeemed" /\ p \notin pending /\ config[p] = "managed"
        /\ s.previous = NoCand /\ c.previous = NoCand /\ Agree(p)
        /\ \E adopted \in {0} \cup Trusted : ServerStage(p, adopted)
     \/ s.staged = artifact[p] /\ c.staged # artifact[p] /\ c.previous = NoCand /\ ClientStage(p)
     \* the delivered file is deleted once both ends have it or moved past it
     \/ /\ artifact[p] # NoCand /\ (s.staged # artifact[p] \/ c.staged = artifact[p])
        /\ artifact' = [artifact EXCEPT ![p] = NoCand]
        /\ UNCHANGED <<required, prepared, ready, row, disabled, link, prov, serverLive,
                       clientVars, drawn, faults>>
     \* apply at both ends, in either order
     \/ (c.staged = s.staged \/ c.active = s.staged) /\ \E cut \in Cut : ServerApply(p, cut)
     \/ (s.staged = c.staged \/ s.active = c.staged) /\ \E cut \in Cut : ClientApply(p, cut)
     \* verify with a handshake over the live link, then confirm at both ends;
     \* a client whose command was cut short is restarted before that
     \/ /\ Reaches(p) /\ entry[p] = s.active.psk /\ tunnel[p] = c.active.psk
        /\ ~ s.verified /\ ~ RollingBack(p) /\ MarkVerified(p)
     \/ ~ RollingBack(p) /\ ServerConfirm(p)
     \/ s.verified /\ s.staged = NoCand /\ ~ RollingBack(p) /\ ClientConfirm(p)
     \* or go back at both ends, while the other end still has the old secret
     \/ /\ s.previous.psk \in {c.active.psk, c.previous.psk}
        /\ \E cut \in Cut : ServerRollback(p, cut)
     \/ /\ c.previous.psk \in {s.active.psk, s.previous.psk}
        /\ \E cut \in Cut : ClientRollback(p, cut)
     \* or force the server to what the client has
     \/ Enrolled(p) /\ ~ Agree(p) /\ \E cut \in Cut : Repair(p, c.active.psk, cut)

Next ==
  \/ Serve
  \/ \E reboot \in BOOLEAN : ServerStops(reboot)
  \/ \E p \in Peers :
       \/ \E adopted \in {0} \cup Trusted, cut \in Cut : Prepare(p, adopted, cut)
       \/ \E upto \in 1 .. 4 : AddPeer(p, upto)
       \/ AdminCreate(p)
       \/ RedeemStart(p) \/ RedeemFails(p) \/ RedeemSettles(p)
       \/ \E answered \in BOOLEAN : Redeem(p, answered)
       \/ ClientUp(p) \/ ClientFetch(p) \/ ClientReboot(p)
       \/ p \in Managed /\ (Disable(p) \/ Enable(p) \/ AdminSwitch(p) \/ Procedure(p))

\* The operator reruns require-management when it is called for, and the
\* service manager restarts `serve`.
Fairness ==
  /\ SF_vars(Serve)
  /\ WF_vars(\E p \in Peers : Prepare(p, 0, "done") /\ ~ LoadSucceeds)

Spec     == Init /\ [][Next]_vars
LiveSpec == Spec /\ Fairness

-----------------------------------------------------------------------------
(* Properties *)

\* Under the documented procedure the two ends never end up without a common
\* secret: whatever crashes between a save and a kernel update, and in
\* whatever order the ends apply, confirm or roll back, some secret is
\* active or retained on both disks, so a rollback or a confirmation can
\* still bring the link back without a repair (design 5.10).
CommonSecret ==
  \A p \in Peers :
    Linked(p) /\ config[p] = "managed" =>
      {link[p].active.psk, link[p].previous.psk} \cap
      {cstate[p].active.psk, cstate[p].previous.psk} \cap Secret # {}

\* When neither end retains a superseded secret, both have the same one
\* active: a restart of both ends then restores the link.
SettledAgree ==
  \A p \in Peers :
    /\ Linked(p) /\ config[p] = "managed"
    /\ link[p].previous = NoCand /\ cstate[p].previous = NoCand
    => Agree(p)

\* A live kernel entry is never rebuilt without the preshared key it had: on
\* the client for any `fetch`, on the server, once the configuration is marked,
\* for every peer whose link the serving process read at its start
\* (api/user.rs:155, interface.rs:423).
PskNeverStripped ==
  [][\A p \in Peers :
       /\ tunnel[p] \in Secret => tunnel'[p] # Open
       /\ required /\ psks[p] # 0 /\ entry[p] \in Secret => entry'[p] # Open]_vars

\* The same before the configuration is marked.  `serve` reads the secrets as
\* soon as there is a store, enable-peer only when the mark is there.
ReadPskKept ==
  [][\A p \in Peers : psks[p] # 0 /\ entry[p] \in Secret => entry'[p] # Open]_vars

\* The same for every peer, as the comment in api/user.rs:155 says it.
RebuiltEntryKeepsPsk ==
  [][\A p \in Peers : entry[p] \in Secret => entry'[p] # Open]_vars

\* `serve` fails closed on an enabled peer without a link, and rerunning
\* require-management always gets the server back, even when an export
\* clashes with a file of an earlier run.
ServerComesBack == []<>serving
=============================================================================
