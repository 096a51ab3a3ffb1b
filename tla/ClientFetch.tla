---------------------------- MODULE ClientFetch ----------------------------
(***************************************************************************)
(* The client's fetch cycle (client-core/src/interface.rs `fetch`) against *)
(* what it works on: the directory the server shows it, the peers on the   *)
(* WireGuard interface, the data-traffic gate (gate.rs), the cached        *)
(* directory (data_store.rs) and the PQ state (pq_install.rs, pq_sync.rs). *)
(* The daemon runs it in a loop (client/src/main.rs `up`); commands, the   *)
(* server, the network, a crash or a reboot come between its steps.        *)
(*                                                                         *)
(* PqExchange has the exchange itself and the two kernel updates of an     *)
(* installation, PqLifecycle the registration, ManagementLink the server's *)
(* own entry, Directory what the server shows and the walk over its pages. *)
(* Here each of these is a step or a choice.  --enable-pq-psk is on.       *)
(***************************************************************************)
EXTENDS Integers, FiniteSetsExt

CONSTANTS
  Peers,       \* the other data peers, by id
  Enrolled,    \* those that advertise a bundle from the start
  Permissive,  \* --pq-psk-permissive
  MaxCand,     \* bound: endpoint candidates of a peer (10 in the code)
  MaxChanges,  \* bound: changes of the directory
  MaxFaults    \* bound: crashes, reboots, `innernet down`

ASSUME FetchAssumption ==
  /\ Peers \subseteq Nat /\ Enrolled \subseteq Peers /\ Permissive \in BOOLEAN
  /\ MaxCand \in Nat /\ MaxChanges \in Nat /\ MaxFaults \in Nat

VARIABLES
  vis,      \* server: the peers that /user/state shows
  bundled,  \* server: the peers that advertise a PQ bundle
  up,       \* the interface exists
  entry,    \* per peer its kernel entry: none, quiet (no handshake yet), fresh
  gate,     \* the peers whose addresses are in the blocked sets
  cache,    \* the DataStore: per peer none, on, or off (is_disabled)
  life,     \* the PQ store: absent, empty (created, never saved), enabled, retiring
  known,    \* the relationships in it
  conf,     \* those with `confirmed`
  stopped,  \* those with `gated`, which no engine step touches any more
  pend,     \* per peer its `pending`: no, begun, installed, confirmed
  f,        \* the fetch under way
  changes, faults

server == <<vis, bundled, changes>>
kernel == <<up, entry, gate>>
pqVars == <<life, known, conf, stopped, pend>>
vars   == <<server, kernel, cache, pqVars, f, faults>>

Idle == [pc |-> "idle", online |-> FALSE, got |-> [q \in Peers |-> "none"], read |-> {},
         pq |-> {}, retiring |-> FALSE, todo |-> {}, left |-> [q \in Peers |-> 0]]

Retiring == life = "retiring"

\* A host that was never on the network's tunnel.
Init ==
  /\ vis = Peers /\ bundled = Enrolled /\ changes = 0
  /\ up = FALSE /\ entry = [q \in Peers |-> "none"] /\ gate = {}
  /\ cache = [q \in Peers |-> "none"]
  /\ life = "absent" /\ known = {} /\ conf = {} /\ stopped = {}
  /\ pend = [q \in Peers |-> "no"]
  /\ f = Idle /\ faults = 0

Goto(pc) == f' = [f EXCEPT !.pc = pc]

\* An error ends the fetch and with it the daemon, which systemd restarts.
Abort == f' = Idle

-----------------------------------------------------------------------------
(* Bringing the interface up *)

Start ==
  /\ f.pc = "idle"
  /\ Goto(IF up THEN "get" ELSE "boot")
  /\ UNCHANGED <<server, kernel, cache, pqVars, faults>>

\* `blocked_allowed_ips`: only what the cached directory still resolves.
BlockedOnBoot == {q \in known : cache[q] # "none"}

\* `apply_all`, before any peer has a kernel entry again.  A store without a
\* state does not load, and the interface stays down.
BootGate ==
  /\ f.pc = "boot"
  /\ \/ life = "absent" /\ Goto("wgup") /\ UNCHANGED gate
     \/ life = "empty"  /\ Abort /\ UNCHANGED gate
     \/ life \in {"enabled", "retiring"} /\ Goto("wgup") /\ gate' = BlockedOnBoot
  /\ UNCHANGED <<server, up, entry, cache, pqVars, faults>>

\* `wg::up`: an interface with the server's entry only.
WgUp ==
  /\ f.pc = "wgup"
  /\ up' = TRUE
  /\ Goto("get")
  /\ UNCHANGED <<server, entry, gate, cache, pqVars, faults>>

-----------------------------------------------------------------------------
(* The directory, and the PQ pass before it is applied *)

GetState ==
  /\ f.pc = "get"
  /\ f' = [f EXCEPT !.pc = "submit", !.online = TRUE,
                    !.got = [q \in Peers |-> IF q \in vis THEN "on" ELSE "none"]]
  /\ UNCHANGED <<server, kernel, cache, pqVars, faults>>

\* A transport error: the cached directory instead, unless it is empty.
GetCached ==
  /\ f.pc = "get"
  /\ IF \A q \in Peers : cache[q] = "none"
     THEN Abort
     ELSE f' = [f EXCEPT !.pc = "apply", !.online = FALSE, !.got = cache]
  /\ UNCHANGED <<server, kernel, cache, pqVars, faults>>

\* `Store::open` and `load`, which fails on an empty store and with it the
\* fetch; then `submit_pending_registration`, whose failure is not fatal (the
\* server takes no retirement, DisableRetires in PqLifecycle).  A store that was
\* not there is created, and the lock is held from here on.
OpenStore ==
  /\ f.pc = "submit"
  /\ \/ life = "absent" /\ life' = "empty" /\ Goto("register")
     \/ life = "empty" /\ Abort /\ UNCHANGED life
     \/ life \in {"enabled", "retiring"} /\ Goto("read") /\ UNCHANGED life
  /\ UNCHANGED <<server, kernel, cache, known, conf, stopped, pend, faults>>

\* `register`, and the first save.
Register ==
  /\ f.pc = "register"
  /\ life' = "enabled"
  /\ Goto("read")
  /\ UNCHANGED <<server, kernel, cache, known, conf, stopped, pend, faults>>

\* `legacy_eligible`; `confirmed` is never taken back, so it stands for
\* `prior_pq`.
LegacyEligible(q) == Permissive /\ q \notin bundled /\ q \notin conf

\* `fetch_state` and the gating pass.  Retiring gates everyone; otherwise a
\* confirmed peer is left alone, a legacy peer released, any other gated.
ToGate    == {q \in vis : Retiring \/ (q \notin conf /\ ~ LegacyEligible(q))}
ToRelease == {q \in vis : ~ Retiring /\ q \notin conf /\ LegacyEligible(q)}

GatePass ==
  /\ f.pc = "read"
  /\ f' = [f EXCEPT !.pc = "apply", !.read = vis, !.pq = bundled, !.retiring = Retiring]
  /\ gate' = (gate \cup ToGate) \ ToRelease
  /\ UNCHANGED <<server, up, entry, cache, pqVars, faults>>

-----------------------------------------------------------------------------
(* The peers on the interface *)

\* `Device::diff`: a listed peer is added or kept as it is, a disabled one is
\* neither added nor removed, one that is not listed is removed.
Diffed(q) ==
  CASE f.got[q] = "on"   -> IF entry[q] = "none" THEN "quiet" ELSE entry[q]
    [] f.got[q] = "off"  -> entry[q]
    [] f.got[q] = "none" -> "none"

\* `NatTraverse::new`: the candidates of the peers that the diff changes.
\* One that is not connected is always among them when it has candidates.
Apply ==
  /\ f.pc = "apply"
  /\ entry' = [q \in Peers |-> Diffed(q)]
  /\ \E n \in 0 .. MaxCand :
       f' = [f EXCEPT !.pc = IF f.online THEN "engine" ELSE "save",
                      !.todo = f.read \cap f.pq,
                      !.left = [q \in Peers |-> IF f.got[q] = "on" /\ entry[q] # "fresh"
                                                THEN n ELSE 0]]
  /\ UNCHANGED <<server, up, gate, cache, pqVars, faults>>

-----------------------------------------------------------------------------
(* The engine, for one peer at a time, and the gate of the confirmed ones *)

Listed(q) == f.got[q] # "none"

\* What `reconcile` may do to a relationship; the server and the other peer
\* decide which.
EngineRuns(q) == q \notin stopped /\ ~ Retiring

Moves(q) ==
  \/ /\ pend[q] = "no" /\ pend' = [pend EXCEPT ![q] = "begun"]
     /\ UNCHANGED <<entry, gate, conf>>
  \/ \* The exchange is over without a key, or the other bundle was replaced.
     /\ pend[q] # "no" /\ pend' = [pend EXCEPT ![q] = "no"]
     /\ UNCHANGED <<entry, gate, conf>>
  \/ \* `install`: gated, removed, created again.
     /\ pend[q] = "begun" /\ Listed(q)
     /\ pend' = [pend EXCEPT ![q] = "installed"]
     /\ gate' = gate \cup {q} /\ entry' = [entry EXCEPT ![q] = "quiet"]
     /\ UNCHANGED conf
  \/ \* `handshake_fresh` releases.
     /\ pend[q] = "installed" /\ Listed(q) /\ entry[q] = "fresh"
     /\ pend' = [pend EXCEPT ![q] = "confirmed"] /\ gate' = gate \ {q}
     /\ UNCHANGED <<entry, conf>>
  \/ /\ pend[q] = "confirmed"
     /\ pend' = [pend EXCEPT ![q] = "no"] /\ conf' = conf \cup {q}
     /\ UNCHANGED <<entry, gate>>

Engine ==
  /\ f.pc = "engine" /\ f.todo # {}
  /\ LET q == Min(f.todo) IN
       /\ f' = [f EXCEPT !.todo = @ \ {q}]
       /\ known' = known \cup {q}
       /\ \/ EngineRuns(q) /\ Moves(q)
          \/ UNCHANGED <<entry, gate, conf, pend>>
  /\ UNCHANGED <<server, up, cache, life, stopped, faults>>

\* Mutant of Reopened: a disabled endpoint's confirmed links are reopened too.
ReopenedAlways == {q \in known \cap conf : pend[q] = "no" /\ Listed(q) /\ entry[q] = "fresh"}

\* Mutant of Reopened: only a rotation opens a gate again.
ReopenedByRotation == {q \in known \cap conf : ~ Retiring /\ pend[q] = "confirmed"}

\* `reconcile_gate`.
Reopened ==
  {q \in known \cap conf : ~ Retiring /\ pend[q] = "no" /\ Listed(q) /\ entry[q] = "fresh"}

ReconcileGate ==
  /\ f.pc = "engine" /\ f.todo = {}
  /\ gate' = gate \ Reopened
  /\ Goto("save")
  /\ UNCHANGED <<server, up, entry, cache, pqVars, faults>>

-----------------------------------------------------------------------------
(* The cached directory, the report and NAT traversal *)

\* `write`: the file is cut, then written.
SaveTruncate ==
  /\ f.pc = "save"
  /\ f' = [f EXCEPT !.pc = "write", !.read = {}, !.pq = {}, !.retiring = FALSE,
             !.got = [q \in Peers |-> IF f.got[q] # "none" THEN f.got[q]
                                      ELSE IF cache[q] = "none" THEN "none" ELSE "off"]]
  /\ cache' = [q \in Peers |-> "none"]
  /\ UNCHANGED <<server, kernel, pqVars, faults>>

\* `update_peers`: nobody is deleted; who is not listed is disabled.
SaveWrite ==
  /\ f.pc = "write"
  /\ cache' = f.got
  /\ f' = [Idle EXCEPT !.pc = IF f.online THEN "report" ELSE "nat", !.left = f.left]
  /\ UNCHANGED <<server, kernel, pqVars, faults>>

ReportCandidates ==
  /\ f.pc = "report"
  /\ Goto("nat")
  /\ UNCHANGED <<server, kernel, cache, pqVars, faults>>

\* `refresh_remaining`: no handshake yet, still on the interface, and with
\* candidates left.
Remaining == {q \in Peers : entry[q] = "quiet" /\ f.left[q] > 0}

\* Mutant of NextLeft: the candidate that is tried stays in the list.
NextLeftKept(q) == f.left[q]

NextLeft(q) == f.left[q] - 1

NatStep ==
  /\ f.pc = "nat" /\ Remaining # {}
  /\ f' = [f EXCEPT !.left = [q \in Peers |-> IF q \in Remaining THEN NextLeft(q) ELSE 0]]
  /\ UNCHANGED <<server, kernel, cache, pqVars, faults>>

NatDone ==
  /\ f.pc = "nat" /\ Remaining = {}
  /\ f' = Idle
  /\ UNCHANGED <<server, kernel, cache, pqVars, faults>>

\* A request that the server refuses, or that fails after the directory came,
\* ends the fetch.  So does a report that takes longer than the pause before
\* traversal, which it is subtracted from: the process panics.
RequestFails ==
  /\ f.pc \in {"get", "register", "read", "report"}
  /\ Abort
  /\ UNCHANGED <<server, kernel, cache, pqVars, faults>>

-----------------------------------------------------------------------------
(* Commands; the PQ store is locked while a fetch has it open *)

StoreFree == f.pc \notin {"register", "read", "apply", "engine"} \/ ~ f.online

\* `pq_disable`: the retirement is saved, then submitted (and refused).
PqDisable ==
  /\ life = "enabled" /\ StoreFree
  /\ life' = "retiring"
  /\ pend' = [q \in Peers |-> "no"]
  /\ UNCHANGED <<server, kernel, cache, known, conf, stopped, f, faults>>

\* `pq_enable`: refused while anything is pending; every relationship stops.
PqEnable ==
  /\ Retiring /\ StoreFree /\ \A q \in Peers : pend[q] = "no"
  /\ life' = "enabled" /\ stopped' = known
  /\ UNCHANGED <<server, kernel, cache, known, conf, pend, f, faults>>

\* `innernet down`, between two fetches: the gate is left as it is.
Down ==
  /\ f.pc = "idle" /\ up /\ faults < MaxFaults
  /\ faults' = faults + 1
  /\ up' = FALSE /\ entry' = [q \in Peers |-> "none"]
  /\ UNCHANGED <<server, gate, cache, pqVars, f>>

-----------------------------------------------------------------------------
(* The environment *)

DirectoryChanges ==
  /\ changes < MaxChanges /\ changes' = changes + 1
  /\ \/ \E q \in Peers : vis' = (IF q \in vis THEN vis \ {q} ELSE vis \cup {q}) /\ UNCHANGED bundled
     \/ \E q \in Peers \ bundled : bundled' = bundled \cup {q} /\ UNCHANGED vis
  /\ UNCHANGED <<kernel, cache, pqVars, f, faults>>

Handshake ==
  /\ \E q \in Peers : entry[q] = "quiet" /\ entry' = [entry EXCEPT ![q] = "fresh"]
  /\ UNCHANGED <<server, up, gate, cache, pqVars, f, faults>>

Kill ==
  /\ f.pc # "idle" /\ faults < MaxFaults
  /\ faults' = faults + 1
  /\ Abort
  /\ UNCHANGED <<server, kernel, cache, pqVars>>

Reboot ==
  /\ up /\ faults < MaxFaults
  /\ faults' = faults + 1
  /\ up' = FALSE /\ entry' = [q \in Peers |-> "none"] /\ gate' = {}
  /\ Abort
  /\ UNCHANGED <<server, cache, pqVars>>

-----------------------------------------------------------------------------
\* The steps that the process takes on its own.
Local == \/ Start \/ BootGate \/ WgUp \/ Apply \/ Engine \/ ReconcileGate
         \/ SaveTruncate \/ SaveWrite \/ NatStep \/ NatDone \/ OpenStore

Next ==
  \/ Local
  \/ GetState \/ GetCached \/ Register \/ GatePass \/ ReportCandidates \/ RequestFails
  \/ PqDisable \/ PqEnable \/ Down
  \/ DirectoryChanges \/ Handshake \/ Kill \/ Reboot

Spec == Init /\ [][Next]_vars

\* The daemon keeps running: systemd restarts it.  The server is not away for
\* ever, so that a request that is made again and again succeeds at last; the
\* first registration is made once, and ends one way or the other.
Fairness ==
  /\ WF_vars(Local) /\ WF_vars(Register)
  /\ SF_vars(GetState) /\ SF_vars(GatePass) /\ SF_vars(ReportCandidates)

LiveSpec == Spec /\ Fairness

-----------------------------------------------------------------------------
(* Properties *)

OnKernel == {q \in Peers : entry[q] # "none"}

\* From the gating pass until the fetch lets go of the PQ store, a peer that
\* the pass saw has no open link that it should not have: none at all while
\* the endpoint retires, and none to a peer with a bundle before a handshake
\* under a key of theirs was seen.  The pass closes it (interface.rs 338-404),
\* the diff adds the entry later, and neither the engine nor `reconcile_gate`
\* opens it.
GateHolds ==
  [][f.online /\ f.pc \in {"read", "apply", "engine"} =>
       \A q \in f'.read \cap OnKernel' :
         \/ q \in gate'
         \/ ~ f'.retiring /\ (q \in f'.pq => q \in conf' \/ pend'[q] = "confirmed")]_vars

\* Once the directory stays as it is, the interface has exactly the peers
\* that the server shows, and keeps them: through crashes, torn caches, times
\* without a server, and every round of NAT traversal.  Only a first registration
\* that was cut short, between the store's creation and its first save
\* (pq_sync.rs 58-64), stops it, and does so for good.
KernelCatchesUp == <>[](life = "empty") \/ <>[](up /\ OnKernel = vis)

\* The gate of a confirmed link is not left closed: after a boot closed it,
\* the first handshake is enough for a later fetch to open it
\* (`reconcile_gate`).
ConfirmedReopens ==
  \A q \in Peers :
    []<> ~ (/\ q \in conf \cap gate \cap vis /\ entry[q] = "fresh"
            /\ pend[q] = "no" /\ life = "enabled")

\* `innernet pq-disable` says that every relationship is now gated
\* (client/src/main.rs 501, 531).
DisabledIsGated == Retiring => known \cap OnKernel \subseteq gate
=============================================================================
