------------------------- MODULE ClientFetchProofs -------------------------
(* Theorems about ClientFetch, for any peers, directory changes and faults. *)
EXTENDS ClientFetch, WellFoundedInduction, TLAPS

-----------------------------------------------------------------------------
(* The invariant *)

Pcs == {"idle", "boot", "wgup", "get", "submit", "register", "read", "apply", "engine", "save",
        "write", "report", "nat"}

\* The fetch as a record; what it holds of the directory are peers.
Shape(g) ==
  /\ g = [pc |-> g.pc, online |-> g.online, got |-> g.got, read |-> g.read, pq |-> g.pq,
          retiring |-> g.retiring, todo |-> g.todo, left |-> g.left]
  /\ g.pc \in Pcs /\ g.read \subseteq Peers

\* The link is closed, or open with reason: not while the endpoint retires,
\* and not to a peer with a bundle that has not confirmed.
Shut(q, g, gated, confirmed) ==
  q \in gated \/ (~ g.retiring /\ (q \in g.pq => q \in confirmed))

\* The same, or the handshake under the pending key was seen in this fetch.
Safe(q, g, gated, confirmed, pending) ==
  q \in gated \/ (~ g.retiring /\ (q \in g.pq => q \in confirmed \/ pending[q] = "confirmed"))

\* What the gating pass read is kept no longer than the PQ store is open.  Until
\* the engine has come to a peer its link is shut: a handshake that an earlier
\* fetch saw does not count, for the exchange may end without it.
FetchInv ==
  /\ vis \subseteq Peers /\ DOMAIN pend = Peers
  /\ Shape(f)
  /\ f.pc \notin {"apply", "engine", "save"} => f.read = {}
  /\ f.online /\ f.pc \in {"apply", "engine"} =>
       /\ f.retiring <=> Retiring
       /\ \A q \in f.read : Safe(q, f, gate, conf, pend)
  /\ f.online /\ f.pc = "apply" => \A q \in f.read : Shut(q, f, gate, conf)
  /\ f.pc = "engine" => f.online /\ f.todo \subseteq f.read
  /\ f.pc = "engine" => \A q \in f.todo : Shut(q, f, gate, conf)

\* The links that GateHolds is about, in one state.
Held(g, gated, confirmed, pending) == \A q \in g.read : Safe(q, g, gated, confirmed, pending)

\* The engine takes a peer that is left to do.
LEMMA LeastInSet ==
  ASSUME NEW T, T \subseteq Nat, T # {}
  PROVE  Min(T) \in T
<1>1. PICK m \in T : \A y \in T : ~ (<<y, m>> \in OpToRel(<, Nat))
  BY NatLessThanWellFounded, WFMin
<1>2. ASSUME NEW y \in T PROVE m <= y
  <2>1. y \in Nat /\ m \in Nat
    OBVIOUS
  <2>2. ~ (y < m)
    BY <1>1, <2>1 DEF OpToRel
  <2> QED
    BY <2>1, <2>2
<1> QED
  BY <1>2 DEF Min

-----------------------------------------------------------------------------
(* Steps outside the time from the gating pass to `reconcile_gate` *)

LEMMA IdleShape ==
  Shape(Idle) /\ Idle.pc = "idle" /\ Idle.read = {}
  BY DEF Idle, Shape, Pcs

\* A change of place changes nothing else of the fetch.
LEMMA GotoShape ==
  ASSUME Shape(f), NEW pc \in Pcs, Goto(pc)
  PROVE  /\ Shape(f') /\ f'.pc = pc /\ f'.online = f.online /\ f'.read = f.read
         /\ f'.pq = f.pq /\ f'.retiring = f.retiring /\ f'.todo = f.todo
<1>1. f' = [f EXCEPT !.pc = pc]
  BY DEF Goto
<1>2. f' = [pc |-> pc, online |-> f.online, got |-> f.got, read |-> f.read, pq |-> f.pq,
            retiring |-> f.retiring, todo |-> f.todo, left |-> f.left]
  BY <1>1 DEF Shape
<1> QED
  BY <1>2 DEF Shape

\* A fetch that holds nothing of a gating pass.
LEMMA NothingRead ==
  ASSUME vis' \subseteq Peers, DOMAIN pend' = Peers, Shape(f'), f'.read = {},
         f'.pc # "engine", f'.pc = "apply" => ~ f'.online
  PROVE  FetchInv' /\ Held(f', gate', conf', pend')
  BY DEF FetchInv, Held, Shape

\* A fetch that is over holds every gate: there is nothing it has read.
LEMMA Ended ==
  ASSUME vis' \subseteq Peers, DOMAIN pend' = Peers, f' = Idle
  PROVE  FetchInv' /\ Held(f', gate', conf', pend')
  BY IdleShape, NothingRead

\* Before the PQ state is read there is nothing to hold.
LEMMA BringUp ==
  ASSUME FetchInv, Start \/ BootGate \/ WgUp \/ OpenStore \/ Register \/ ReportCandidates
  PROVE  FetchInv' /\ Held(f', gate', conf', pend')
<1>1. vis' \subseteq Peers /\ DOMAIN pend' = Peers
  BY DEF FetchInv, Start, BootGate, WgUp, OpenStore, Register, ReportCandidates, server, pqVars
<1>2. CASE f' = Idle
  BY <1>1, <1>2, Ended
<1>3. ASSUME NEW pc \in {"boot", "wgup", "get", "register", "read", "nat"}, Goto(pc)
      PROVE  FetchInv' /\ Held(f', gate', conf', pend')
  <2>1. f.read = {} /\ Shape(f) /\ pc \in Pcs
    BY DEF FetchInv, Start, BootGate, WgUp, OpenStore, Register, ReportCandidates, Pcs
  <2>2. Shape(f') /\ f'.pc = pc /\ f'.read = {}
    BY <1>3, <2>1, GotoShape
  <2> QED
    BY <1>1, <1>3, <2>2, NothingRead
<1>4. f' = Idle \/ \E pc \in {"boot", "wgup", "get", "register", "read", "nat"} : Goto(pc)
  BY DEF Start, BootGate, WgUp, OpenStore, Register, ReportCandidates, Abort
<1> QED
  BY <1>2, <1>3, <1>4

\* `get_state` and the cached state: the read, or the fetch without one.
LEMMA GetSteps ==
  ASSUME FetchInv, GetState \/ GetCached
  PROVE  FetchInv' /\ Held(f', gate', conf', pend')
<1>1. vis' \subseteq Peers /\ DOMAIN pend' = Peers
  BY DEF FetchInv, GetState, GetCached, server, pqVars
<1>2. f.read = {} /\ Shape(f)
  BY DEF FetchInv, GetState, GetCached
<1>3. CASE f' = Idle
  BY <1>1, <1>3, Ended
<1>4. ASSUME NEW pc \in Pcs, NEW on, NEW g,
             f' = [f EXCEPT !.pc = pc, !.online = on, !.got = g]
      PROVE  Shape(f') /\ f'.pc = pc /\ f'.read = {} /\ f'.online = on
  <2>1. f' = [pc |-> pc, online |-> on, got |-> g, read |-> f.read, pq |-> f.pq,
              retiring |-> f.retiring, todo |-> f.todo, left |-> f.left]
    BY <1>2, <1>4 DEF Shape
  <2> QED
    BY <1>2, <2>1 DEF Shape
<1>5. CASE GetState
  <2>1. PICK g : f' = [f EXCEPT !.pc = "submit", !.online = TRUE, !.got = g]
    BY <1>5 DEF GetState
  <2>2. "submit" \in Pcs
    BY DEF Pcs
  <2>3. Shape(f') /\ f'.pc = "submit" /\ f'.read = {}
    BY <1>4, <2>1, <2>2
  <2> QED
    BY <1>1, <2>3, NothingRead
<1>6. CASE GetCached /\ f' # Idle
  <2>1. f' = [f EXCEPT !.pc = "apply", !.online = FALSE, !.got = cache]
    BY <1>6 DEF GetCached, Abort
  <2>2. "apply" \in Pcs
    BY DEF Pcs
  <2>3. Shape(f') /\ f'.pc = "apply" /\ f'.read = {} /\ f'.online = FALSE
    BY <1>4, <2>1, <2>2
  <2> QED
    BY <1>1, <2>3, NothingRead
<1> QED
  BY <1>3, <1>5, <1>6

\* The data store and NAT traversal come after the engine and touch no gate.
LEMMA SaveSteps ==
  ASSUME FetchInv, SaveTruncate \/ SaveWrite \/ NatStep
  PROVE  FetchInv' /\ Held(f', gate', conf', pend')
<1>1. vis' \subseteq Peers /\ DOMAIN pend' = Peers
  BY DEF FetchInv, SaveTruncate, SaveWrite, NatStep, server, pqVars
<1>2. Shape(f)
  BY DEF FetchInv
<1>3. CASE SaveTruncate
  <2>1. PICK g : f' = [f EXCEPT !.pc = "write", !.read = {}, !.pq = {}, !.retiring = FALSE,
                                !.got = g]
    BY <1>3 DEF SaveTruncate
  <2>2. f' = [pc |-> "write", online |-> f.online, got |-> g, read |-> {}, pq |-> {},
              retiring |-> FALSE, todo |-> f.todo, left |-> f.left]
    BY <1>2, <2>1 DEF Shape
  <2>3. Shape(f') /\ f'.pc = "write" /\ f'.read = {}
    BY <2>2 DEF Shape, Pcs
  <2> QED
    BY <1>1, <2>3, NothingRead
<1>4. CASE SaveWrite
  <2> DEFINE pc == IF f.online THEN "report" ELSE "nat"
  <2>1. f' = [Idle EXCEPT !.pc = pc, !.left = f.left]
    BY <1>4 DEF SaveWrite
  <2>2. pc \in {"report", "nat"}
    OBVIOUS
  <2> HIDE DEF pc
  <2>3. f' = [pc |-> pc, online |-> Idle.online, got |-> Idle.got, read |-> Idle.read,
              pq |-> Idle.pq, retiring |-> Idle.retiring, todo |-> Idle.todo, left |-> f.left]
    BY <2>1, IdleShape DEF Shape
  <2>4. Shape(f') /\ f'.pc = pc /\ f'.read = {}
    BY <2>2, <2>3, IdleShape DEF Shape, Pcs
  <2> QED
    BY <1>1, <2>2, <2>4, NothingRead
<1>5. CASE NatStep
  <2>1. PICK g : f' = [f EXCEPT !.left = g]
    BY <1>5 DEF NatStep
  <2>2. f' = [pc |-> f.pc, online |-> f.online, got |-> f.got, read |-> f.read, pq |-> f.pq,
              retiring |-> f.retiring, todo |-> f.todo, left |-> g]
    BY <1>2, <2>1 DEF Shape
  <2>3. Shape(f') /\ f'.pc = "nat" /\ f'.read = {}
    BY <1>2, <1>5, <2>2 DEF Shape, NatStep, FetchInv
  <2> QED
    BY <1>1, <2>3, NothingRead
<1> QED
  BY <1>3, <1>4, <1>5

\* A fetch that ends, for whatever reason, has let go of what it read.
LEMMA EndSteps ==
  ASSUME FetchInv, NatDone \/ RequestFails \/ Kill \/ Reboot
  PROVE  FetchInv' /\ Held(f', gate', conf', pend')
<1>1. vis' \subseteq Peers /\ DOMAIN pend' = Peers
  BY DEF FetchInv, NatDone, RequestFails, Kill, Reboot, server, pqVars
<1>2. f' = Idle
  BY DEF NatDone, RequestFails, Kill, Reboot, Abort
<1> QED
  BY <1>1, <1>2, Ended

\* What others do while a fetch is under way: the directory, handshakes, and the
\* commands, which wait for the PQ store.
LEMMA OtherSteps ==
  ASSUME FetchInv, DirectoryChanges \/ Handshake \/ Down \/ UNCHANGED vars
  PROVE  /\ FetchInv'
         /\ f.online /\ f.pc \in {"read", "apply", "engine"} => Held(f', gate', conf', pend')
<1>1. UNCHANGED <<f, gate, conf, pend, life>>
  BY DEF DirectoryChanges, Handshake, Down, vars, kernel, pqVars
<1>2. vis' \subseteq Peers
  BY DEF FetchInv, DirectoryChanges, Handshake, Down, vars, server
<1>3. FetchInv'
  BY <1>1, <1>2 DEF FetchInv, Shape, Safe, Shut, Retiring
<1> QED
  BY <1>1, <1>3 DEF FetchInv, Held, Safe

\* The PQ commands take the lock of the store, so no fetch is at its engine.
LEMMA CommandSteps ==
  ASSUME FetchInv, PqDisable \/ PqEnable
  PROVE  FetchInv' /\ ~ (f.online /\ f.pc \in {"read", "apply", "engine"})
<1>1. UNCHANGED <<f, gate, conf, vis>> /\ StoreFree
  BY DEF PqDisable, PqEnable, server, kernel
<1>2. DOMAIN pend' = Peers
  BY DEF PqDisable, PqEnable, FetchInv
<1>3. ~ (f.online /\ f.pc \in {"read", "apply", "engine"})
  BY <1>1 DEF StoreFree
<1>4. f.pc # "engine"
  BY <1>3 DEF FetchInv
<1> QED
  BY <1>1, <1>2, <1>3, <1>4 DEF FetchInv, Shape

-----------------------------------------------------------------------------
(* From the gating pass to `reconcile_gate` *)

\* The pass shuts what it does not release, and releases only peers without a
\* bundle.
LEMMA GatePassHolds ==
  ASSUME FetchInv, GatePass
  PROVE  FetchInv' /\ Held(f', gate', conf', pend')
<1>1. /\ f' = [f EXCEPT !.pc = "apply", !.read = vis, !.pq = bundled, !.retiring = Retiring]
      /\ UNCHANGED <<vis, pend, conf, life>>
      /\ gate' = (gate \cup ToGate) \ ToRelease
  BY DEF GatePass, server, pqVars
<1>2. f' = [pc |-> "apply", online |-> f.online, got |-> f.got, read |-> vis, pq |-> bundled,
            retiring |-> Retiring, todo |-> f.todo, left |-> f.left]
  BY <1>1 DEF FetchInv, Shape
<1>3. /\ f'.pc = "apply" /\ f'.read = vis /\ f'.pq = bundled /\ f'.retiring = Retiring
      /\ Shape(f')
  BY <1>2 DEF FetchInv, Shape, Pcs
<1>4. ASSUME NEW q \in vis PROVE Shut(q, f', gate', conf')
  <2>1. CASE q \in ToGate
    <3>1. q \notin ToRelease
      BY <2>1 DEF ToGate, ToRelease
    <3> QED
      BY <1>1, <2>1, <3>1 DEF Shut
  <2>2. CASE q \notin ToGate
    <3>1. ~ Retiring /\ (q \in conf \/ LegacyEligible(q))
      BY <2>2 DEF ToGate
    <3>2. q \in bundled => q \in conf
      BY <3>1 DEF LegacyEligible
    <3>3. ~ f'.retiring /\ (q \in f'.pq => q \in conf')
      BY <1>1, <1>3, <3>1, <3>2
    <3> QED
      BY <3>3 DEF Shut
  <2> QED
    BY <2>1, <2>2
<1>5. \A q \in f'.read : Shut(q, f', gate', conf') /\ Safe(q, f', gate', conf', pend')
  BY <1>3, <1>4 DEF Shut, Safe
<1>6. f'.retiring <=> Retiring'
  BY <1>1, <1>3 DEF Retiring
<1>7. vis' \subseteq Peers /\ DOMAIN pend' = Peers
  BY <1>1 DEF FetchInv
<1> QED
  BY <1>3, <1>5, <1>6, <1>7 DEF FetchInv, Held

\* The ordinary diff opens no gate of a peer that was read.
LEMMA ApplyHolds ==
  ASSUME FetchInv, Apply
  PROVE  /\ FetchInv'
         /\ f.online => Held(f', gate', conf', pend')
<1>1. UNCHANGED <<vis, pend, conf, life, gate>> /\ f.pc = "apply"
  BY DEF Apply, server, pqVars
<1> DEFINE pc == IF f.online THEN "engine" ELSE "save"
<1>2. PICK l : f' = [f EXCEPT !.pc = pc, !.todo = f.read \cap f.pq, !.left = l]
  BY DEF Apply
<1>3. pc \in {"engine", "save"} /\ (pc = "engine" <=> f.online)
  OBVIOUS
<1> HIDE DEF pc
<1>4. f' = [pc |-> pc, online |-> f.online, got |-> f.got, read |-> f.read, pq |-> f.pq,
            retiring |-> f.retiring, todo |-> f.read \cap f.pq, left |-> l]
  BY <1>2 DEF FetchInv, Shape
<1>5. /\ f'.pc = pc /\ f'.read = f.read /\ f'.pq = f.pq /\ f'.retiring = f.retiring
      /\ f'.online = f.online /\ f'.todo = f.read \cap f.pq
  BY <1>4
<1>6. Shape(f')
  BY <1>3, <1>4 DEF FetchInv, Shape, Pcs
<1>7. CASE f.online
  <2>1. \A q \in f.read : Safe(q, f, gate, conf, pend) /\ Shut(q, f, gate, conf)
    BY <1>1, <1>7 DEF FetchInv
  <2>2. \A q \in f'.read : Safe(q, f', gate', conf', pend') /\ Shut(q, f', gate', conf')
    BY <1>1, <1>5, <2>1 DEF Safe, Shut
  <2>3. f'.retiring <=> Retiring'
    BY <1>1, <1>5, <1>7 DEF FetchInv, Retiring
  <2>4. f'.pc = "engine" /\ f'.online /\ f'.todo \subseteq f'.read
    BY <1>3, <1>5, <1>7
  <2> QED
    BY <1>1, <1>6, <2>2, <2>3, <2>4 DEF FetchInv, Held
<1>8. CASE ~ f.online
  BY <1>1, <1>3, <1>5, <1>6, <1>8 DEF FetchInv
<1> QED
  BY <1>7, <1>8

\* One step of the engine leaves every other peer alone, and opens the gate of
\* its own only on the handshake.
LEMMA MovesHolds ==
  ASSUME FetchInv, f.pc = "engine", NEW q \in f.todo, EngineRuns(q), Moves(q)
  PROVE  /\ DOMAIN pend' = Peers
         /\ Safe(q, f, gate', conf', pend')
         /\ \A r \in f.read : r # q =>
              /\ Safe(r, f, gate, conf, pend) => Safe(r, f, gate', conf', pend')
              /\ Shut(r, f, gate, conf) => Shut(r, f, gate', conf')
<1>1. /\ f.online /\ f.todo \subseteq f.read /\ f.read \subseteq Peers /\ DOMAIN pend = Peers
      /\ Shut(q, f, gate, conf) /\ ~ f.retiring
  BY DEF FetchInv, Shape, EngineRuns
<1>2. q \in Peers
  BY <1>1
<1>3. PICK v : pend' = [pend EXCEPT ![q] = v]
  BY DEF Moves
<1>4. DOMAIN pend' = Peers /\ \A r \in Peers : r # q => pend'[r] = pend[r]
  BY <1>1, <1>3
<1>5. \A r : r # q => ((r \in gate' <=> r \in gate) /\ (r \in conf' <=> r \in conf))
  BY DEF Moves
<1>6. Safe(q, f, gate', conf', pend')
  <2>1. CASE UNCHANGED <<gate, conf>>
    BY <1>1, <2>1 DEF Shut, Safe
  <2>2. CASE gate' = gate \cup {q}
    BY <2>2 DEF Safe
  <2>3. CASE pend' = [pend EXCEPT ![q] = "confirmed"]
    BY <1>1, <1>2, <2>3 DEF Safe
  <2>4. CASE conf' = conf \cup {q}
    BY <1>1, <2>4 DEF Safe
  <2> QED
    BY <2>1, <2>2, <2>3, <2>4 DEF Moves
<1> QED
  BY <1>1, <1>4, <1>5, <1>6 DEF Safe, Shut

\* The engine opens the gate of a peer only when it confirms its key.
LEMMA EngineHolds ==
  ASSUME FetchInv, Engine
  PROVE  FetchInv' /\ Held(f', gate', conf', pend')
<1> DEFINE q == Min(f.todo)
<1>1. /\ f.pc = "engine" /\ f.todo # {} /\ f' = [f EXCEPT !.todo = @ \ {q}]
      /\ UNCHANGED <<vis, life>>
      /\ (EngineRuns(q) /\ Moves(q)) \/ UNCHANGED <<entry, gate, conf, pend>>
  BY DEF Engine, server
<1>2. /\ f.online /\ f.todo \subseteq f.read /\ f.read \subseteq Peers /\ Shape(f)
      /\ vis \subseteq Peers /\ DOMAIN pend = Peers
      /\ f.retiring <=> Retiring
      /\ \A r \in f.read : Safe(r, f, gate, conf, pend)
      /\ \A r \in f.todo : Shut(r, f, gate, conf)
  BY <1>1 DEF FetchInv, Shape
<1>3. q \in f.todo
  <2>1. f.todo \subseteq Nat
    BY <1>2, FetchAssumption
  <2> QED
    BY <1>1, <2>1, LeastInSet
<1> HIDE DEF q
<1>4. f' = [pc |-> f.pc, online |-> f.online, got |-> f.got, read |-> f.read, pq |-> f.pq,
            retiring |-> f.retiring, todo |-> f.todo \ {q}, left |-> f.left]
  BY <1>1, <1>2 DEF Shape
<1>5. /\ f'.pc = "engine" /\ f'.online = f.online /\ f'.read = f.read /\ f'.pq = f.pq
      /\ f'.retiring = f.retiring /\ f'.todo = f.todo \ {q} /\ Shape(f')
  BY <1>1, <1>2, <1>4 DEF Shape
<1>6. /\ DOMAIN pend' = Peers
      /\ \A r \in f.read : Safe(r, f, gate', conf', pend')
      /\ \A r \in f.todo \ {q} : Shut(r, f, gate', conf')
  <2>1. CASE EngineRuns(q) /\ Moves(q)
    <3>1. /\ DOMAIN pend' = Peers
          /\ Safe(q, f, gate', conf', pend')
          /\ \A r \in f.read : r # q =>
               /\ Safe(r, f, gate, conf, pend) => Safe(r, f, gate', conf', pend')
               /\ Shut(r, f, gate, conf) => Shut(r, f, gate', conf')
      BY <1>1, <1>3, <2>1, MovesHolds
    <3> QED
      BY <1>2, <3>1
  <2>2. CASE UNCHANGED <<gate, conf, pend>>
    BY <1>2, <2>2
  <2> QED
    BY <1>1, <2>1, <2>2
<1>7. \A r \in f'.read : Safe(r, f', gate', conf', pend')
  BY <1>5, <1>6 DEF Safe
<1>8. \A r \in f'.todo : Shut(r, f', gate', conf')
  BY <1>5, <1>6 DEF Shut
<1>9. (f'.retiring <=> Retiring') /\ vis' \subseteq Peers /\ f'.todo \subseteq f'.read
  BY <1>1, <1>2, <1>5 DEF Retiring
<1> QED
  BY <1>2, <1>5, <1>6, <1>7, <1>8, <1>9 DEF FetchInv, Held

\* `reconcile_gate` opens confirmed links only, and none of a retiring endpoint.
LEMMA ReconcileGateHolds ==
  ASSUME FetchInv, ReconcileGate
  PROVE  FetchInv' /\ Held(f', gate', conf', pend')
<1>1. /\ f.pc = "engine" /\ gate' = gate \ Reopened /\ Goto("save")
      /\ UNCHANGED <<vis, pend, conf, life>>
  BY DEF ReconcileGate, server, pqVars
<1>2. /\ Shape(f) /\ vis \subseteq Peers /\ DOMAIN pend = Peers
      /\ f.retiring <=> Retiring
      /\ \A q \in f.read : Safe(q, f, gate, conf, pend)
  BY <1>1 DEF FetchInv
<1>3. /\ Shape(f') /\ f'.pc = "save" /\ f'.read = f.read /\ f'.pq = f.pq
      /\ f'.retiring = f.retiring
  BY <1>1, <1>2, GotoShape DEF Pcs
<1>4. ASSUME NEW q \in f.read PROVE Safe(q, f, gate', conf, pend)
  <2>1. CASE q \in Reopened
    BY <1>2, <2>1 DEF Reopened, Safe
  <2>2. CASE q \notin Reopened
    BY <1>1, <1>2, <2>2 DEF Safe
  <2> QED
    BY <2>1, <2>2
<1>5. Held(f', gate', conf', pend')
  BY <1>1, <1>3, <1>4 DEF Held, Safe
<1> QED
  BY <1>1, <1>2, <1>3, <1>5 DEF FetchInv

-----------------------------------------------------------------------------
\* A step of the whole system.
LEMMA FetchStep ==
  ASSUME FetchInv, [Next]_vars
  PROVE  /\ FetchInv'
         /\ f.online /\ f.pc \in {"read", "apply", "engine"} => Held(f', gate', conf', pend')
<1>1. CASE Start \/ BootGate \/ WgUp \/ OpenStore \/ Register \/ ReportCandidates
  BY <1>1, BringUp
<1>2. CASE GetState \/ GetCached
  BY <1>2, GetSteps
<1>3. CASE SaveTruncate \/ SaveWrite \/ NatStep
  BY <1>3, SaveSteps
<1>4. CASE NatDone \/ RequestFails \/ Kill \/ Reboot
  BY <1>4, EndSteps
<1>5. CASE DirectoryChanges \/ Handshake \/ Down \/ UNCHANGED vars
  BY <1>5, OtherSteps
<1>6. CASE PqDisable \/ PqEnable
  BY <1>6, CommandSteps
<1>7. CASE GatePass
  BY <1>7, GatePassHolds
<1>8. CASE Apply
  BY <1>8, ApplyHolds
<1>9. CASE Engine
  BY <1>9, EngineHolds
<1>10. CASE ReconcileGate
  BY <1>10, ReconcileGateHolds
<1> QED
  BY <1>1, <1>2, <1>3, <1>4, <1>5, <1>6, <1>7, <1>8, <1>9, <1>10 DEF Next, Local

\* The inductive invariant of `fetch` and of the gate it keeps.
THEOREM FetchInductive == Spec => []FetchInv
<1>1. Init => FetchInv
  <2> SUFFICES ASSUME Init PROVE FetchInv
    OBVIOUS
  <2>1. vis \subseteq Peers /\ DOMAIN pend = Peers /\ f = Idle
    BY DEF Init
  <2> QED
    BY <2>1, IdleShape DEF FetchInv
<1>2. FetchInv /\ [Next]_vars => FetchInv'
  BY FetchStep
<1> QED
  BY <1>1, <1>2, PTL DEF Spec

\* From the gating pass to the end of `reconcile_gate` no link is open without
\* reason, whatever the directory, the other peers, the operator or a crash do
\* in between (`fetch`, interface.rs).
THEOREM GateIsHeld == Spec => GateHolds
<1>1. FetchInv /\ [Next]_vars =>
        (f.online /\ f.pc \in {"read", "apply", "engine"} =>
           \A q \in f'.read \cap OnKernel' :
             \/ q \in gate'
             \/ ~ f'.retiring /\ (q \in f'.pq => q \in conf' \/ pend'[q] = "confirmed"))
  <2> SUFFICES ASSUME FetchInv, [Next]_vars, f.online, f.pc \in {"read", "apply", "engine"},
                      NEW q \in f'.read
               PROVE  \/ q \in gate'
                      \/ ~ f'.retiring /\ (q \in f'.pq => q \in conf' \/ pend'[q] = "confirmed")
    OBVIOUS
  <2>1. Held(f', gate', conf', pend')
    BY FetchStep
  <2> QED
    BY <2>1 DEF Held, Safe
<1> QED
  BY <1>1, FetchInductive, PTL DEF Spec, GateHolds
=============================================================================
