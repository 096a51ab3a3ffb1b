---------------------------- MODULE PqLifecycle ----------------------------
(***************************************************************************)
(* The PQ identity of one data peer, the local one, from its first         *)
(* registration through `innernet pq-disable` and `innernet pq-enable`     *)
(* (client/src/main.rs): its private store (pq/src/state.rs, opened by     *)
(* client-core/src/pq_sync.rs), the bundle the server advertises for it    *)
(* (server/src/db/pq.rs, `register_inner`) and one remote peer that keeps  *)
(* a copy of the bundle and exchanges PSKs under it.                       *)
(*                                                                         *)
(* PqExchange has the exchange in full; here it is the few steps that      *)
(* interact with the identity: it opens, is answered, commits, collects    *)
(* one receipt of each side, and ends.  The remote's own bundle does not   *)
(* change.  Bundle ids and exchange ids come from counters; 0 is "none".   *)
(* The store is locked for the length of a cycle or command, so the        *)
(* commands run between cycles.  `emergency_retire` is left out: no        *)
(* command calls it.                                                       *)
(***************************************************************************)
EXTENDS Integers, FiniteSets, PqDecision

CONSTANTS
  MaxRevision,   \* bound: identities the local peer generates
  MaxExchanges,  \* bound: exchanges the initiator opens
  MaxLate        \* bound: given-up registrations still under way

ASSUME LifecycleAssumption ==
  /\ MaxRevision \in Nat \ {0}
  /\ MaxExchanges \in Nat
  /\ MaxLate \in Nat

VARIABLES
  role,      \* the local peer's role in the pair
  bundle,    \* the server's advertised bundle of the local peer
  history,   \* pq_bundle_history: every bundle id ever registered
  row,       \* the pair's row of pq_exchanges
  late,      \* registrations whose sender gave up
  store,     \* the local store: absent, empty (created, nothing saved), saved
  disk,      \* the saved state of the local peer
  made,      \* the identity being registered for the first time, 0 if none
  seen,      \* the remote peer's copy of the bundle
  pend,      \* per actor: its pending exchange and the bundle it is pinned to
  gate,      \* whether the local peer lets application traffic through
  pc,        \* the local peer's next step
  drawn,     \* the last bundle id drawn
  opened,    \* the last exchange id drawn
  calm,      \* no more faults from here on
  hasty      \* history: the operator ran pq-disable, or pq-enable before the
             \* previous change was answered

vars == <<role, bundle, history, row, late, store, disk, made, seen, pend, gate,
          pc, drawn, opened, calm, hasty>>

serverVars == <<bundle, history, row>>
storeVars  == <<store, disk, made>>

-----------------------------------------------------------------------------
(* Data *)

Actor == {"local", "remote"}

BundleId == 0 .. MaxRevision

Advertised == [id : BundleId, rev : Nat, life : {"Enabled", "Retired"}]
NoBundle   == [id |-> 0, rev |-> 0, life |-> "Enabled"]

\* `Registration`; expected = 0 is None.
Registration == [expected : Nat, id : BundleId, rev : Nat, life : {"Enabled", "Retired"}]

Row   == [xid : 0 .. MaxExchanges, id : BundleId, phase : Phase, receipts : SUBSET Actor]
NoRow == [xid |-> 0, id |-> 0, phase |-> "Aborted", receipts |-> {}]

None   == [xid |-> 0, id |-> 0]
Pinned == {None} \cup [xid : 1 .. MaxExchanges, id : 1 .. MaxRevision]

\* The parts of `EndpointState` and of its one `Relationship` that matter here.
Endpoint == [id : BundleId, rev : Nat, registration : Registration,
             enrollment : {"Registering", "Advertised", "Retiring", "Retired"},
             confirmed : BOOLEAN, gated : BOOLEAN]

FirstRegistration(id) == [expected |-> 0, id |-> id, rev |-> 1, life |-> "Enabled"]

Registered(id) == [id |-> id, rev |-> 1, registration |-> FirstRegistration(id),
                   enrollment |-> "Advertised", confirmed |-> FALSE, gated |-> FALSE]

-----------------------------------------------------------------------------
(* The server *)

Active(r) == r.phase \in {"Proposed", "Ready", "Committed"}

Desired(q) == [id |-> q.id, rev |-> q.rev, life |-> q.life]

\* The bundle must carry the revision after the expected one.
Follows(q) == q.rev = q.expected + 1

\* Mutant of Repeats: a retry of what was done is a conflict.
RepeatsNever(q) == FALSE

\* A lost successful reply is an identical retry.
Repeats(q) == Follows(q) /\ bundle = Desired(q)

\* Mutant of Takes: a replacement ignores the exchange under way.
TakesActive(q) ==
  /\ Follows(q) /\ ~Repeats(q)
  /\ bundle.rev = q.expected
  /\ \/ q.life = "Enabled" /\ q.id \notin history
     \/ q.life = "Retired" /\ q.id = bundle.id /\ bundle.id # 0

\* Mutant of Takes: the expected revision is not compared.
TakesUnexpected(q) ==
  /\ Follows(q) /\ ~Repeats(q)
  /\ ~Active(row)
  /\ \/ q.life = "Enabled" /\ q.id \notin history
     \/ q.life = "Retired" /\ q.id = bundle.id /\ bundle.id # 0

\* The compare-and-swap of `register_inner`.
Takes(q) ==
  /\ Follows(q) /\ ~Repeats(q)
  /\ bundle.rev = q.expected
  /\ ~Active(row)
  /\ \/ q.life = "Enabled" /\ q.id \notin history
     \/ q.life = "Retired" /\ q.id = bundle.id /\ bundle.id # 0

\* Mutant of Register: the rows of the old bundle are kept.
RegisterKeepingRows(q) ==
  /\ bundle' = IF Takes(q) THEN Desired(q) ELSE bundle
  /\ history' = IF Takes(q) THEN history \cup {q.id} ELSE history
  /\ UNCHANGED row

\* One registration transaction.  The pair's row is inactive when the bundle
\* changes, and goes with the bundle it belonged to.
Register(q) ==
  /\ bundle' = IF Takes(q) THEN Desired(q) ELSE bundle
  /\ history' = IF Takes(q) THEN history \cup {q.id} ELSE history
  /\ row' = IF Takes(q) THEN NoRow ELSE row

\* The sweep ends a preparation whose TTL has passed.
Expire ==
  /\ row.phase \in {"Proposed", "Ready"}
  /\ row' = [row EXCEPT !.phase = "Aborted"]
  /\ UNCHANGED <<role, bundle, history, late, storeVars, seen, pend, gate, pc,
                 drawn, opened, calm, hasty>>

DeliverLate ==
  \E q \in late :
    /\ Register(q)
    /\ late' = late \ {q}
    /\ UNCHANGED <<role, storeVars, seen, pend, gate, pc, drawn, opened, calm, hasty>>

-----------------------------------------------------------------------------
(* The exchange in outline, for either actor *)

Initiates(w) == (w = "local") <=> (role = Initiator)

\* The local peer's bundle as the actor knows it.
Known(w) == IF w = "local" THEN disk.id ELSE seen.id

\* What `reconcile` leaves pending: a new exchange, an answered one, or
\* nothing once the server has ended it.
Begins(w) ==
  /\ Initiates(w) /\ pend[w] = None
  /\ opened < MaxExchanges
  /\ opened' = opened + 1
  /\ pend' = [pend EXCEPT ![w] = [xid |-> opened + 1, id |-> Known(w)]]

Answers(w) ==
  /\ ~Initiates(w) /\ pend[w] = None
  /\ row.phase = "Proposed" /\ row.id = Known(w)
  /\ pend' = [pend EXCEPT ![w] = [xid |-> row.xid, id |-> row.id]]
  /\ UNCHANGED opened

Ends(w) ==
  /\ pend[w].xid # 0 /\ row.xid = pend[w].xid /\ ~Active(row)
  /\ pend' = [pend EXCEPT ![w] = None]
  /\ UNCHANGED opened

\* `submit_inner`: the row after the actor's next message, if the server
\* takes it.  Both bundles must be the current ones and enabled.
Submitted(w) ==
  /\ pend[w].xid # 0
  /\ bundle.life = "Enabled" /\ bundle.id = pend[w].id
  /\ \/ /\ Initiates(w) /\ ~Active(row) /\ pend[w].xid > row.xid
        /\ row' = [xid |-> pend[w].xid, id |-> bundle.id, phase |-> "Proposed", receipts |-> {}]
     \/ /\ row.xid = pend[w].xid
        /\ \/ ~Initiates(w) /\ row.phase = "Proposed"
              /\ row' = [row EXCEPT !.phase = "Ready"]
           \/ Initiates(w) /\ row.phase = "Ready"
              /\ row' = [row EXCEPT !.phase = "Committed"]
           \/ row.phase = "Committed" /\ w \notin row.receipts
              /\ row' = [row EXCEPT !.receipts = @ \cup {w},
                                    !.phase = IF row.receipts = {} THEN @ ELSE "Complete"]

-----------------------------------------------------------------------------
(* The remote peer *)

\* Mutant of ObserveRemote: a pending exchange survives the bundle it is
\* pinned to.
ObserveRemoteKeeping ==
  /\ bundle.id # 0
  /\ seen' = bundle
  /\ UNCHANGED <<role, serverVars, late, storeVars, pend, gate, pc, drawn, opened, calm, hasty>>

\* `observe_remote`: the newer bundle replaces the copy, and with it goes the
\* exchange pinned to the old one; a retired bundle also ends its exchange.
ObserveRemote ==
  /\ bundle.id # 0
  /\ bundle.rev >= seen.rev
  /\ seen' = bundle
  /\ pend' = [pend EXCEPT !["remote"] =
       IF bundle.life = "Retired" \/ (bundle.id # seen.id /\ @.id = seen.id) THEN None ELSE @]
  /\ UNCHANGED <<role, serverVars, late, storeVars, gate, pc, drawn, opened, calm, hasty>>

\* The remote engine works on a relationship that is not blocked.
RemoteRuns == seen.id # 0 /\ seen.life = "Enabled"

RemoteReconcile ==
  /\ RemoteRuns
  /\ Begins("remote") \/ Answers("remote") \/ Ends("remote")
  /\ UNCHANGED <<role, serverVars, late, storeVars, seen, gate, pc, drawn, calm, hasty>>

RemoteSubmit ==
  /\ RemoteRuns
  /\ Submitted("remote")
  /\ UNCHANGED <<role, bundle, history, late, storeVars, seen, pend, gate, pc,
                 drawn, opened, calm, hasty>>

-----------------------------------------------------------------------------
(* The local peer: first registration *)

\* `open_or_register` creates the store and generates an identity.
OpenFresh ==
  /\ pc = "idle" /\ store = "absent"
  /\ drawn < MaxRevision
  /\ drawn' = drawn + 1
  /\ made' = drawn + 1
  /\ store' = "empty"
  /\ pc' = "first"
  /\ UNCHANGED <<role, serverVars, late, disk, seen, pend, gate, opened, calm, hasty>>

\* A store that was created and never saved is refused: it is not fresh and
\* there is nothing to load.
OpenEmpty ==
  /\ pc = "idle" /\ store = "empty"
  /\ UNCHANGED vars

\* `register`: the identity is submitted before it is saved.
FirstPut ==
  /\ pc = "first"
  /\ Register(FirstRegistration(made))
  /\ pc' = IF Takes(FirstRegistration(made)) THEN "firstsave" ELSE "idle"
  /\ made' = IF Takes(FirstRegistration(made)) THEN made ELSE 0
  /\ UNCHANGED <<role, late, store, disk, seen, pend, gate, drawn, opened, calm, hasty>>

FirstSave ==
  /\ pc = "firstsave"
  /\ store' = "saved"
  /\ disk' = Registered(made)
  /\ made' = 0
  /\ pc' = "sync"
  /\ UNCHANGED <<role, serverVars, late, seen, pend, gate, drawn, opened, calm, hasty>>

-----------------------------------------------------------------------------
(* The local peer: a cycle *)

Open ==
  /\ pc = "idle" /\ store = "saved"
  /\ pc' = "submit"
  /\ UNCHANGED <<role, serverVars, late, storeVars, seen, pend, gate, drawn, opened, calm, hasty>>

Unsettled == disk.enrollment \in {"Registering", "Retiring"}

\* `submit_pending_registration`: the change is repeated on every cycle until
\* the server takes it; a refusal does not end the cycle.
SubmitRegistration ==
  /\ pc = "submit"
  /\ IF Unsettled
     THEN /\ Register(disk.registration)
          /\ pc' = IF Repeats(disk.registration) \/ Takes(disk.registration)
                   THEN "accepted" ELSE "sync"
     ELSE pc' = "sync" /\ UNCHANGED serverVars
  /\ UNCHANGED <<role, late, storeVars, seen, pend, gate, drawn, opened, calm, hasty>>

\* `accept_registration`, and the save.
AcceptRegistration ==
  /\ pc = "accepted"
  /\ disk' = [disk EXCEPT !.enrollment =
       IF disk.registration.life = "Enabled" THEN "Advertised" ELSE "Retired"]
  /\ pc' = "sync"
  /\ UNCHANGED <<role, serverVars, late, store, made, seen, pend, gate, drawn, opened, calm, hasty>>

\* The two guards of `reconcile` that stop the engine.
LocalRuns == ~disk.gated /\ disk.enrollment # "Retiring"

\* The gate at the end of a cycle: the gating pass closes an unconfirmed or
\* retiring link, and `reconcile_gate` may find the handshake that opens a
\* confirmed one.
GateSettles(confirmed, pending) ==
  \/ gate' = (gate /\ disk.confirmed /\ disk.registration.life = "Enabled")
  \/ /\ disk.registration.life = "Enabled" /\ confirmed /\ pending = None
     /\ gate' = TRUE

LocalReconcile ==
  /\ pc = "sync"
  /\ LocalRuns
  /\ \/ Begins("local") /\ UNCHANGED disk
     \/ Answers("local") /\ UNCHANGED disk
     \/ Ends("local") /\ disk' = [disk EXCEPT !.confirmed = @ \/ row.phase = "Complete"]
  /\ GateSettles(disk'.confirmed, pend'["local"])
  /\ pc' = "idle"
  /\ UNCHANGED <<role, serverVars, late, store, made, seen, drawn, calm, hasty>>

\* A message reaches the server.  The receipt stands for install and confirm:
\* it closes the gate, and opens it on the new key.
LocalSubmit ==
  /\ pc = "sync"
  /\ LocalRuns
  /\ Submitted("local")
  /\ IF row.phase = "Committed" THEN gate' = TRUE ELSE GateSettles(disk.confirmed, pend["local"])
  /\ pc' = "idle"
  /\ UNCHANGED <<role, bundle, history, late, storeVars, seen, pend, drawn, opened, calm, hasty>>

\* A cycle that has nothing to do, or whose message is lost or refused.
LocalRests ==
  /\ pc = "sync"
  /\ GateSettles(disk.confirmed, pend["local"])
  /\ pc' = "idle"
  /\ UNCHANGED <<role, serverVars, late, storeVars, seen, pend, drawn, opened, calm, hasty>>

-----------------------------------------------------------------------------
(* The operator's commands; each goes on to submit what it saved *)

\* `pq-disable`: `EndpointState::disable`, and the save.
Disable ==
  /\ pc = "idle" /\ store = "saved"
  /\ disk.enrollment # "Retiring" /\ disk.registration.life # "Retired"
  /\ disk' = [disk EXCEPT
       !.registration = [expected |-> disk.rev, id |-> disk.id, rev |-> disk.rev,
                         life |-> "Retired"],
       !.enrollment = "Retiring"]
  /\ pend' = [pend EXCEPT !["local"] = None]
  /\ pc' = "submit"
  /\ hasty' = TRUE
  /\ UNCHANGED <<role, serverVars, late, store, made, seen, gate, drawn, opened, calm>>

\* `pq-enable`: a fresh identity, `EndpointState::replace`, and the save.
Enable ==
  /\ pc = "idle" /\ store = "saved"
  /\ pend["local"] = None
  /\ drawn < MaxRevision
  /\ drawn' = drawn + 1
  /\ disk' = [disk EXCEPT
       !.id = drawn + 1, !.rev = @ + 1,
       !.registration = [expected |-> disk.rev, id |-> drawn + 1, rev |-> disk.rev + 1,
                         life |-> "Enabled"],
       !.enrollment = "Registering",
       !.gated = TRUE]
  /\ pc' = "submit"
  /\ hasty' = (hasty \/ Unsettled)
  /\ UNCHANGED <<role, serverVars, late, store, made, seen, pend, gate, opened, calm>>

-----------------------------------------------------------------------------
(* Faults *)

\* A registration without an answer is lost or still under way.
Unanswered(q) ==
  \/ UNCHANGED late
  \/ Cardinality(late \cup {q}) <= MaxLate /\ late' = late \cup {q}

RegistrationLost ==
  /\ ~calm
  /\ \/ /\ pc = "first" /\ Unanswered(FirstRegistration(made))
        /\ made' = 0 /\ pc' = "idle"
     \/ /\ pc = "submit" /\ Unsettled /\ Unanswered(disk.registration)
        /\ pc' = "sync" /\ UNCHANGED made
  /\ UNCHANGED <<role, serverVars, store, disk, seen, pend, gate, drawn, opened, calm, hasty>>

\* The process dies, a save fails, or the server cannot be reached.
Crash ==
  /\ ~calm
  /\ pc # "idle"
  /\ pc' = "idle"
  /\ made' = 0
  /\ UNCHANGED <<role, serverVars, late, store, disk, seen, pend, gate, drawn, opened, calm, hasty>>

CalmDown ==
  /\ ~calm
  /\ calm' = TRUE
  /\ UNCHANGED <<role, serverVars, late, storeVars, seen, pend, gate, pc, drawn, opened, hasty>>

-----------------------------------------------------------------------------
Init ==
  /\ role \in Side
  /\ bundle = NoBundle
  /\ history = {}
  /\ row = NoRow
  /\ late = {}
  /\ store = "absent"
  /\ disk = Registered(0)
  /\ made = 0
  /\ seen = NoBundle
  /\ pend = [w \in Actor |-> None]
  /\ gate = FALSE
  /\ pc = "idle"
  /\ drawn = 0
  /\ opened = 0
  /\ calm = FALSE
  /\ hasty = FALSE

LocalCycle ==
  \/ OpenFresh \/ OpenEmpty \/ FirstPut \/ FirstSave
  \/ Open \/ SubmitRegistration \/ AcceptRegistration
  \/ LocalReconcile \/ LocalSubmit \/ LocalRests

Next ==
  \/ LocalCycle \/ ObserveRemote \/ RemoteReconcile \/ RemoteSubmit
  \/ Disable \/ Enable
  \/ Expire \/ DeliverLate \/ RegistrationLost \/ Crash \/ CalmDown

Spec == Init /\ [][Next]_vars

\* Both daemons poll for ever and the server's clock runs.  Nothing is
\* assumed of the operator, of faults, or of the exchanges' progress.
FairSpec ==
  Spec /\ WF_vars(LocalCycle) /\ WF_vars(ObserveRemote) /\ WF_vars(Expire)

-----------------------------------------------------------------------------
(* Properties *)

\* Every variable holds a value of the shape the code gives it; what is
\* pending is always pinned to a bundle.
TypeOK ==
  /\ role \in Side
  /\ bundle \in Advertised
  /\ history \subseteq BundleId
  /\ row \in Row
  /\ late \subseteq Registration
  /\ store \in {"absent", "empty", "saved"}
  /\ disk \in Endpoint
  /\ made \in BundleId
  /\ seen \in Advertised
  /\ pend \in [Actor -> Pinned]
  /\ gate \in BOOLEAN
  /\ pc \in {"idle", "first", "firstsave", "submit", "accepted", "sync"}
  /\ drawn \in BundleId
  /\ opened \in 0 .. MaxExchanges
  /\ calm \in BOOLEAN
  /\ hasty \in BOOLEAN

\* A row never outlives the bundle it was opened under, so `exchange_for`,
\* which looks a pair's record up without comparing bundles, cannot hand the
\* engine one of an earlier identity.
RowIsOfBundle == row.xid # 0 => row.id = bundle.id

\* A peer that believes it is enrolled is: what its store calls advertised is
\* the bundle the server hands out, whatever was lost, repeated or late.
AdvertisedIsCurrent ==
  store = "saved" /\ disk.enrollment = "Advertised" =>
    bundle = [id |-> disk.id, rev |-> disk.rev, life |-> "Enabled"]

\* No registration cuts a committed exchange short: whoever installed its key
\* can still finish with the other side.
CommittedSurvives ==
  [][row.phase = "Committed" =>
       row'.xid = row.xid /\ row'.phase \in {"Committed", "Complete"}]_vars

\* A replaced identity does not wait for its registration for ever, as long as
\* the operator waits for each change and does not disable.
ReplacementSettles ==
  (calm /\ disk.enrollment = "Registering") ~> (disk.enrollment # "Registering" \/ hasty)

\* The remote peer does not stay on an exchange pinned to a bundle that is no
\* longer advertised.
StalePendingDropped ==
  (pend["remote"].id # bundle.id) ~> pend["remote"].id \in {0, bundle.id}

\* An identity is on disk before the server advertises it.
PersistedBeforeRegistered ==
  bundle.id # 0 => store = "saved" /\ disk.id >= bundle.id

\* A disabled interface retires in the end.
DisableRetires ==
  (calm /\ disk.enrollment = "Retiring") ~> disk.enrollment # "Retiring"

\* After `pq-enable` the relationship can confirm again.
ReenabledUnblocks ==
  (calm /\ disk.enrollment = "Advertised" /\ disk.gated) ~> ~disk.gated
=============================================================================
