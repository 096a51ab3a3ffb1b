# innernet post-quantum PSKs: a TLA+ verification project

innernet is a private-network system on top of WireGuard: a coordination server
keeps a directory of peers, clients fetch the directory and configure their
WireGuard interface from it. This repository adds post-quantum pre-shared keys
(PQ PSKs): each pair of data peers rotates the PSK of its WireGuard link through
a mailbox on the server, while a gate in nftables keeps application traffic off
a link that has no confirmed key. That protocol is distributed, has crashes,
lost messages and two kernels to keep in step. The project models it, and around
it the server's directory and mailbox, the administration commands, the private
store, the management link, admission control and the client's fetch cycle.

Paths below are relative to the repository root.

## 1. Inventory

### Components, their state and operations

| Component | State | Operations |
|---|---|---|
| Decision machine, `pq/src/protocol.rs` | `Decision`: phase, `installed[2]`, `confirmed[2]` | `advance`, `expire`, `terminal` |
| Exchange engine, `pq/src/engine.rs` | `Relationship`: next sequence, `Pending` (transcript, candidate, local decision, outbox, retry clock), `Confirmed` | `reconcile`, `durably_sent`, `note_send_failure` |
| Endpoint lifecycle, `pq/src/state.rs`, `client/src/main.rs` | `EndpointState`: identity, enrollment, registration, relationships | `disable`, `replace`, `accept_registration`, `observe_remote`, `observe_activity`, `emergency_retire`; commands `pq-disable`, `pq-enable` |
| Mailbox, `server/src/db/pq.rs` | `pq_bundles`, `pq_bundle_history`, `pq_exchanges`, visibility revision | `register`, `submit`, `sweep`, `terminate_peer` |
| Sync and installer, `client-core/src/pq_sync.rs`, `pq_install.rs` | none of its own; kernel peer (PSK, last handshake) | `open_or_register`, `submit_pending_registration`, `fetch_state`, `apply`, `install`, `handshake_fresh`, `reconcile_gate` |
| Fetch cycle and cold boot, `client-core/src/interface.rs` | cached directory, interface | `fetch` |
| Data gate, `client-core/src/gate.rs` | blocked addresses | `block`, `release`, `apply_all` |
| Private store, `pq/src/store.rs` | one file with generation and digest, a lock | `open`, `load`, `save` |
| Management link, `pq/src/state.rs`, `server/src/management.rs`, `client-core/src/management.rs` | active, staged and retained secrets of the client-server link | stage, apply, verify, confirm, roll back, repair |
| Mailbox API, `server/src/api/pq.rs` | cursor bound to the visibility revision | `page`, the register and handshake handlers |
| Admission control, `server/src/pq.rs` | token buckets, semaphores | `admit` |
| Peer directory, `server/src/db/{peer,cidr,association}.rs` | peers, CIDRs, associations, invites | create, update, disable, redeem, expire |
| Administration, `server/src/api/{admin,user}.rs`, `server/src/lib.rs`, `shared/src/prompts.rs`, `client/src/main.rs` | what a command listed, what a request was let in with | list, choose, send, authorise, wait for the body, handle |
| Client data store, `client-core/src/data_store.rs` | the cached directory | `update_peers`, `write` |
| Peer diff, `shared/src/types.rs` | none | `diff` of directory and device |
| NAT traversal, `client-core/src/nat.rs` | candidate endpoints left per peer | one attempt per step |
| WireGuard control, netlink, hosts file, crypto | - | I/O and primitives |

### How they interact

A client runs *cycles* (`innernet up` as a daemon, or one `innernet fetch`).
With PQ enabled a cycle locks and loads the private store, submits a pending
registration, fetches the PQ state (every read is a transaction that sweeps the
mailbox first), closes the gate of unconfirmed peers, applies the ordinary peer
diff to the kernel, then for each peer runs `reconcile` on the row fetched
before, saves the state, and sends at most one signed message; `reconcile_gate`
ends the cycle. `reconcile` itself changes the kernel (`install`) before the
save that records it. The server never calls a client; the two clients of a pair
communicate only through their row in the mailbox and through WireGuard
handshakes. `pq-disable` and `pq-enable` change the same store between cycles.

An exchange goes Proposed (initiator) - Ready (responder) - Committed
(initiator) - Installed receipts, responder first - Confirmed receipts, one per
side - Complete. Before Committed the server may expire it; after it, it can
only go forward.

### What is hard

* two cycles and the server interleave at every step, and `reconcile` works on a
  row that may be out of date;
* a crash between install and save, or between save and send; a failed install
  that leaves the kernel peer removed; a reboot that loses the kernel state but
  not the disk;
* a submission whose answer is lost, or that arrives after it was given up; the
  retry backoff; the expiry of a preparation racing its commit;
* a change of identity while an exchange runs under the old one; operator
  commands in any order;
* permissions that change under an exchange, a page walk or a request that was
  already let in; lists that are out of date when a command acts on them;
* secrets on two hosts that share nothing but what an operator carries over,
  with a crash between each save and the kernel update that follows it;
* a file replaced by several system calls, by processes that may die or lose
  power between any two;
* that both sides get free again, whatever was lost.

`PROJECT.json` lists each hazard at its line and the properties that cover it.

### What makes each component correct

* Exchange: only committed keys reach a kernel, keys are never lost or rolled
  back, the kernels cross over in one order, "confirmed" means that both sides
  hold the key and, where the durability check ran, that the server completed the
  exchange, the gate is open only on such a key; a committed exchange completes
  and both sides resolve what is pending.
* Mailbox: outcomes are final, expiry and commit exclude each other, a sequence
  names one exchange, no row outlives its bundle; quotas never block recovery.
* Lifecycle: what the client believes registered is; a change is accepted or
  refused for good, never lost; a disabled interface carries no traffic.
* Store: a save is atomic and a stale writer is refused.
* Management link: at every crash point some secret works on both ends.
* Directory: containment, visibility, one redemption per invitation; a walk over
  pages is a snapshot and ends.
* Administration: what is decided early is not undone late; no stale copy of a
  row brings back what an administrator took away.
* Admission: new work never takes what is reserved for recovery, or no more of it
  than the refill of the time a call waits.
* Fetch: the gate holds from the pass to the end of the fetch, the interface
  catches up with the directory, a confirmed link opens again after a boot.

## 2. Modules

| Module | Models |
|---|---|
| `PqDecision` | `Decision` as pure operators (`CanAdvance`, `Advanced`, `Expired`), shared by server, engines and lifecycle as in the code |
| `PqAgreement` | abstract specification: what a pair is promised. Each exchange has one fate; a kernel moves only to keys of committed exchanges and never back; a side is done only with an exchange that is complete, or committed and run by both kernels |
| `PqExchange` | one pair, its mailbox row, the network, both kernels and gates, crash and reboot. One action per branch of `reconcile`, one per step of a cycle |
| `PqLifecycle` | the identity of one peer: first registration, `pq-disable`, `pq-enable`, the registry, and one remote peer that follows it |
| `Directory` | the server's database: CIDRs, associations, peers, invitations, the visibility revision, bundles and exchange records of several peers, and a client's page walk |
| `Administration` | `EXTENDS Directory`: the commands of administrators and of the server's operator, and the requests of peers, from list to handler |
| `ManagementLink` | both ends of the client-server link: provisioning, redemption, rotation, repair |
| `PrivateCell` | abstract specification of the private store: an atomic compare-and-swap cell that forgets nothing anyone was told |
| `PrivateStore` | the store by system calls; implements `PrivateCell` |
| `PqAdmission` | token buckets and semaphores in front of the mailbox |
| `ClientFetch` | the daemon's fetch cycle: boot gate, directory, gating pass, peer diff, engine, cache, NAT traversal |
| `MC...` | the instances TLC runs |
| `PqExchangeProofs`, `PqKeyProofs` | theorems and proofs about `PqExchange`; the second builds on the first |
| `PqLifecycleProofs`, `ManagementLinkProofs`, `PrivateStoreProofs`, `PqAdmissionProofs`, `ClientFetchProofs` | those about the module of the same name |
| `DirectoryProofs` | those about `Directory` and `Administration` |

Definitions whose comment begins "Mutant of" are deliberate faults, one for each
property, that show the property can fail; no specification uses them.

The modules meet at promises: `PqExchange` and `PqLifecycle` use an atomic save,
which `PrivateStore` shows; they fetch their row in one read, which
`WalkIsSnapshot` of `Directory` shows; they take every pair as permitted, and
`Directory` has the permissions change; `ClientFetch` leaves to a choice what
the engine of `PqExchange` does with a peer.

### PqExchange and the code

`record` is the pair's row (`Exchange`), `disk`/`mem` a `Relationship` before
and after its save, `view` the row a cycle fetched, `pc` the place in
`pq_sync::apply`, `psk`, `hs`, `gate` the kernel peer and its gate entry, `net`
the requests whose sender timed out. `outcome` is history: the last phase the
server gave each exchange; nothing reads it but properties.

Abstractions: an exchange id is drawn from a counter (a random id never repeats)
and names its PSK (both ends derive it from the transcript); signatures and
confirmation tags are sound; of the outbox only the last message is kept, since
nothing reads the others; receipts are (kind, sender) pairs, since a sender
signs one message of each kind per exchange; the prepare TTL is an event
(`Lapse`) that may come at any time; the rotation interval and idle pause are
the free choice between `StartExchange` and `NothingPending`; the page walk is
one read. A cycle is Fetch, one branch of `reconcile` together with the gating
pass and `reconcile_gate`, Save, Put; a branch that sends nothing saves in the
same step, with a failed save as an alternative. `Crash` also stands for a cycle
given up because a save failed.

`PollWithinBackoff` says whether a cycle may start before `next_retry_at`.
Nothing in the code keeps one from it: `innernet fetch` runs one at any time, a
shorter `--interval` than the default 60 s likewise, and the daemon ends when a
fetch fails (`client/src/main.rs:660-669`) and is started again after 10 s
(`RestartSec` of `client/innernet@.service`), while the backoff goes up to 60 s
(`pq/src/engine.rs:398-401`). The safety runs and all theorems include it. Only
the liveness run `exchange_live` leaves it out: a cycle within the backoff can lose
an exchange for good (section 5, `CommittedCompletes`).

### PqLifecycle and the code

`bundle`, `history`, `row` are `pq_bundles`, `pq_bundle_history`,
`pq_exchanges`; `store` and `disk` the private store (absent, created but empty,
saved); `made` an identity that exists only in memory; `seen` the remote's copy
of the bundle; `pend` the pending exchange of each actor with the bundle it is
pinned to. The exchange is in outline: it opens, is answered, commits, collects
one receipt per side, ends. The relationship of the two peers exists from the
start, the remote's own bundle never changes, and the local role is either one.

The store is locked from open to the end of a cycle or command, so commands run
between cycles. A store whose first registration failed was created but never
saved; it is not fresh, and loading it is an error on every later start
(`OpenEmpty`). `hasty` is history: whether the operator ever disabled, or enabled
before the previous change was answered; `ReplacementSettles` is about one who did
neither.

### Directory and the code

`cidr`, `assoc`, `peer`, `bundle`, `mail` are the tables, `maxId`, `revision`,
`swept` the columns of `pq_network`. Every handler holds the one connection for
one transaction and is one action, the sweep that begins each write of the
mailbox included. A CIDR is the set of its addresses; `Allowed` is the recursive
query of `get_all_allowed_peers`, its tables the least sets that are closed under
their recursive steps. An exchange record is `preparing` (it
can expire), `decided` or `done`: the messages are in `PqExchange`. The walk is
one action per page; the three stages of `page` are one ordered set of objects,
100 * stage + id, and a page may be cut short by its size. Any write to a peer
moves the revision, the candidates a client reports included (`Touch`).

### Administration and the code

A command is `listed`, `asked`, `sent`: between listing and sending any time may
pass and anything may happen. `Send` is `get_session` and the routes, where it is
decided who is let in; `Handle` is the handler after the body came, under the
lock. `innernet-server` commands skip the session and work on the database
themselves. A peer's own requests (redeem, candidates, endpoint) are let in with
a copy of the row. `keys` records whose invitation a row is and who redeemed it.
Names and the ids of associations are left out; no command sends the DELETE of a
peer, the route exists.

### ManagementLink and the code

Per peer `link` is the server's `ManagementLink`, `cstate` the client's
`ManagementState`, `entry` and `tunnel` the two kernel entries, `psks` the copy
the serving process took at its start, `prov` and `artifact` the exported files.
A command is one step with a `cut` that says how far it got: saved, entry
removed, done. The rotation commands check almost nothing of the other end, so
`Procedure` states the order of docs/design.md 5.10; its guards are the
operator's, everything inside is the code's.

### PrivateStore and the code

`state` and `art` are what processes see of state.json and of one artifact,
`stable` and `stableArt` what a power loss may leave; `h` is a handle and its
place in a call. A file system keeps the data of a file synced before its rename
and keeps a name once its directory was synced, and may keep or lose anything
else. The refinement maps the cell to `state` and the value a failure would leave
to the other member of `stable`.

### PqAdmission and the code

The buckets are as in `Bucket::take`, filled when touched; `reserve` is history:
the share of each pair of buckets that new work may not use, charged only with
recovery. Time is in ticks, a rate in tokens per tick. `held` counts the permits
that are out, under 0 those of the server's own semaphores.

`admit` reads the clock and then takes the mutex under which the rest runs
(`server/src/pq.rs:166-170`). Other calls may come in between, so a call works
with any time up to `Delay` ticks ago, earlier perhaps than the call before it
did. Run and theorems have every such order; `Delay` is any natural number.
`Bucket::take` then leaves `last` where it is when the time is not later.

### ClientFetch and the code

`f` is the fetch under way: its place, the directory it got, the peers the PQ
read showed, what is left to do. `entry` is a peer's kernel entry with or without
a handshake, `gate` the blocked sets, `cache` the data store, `known`, `conf`,
`stopped`, `pend` the relationships. The engine's outcome is a choice among what
`reconcile` can do at that point. `Down`, `Kill`, `Reboot` and the PQ commands
come between any two steps, the commands only while the store is not locked.

`life` is the store: absent, empty, or with an endpoint that is enabled or
retiring. The first fetch creates it empty (`OpenStore`), registers, and saves
(`Register`). A crash or failed request in between leaves it empty, and then every
later fetch ends with an error, at `load` in the boot gate
(`interface.rs:240-243`) or in `open_or_register` (`interface.rs:331-339`), before
the peer diff; `KernelCatchesUp` excepts this case and only this one.

## 3. Runs

Passing runs; each finishes within three minutes with two workers.

| Run | Bounds | States | Checks |
|---|---|---|---|
| `exchange` | 2 exchanges, 1 late request, polls within the backoff | 387,798 | `TypeOK`, `ConfirmsComplete`, `CounterpartHoldsKey`, `ConfirmationMeansSharedKey`, `GateOpenOnlyOnKey`, `SequenceNamesExchange`, `OutcomeIsFinal`, `NoCommitAfterLapse`, and the refinement `ImplementsAgreement` |
| `exchange_reboot` | 2 exchanges, no late requests, machines reboot, polls within the backoff | 101,565 | `InstalledOnlyCommitted`, `KernelKeyIsSaved`, `ResponderInstallsFirst`, `KeyNeverRollsBack` |
| `exchange_live` | 2 exchanges, faults stop some time, no reboot, no poll within the backoff | 34,202 | `CommittedCompletes`, `InitiatorResolves` |
| `lifecycle` | 3 identities, 2 exchanges, 1 late registration | 44,832 | `RowIsOfBundle`, `AdvertisedIsCurrent`, `CommittedSurvives`, `ReplacementSettles`, `StalePendingDropped` |
| `management` | 2 peers, one rotated and disabled, 3 secrets, 1 fault | 251,949 | `CommonSecret`, `SettledAgree`, `PskNeverStripped`, `ServerComesBack` |
| `directory` | 5 CIDRs, 5 peers, 2 changes, 2 exchanges, pages of 3 or 4 | 68,424 | `ActivePairsAllowed`, `RecordsCurrent`, `QuotaHolds`, `TreeWellFormed`, `WalkIsSnapshot`, `WalkEnds` |
| `admin` | 5 CIDRs, 4 peers, 1 administrator and the operator, 2 commands, 4 changes | 165,020 | `RedeemedByItsInvite`, `OnlyAdminEnables`, `RevocationTakesEffect` |
| `store` | 2 processes, 4 saves, 3 faults | 14,384 | `SeenSurvives`, `ExportedStays`, and the refinement `ImplementsCell` |
| `admission` | 3 callers (symmetric), a table of 2, bursts of 3 and 5, 2 slots, 2 ticks, a wait of 1 | 350,422 | `RecoveryAdmitted` |
| `client` | 2 peers, one with a bundle, permissive, 1 change, 1 fault | 115,539 | `GateHolds`, `KernelCatchesUp`, `ConfirmedReopens` |

Bounds of the exchange and lifecycle runs: two exchanges are what it takes for a
rotation to meet the leftovers of the one before (a confirmed key to roll back
to, a tombstone, a late message of another exchange, a responder one exchange
behind); a third adds a second rotation of the same kind, and the theorems of
section 4 hold for any number. One late request is enough to overtake or follow
any other request, since retries are also sent in order. Late requests and
reboots are in separate runs: a late request meets only the server, a reboot only
its own machine, and with both the state space is a dozen times larger. Three
identities let a change meet a change whose own predecessor was never accepted.

Bounds of the others: in `management` one peer has enough secrets for its first
link and a rotation while another still waits for its own, and one fault falls
between any two writes. In `directory` two changes are one that takes a
permission away and one that gives it back, or one that starts a walk over and
one that does not; the pages are smaller than what there is to read, so a walk
takes several, and a third peer makes the quotas of the two sides differ. In
`admin` two commands are enough for each to act on what the other made stale, and
four changes let an invitation expire, its address be given out again and the new
one be redeemed. In `store` three faults are a failed call, a killed process and a
power loss in one behaviour. In `admission` two ticks let every bucket refill in
part, and the wait is long enough for one call to be overtaken by another that
sees a later time; rates and bursts are odd where halving leaves a remainder. In
`client` the second peer is the legacy one that may enrol later.

Fairness. In `PqExchange` a client's cycle (`Cycle`), the passing of the TTL, and WireGuard handshakes between kernels with equal keys are
weakly fair: a daemon polls for ever, clocks run, and WireGuard retries while it
has packets to send (keepalives are on). The end of a backoff is strongly fair,
since a cycle that starts before it does not put it off. Faults are never fair;
liveness is stated of the time after `calm`, when they have stopped. In
`PqLifecycle` the local cycle, the remote's fetch and the expiry are fair and the progress of exchanges is
not: `ReplacementSettles` holds because the number of proposals is bounded, i.e.
for a pair that does not open a new exchange between any two tries. In `Directory`
the client's next request is answered (weakly fair), nothing else; `WalkEnds`
holds because changes are bounded, and the comment there says so. In
`Administration` the wait of `form_body` ends and a handler without a body runs;
that a body ever comes is not assumed. In `ManagementLink` `Serve` is strongly
fair (`Restart=always` in the service file) and the operator reruns
`require-management` while the server cannot start. In `ClientFetch` the process's
own steps are weakly fair (`Restart=always`), and a request that is made again and
again succeeds at last (strong fairness of the three requests). The first
registration is made once and ends one way or the other (weak fairness).

Violation runs: each states what a comment of the repository says, and TLC finds
the code doing otherwise; the quotations are in `PROJECT.json`. `confirmed_early`
(1 exchange, polls within the backoff, violates `ConfirmedIsComplete`): the
durability check is skipped within the backoff, and a side counts an exchange as
confirmed that the server has not completed. `disable_refused` (1 identity, with
fairness, violates `DisableRetires`): the registration that `pq-disable` builds is
refused every time. Section 5 has the other divergences.

## 4. Proofs

Every safety property that a passing run checks is also a theorem, for every
value of the constants that the modules' named assumptions admit (naturals and
Booleans, what `Limits::validate` accepts, a network large enough for its first
rows, process and peer names other than 0). One group of theorems assumes more:
`GateNeedsKey`, `ConfirmedIsShared` and `PairImplementsAgreement` (with
`KeptInductive`, which they rest on) have `Reboots = FALSE`, because a machine that
reboots has a kernel without keys and does not install again; section 5
(`GateOpenOnlyOnKey`) shows that the assumption is needed.

Each proof is the same in outline: an inductive invariant, one lemma per action or
group of actions that keeps it, and the property as a consequence of the
invariant, or of the invariant and one step. The invariants are conjunctions of
named parts, and TLC finds them to hold in the instances of section 3 too (the one
of admission, which quantifies over all later times, excepted).

### The exchange

`PqExchangeProofs` proves, of `Spec`: `TypeCorrect` (`TypeOK`),
`OnlyCommittedInstalled` (`InstalledOnlyCommitted`), `SequencesNameExchanges`
(`SequenceNamesExchange`), `DecisionsAreFinal` (`OutcomeIsFinal`) and
`ExpiredNeverCommits` (`NoCommitAfterLapse`). None but the last is inductive by
itself. `Inductive` proves the invariant they rest on, `IInv`, the conjunction of

* `TypeOK`;
* `SendsPending`: a side about to save or send has a pending exchange;
* `RefsOrdered` and `RefsBounded`: every mention of an exchange (row, views,
  pending, requests under way, saved or not) carries an id already drawn and a
  sequence below the initiator's next one, and of two mentions the one with the
  larger sequence has the larger id: so a sequence determines the exchange,
  which is what makes a late request harmless;
* `Unsaved`: an exchange id drawn and not yet saved is known to nobody else;
* `RowIsLatest`: the row's exchange is the last the server heard of, and
  `outcome` agrees with it;
* `Evidence`: whatever a side, a view or a request knows about a commit or a
  receipt, the server's history bears out;
* `InstalledOnlyCommitted` itself.

`PqKeyProofs` adds what relates the two kernels, the two disks and the row.
`KeysInductive` proves `KInv`, that is `IInv` and

* `Shapes`: confirmations follow installs, the initiator follows the responder,
  complete means both confirmed; in rows, views and pending exchanges alike;
* `Claims`: what a row, a view, a decision or a message says of a side is on that
  side's disk. It holds because a side saves before it sends, and it is what a
  stale view cannot break;
* `Knowledge`: a confirmation that a side knows of, the row has;
* `Truth`: what a view shows as over, is over; what is installed is committed;
* `Progress`: a pending exchange is later than the confirmed one, and what is
  about to be saved is the pending exchange moved on;
* `OneAtATime`: every exchange anybody can name is over, or the initiator has it
  pending or takes it for confirmed; at most the row's own is not over;
* `Kernel`: a kernel runs the key its side installed, or none;
* `ConfirmedIsAgreed`: what a side takes for confirmed the server has committed,
  and both sides have seen a handshake under its key. That the server completed it
  is not invariant (`confirmed_early`); this is what is left of it within the
  backoff, and it is enough for the keys;
* the properties `KernelKeyIsSaved` and `ResponderInstallsFirst`.

From it follow, with one step, `OnlyCompleteConfirmed` (`ConfirmsComplete`, which
is about the step that confirms: outside the backoff the durability check has run,
so the view was terminal and `Truth` applies, or it had the side's own receipt and
`Knowledge` supplies the other's), further `NobodyStranded` (`CounterpartHoldsKey`),
`KernelKeysSaved`, `ResponderIsFirst` and, with one step, `KernelsGoForward`
(`KeyNeverRollsBack`); reboots are included. Without reboots `KeptInductive` adds
`Handshakes` (a handshake under a key means that neither kernel runs an earlier
one), `KeysKept` (a side that installed a key runs it) and the gate, from which
follow `GateNeedsKey` (`GateOpenOnlyOnKey`) and `ConfirmedIsShared`
(`ConfirmationMeansSharedKey`).

`PairImplementsAgreement` proves the refinement of `PqAgreement`. Its lemmas name
the steps of the abstract pair and show which action is which: a server
transaction opens, decides or completes an exchange, `InstallCandidate` installs
it, `FinishExchange` learns its end, everything else stutters. The step that
needs the most is completion, where both kernels must have the key.

### The lifecycle

`RowsFollowBundle` (`RowIsOfBundle`) rests on `RowInv`, which adds the shape of
the row: an exchange that is active has an id. `CommittedIsKept`
(`CommittedSurvives`) follows from it and one step. `EnrolledIsAdvertised`
(`AdvertisedIsCurrent`) needs `EnrollInv`: neither the server nor any registration
still under way is ahead of the saved revision, so that a bundle of the saved
revision is final until the next identity is on disk. That the registration of
`disable` is never accepted (section 5) is part of the argument.

### The server's directory and its administration

`DirectoryInductive` proves `DirInv`: types, `TreeWellFormed`, the server's own
row, a mailbox in order (current bundles, one record per pair, quotas) and
`ActivePairsAllowed`. `TreeStaysWellFormed`, `RecordsStayCurrent`,
`QuotaAlwaysHolds` and `OnlyAllowedPairsActive` are its parts. The argument for
permissions is `Widens`: every change except two leaves each CIDR's line of
parents and all associations, so no pair loses its permission; a CIDR can be
deleted only when nothing refers to it. The two exceptions, a disabled peer and a
removed association, end the exchanges in the same transaction. `Allowed` is a
fixpoint written without recursion, so this needs no induction over the tree.

`WalksAreSnapshots` (`WalkIsSnapshot`) adds `WalkInv`: as long as the cursor's
revision is the database's, what the walk has gathered is exactly what one read
would return up to its place, with one exchange record per peer.

`AdministrationKeepsDirectory` carries the four invariants over to `AdminSpec`,
with commands that act on lists of any age. `InvitesAreTheirHolders`
(`RedeemedByItsInvite`) rests on: a waiting redemption has the key of its row's
invitation, and an id that is gone is not given out again. `EnabledByAdminsOnly`
(`OnlyAdminEnables`) looks at each handler.

### The private store

`StoreInv` says who holds the lock, that at most two contents can survive a power
loss, and what the lock's holder knows: the file and nothing else can survive, or
it knows nothing, or the file is one generation ahead of it and it will not save
again. From it `SeenIsDurable` (`SeenSurvives`), `ExportIsFinal`
(`ExportedStays`), `StoreTyped` and the refinement `StoreImplementsCell`.

### The management link

`MInv` relates the two ends (`Rel`): they agree, or one has moved and retains what
the other still uses; an end that retains a secret has nothing staged. A peer that
has not joined has the secret of its invitation or none. `SecretInCommon`
(`CommonSecret`) and `SettledEndsAgree` (`SettledAgree`) follow; `NoKeyStripped`
(`PskNeverStripped`) goes through the steps that rebuild an entry. The theorems
are about the documented procedure (`Procedure`), cut short anywhere.

### Admission control

A bucket is filled when it is touched, so the invariant is about what it would
hold: at every later time `s` the bucket of all work holds what the bucket of new
work holds at `s - Delay` and recovery's share at `s` together (`Covers`), and the
permits of new work are within their own semaphores. The `Delay` is what a call
that was overtaken can shift between the buckets: it debits the bucket of new work
as of its own time, the bucket of all work as of a later fill. The arithmetic is
in lemmas on three buckets; halving rates and bursts with a remainder is part of
it. `RecoveryIsReserved` (`RecoveryAdmitted`) follows for any number of callers,
any times and any order of calls: recovery gets its share less `Shortfall`, the
refill of new work over `Delay` and of all work over the time this call waited.
With no wait that is the whole share; otherwise it is not (section 5,
`RecoveryExact`).

### The fetch cycle

`FetchInv`: a fetch keeps what it read only while the store is open; until the
engine has come to a peer its link is shut unless the peer is confirmed, and
afterwards it may also be open on a handshake that this fetch saw. A handshake
that an earlier fetch saw is not enough, for the exchange may end without it.
`GateIsHeld` (`GateHolds`) follows with one step.

### Only model-checked

All liveness: `CommittedCompletes`, `InitiatorResolves`, `ReplacementSettles`,
`StalePendingDropped`, `ServerComesBack`, `WalkEnds`, `RevocationTakesEffect`,
`KernelCatchesUp`, `ConfirmedReopens`. The prover handles neither fairness nor
ENABLED.

## 5. Known divergences

Properties that the modules state and that TLC finds violated, each with the run
or the instance that shows it (add the property to a configuration with these
constants).

| Property | Instance | What the code does |
|---|---|---|
| `DisableRetires` (`PqLifecycle`) | run `disable_refused` | see `PROJECT.json` |
| `ConfirmedIsComplete` (`PqExchange`) | run `confirmed_early` | within the backoff the durability check is skipped and the local decision alone completes an exchange the server has not (pq/src/engine.rs:281). The comment at engine.rs:274-278 says "Always re-check durability here, even if our own local decision already optimistically shows terminal". Section 2 says how it is reached |
| `CommittedCompletes` (`PqExchange`) | `FairSpec`, 1 exchange, `FaultsStop`, `PollWithinBackoff = TRUE` | the side that finished early has dropped a Confirmed the server never got; the row stays Committed, the other side waits for ever and opens no new exchange (engine.rs:281). docs/design.md:312-314 says "After commitment, recover forward to the persisted candidate" |
| `InitiatorResolves` (`PqExchange`) | the same | the same when it is the responder that finished early. The initiator may also send Confirmed over an Installed that never arrived (engine.rs:338-359); the server refuses it as out of order each time, and only the last message is resent |
| `ResponderResolves` (`PqExchange`) | `FairSpec`, 2 exchanges, `FaultsStop = TRUE` | a responder that missed the end of an exchange finds a row of the next one, which is neither absorbed nor durable, and resends its last message for ever (engine.rs:63). docs/design.md:396 says "A lost terminal response resolves from that tombstone" |
| `GateOpenOnlyOnKey` (`PqExchange`) | `Spec`, 1 exchange, `Reboots = TRUE` | a rebooted machine recreates its peers without a PSK; `handshake_fresh` asks only whether there is a handshake (client-core/src/pq_install.rs:156), so one under no key confirms an exchange and opens its gate, and any handshake opens that of a confirmed link (pq_install.rs:91). docs/design.md:632 requires "no application traffic before a fresh candidate-key handshake" |
| `CommittedCompletes` (`PqExchange`) | `FairSpec`, 1 exchange, `FaultsStop`, `Reboots = TRUE` | an install is never repeated once its receipt is saved; a reboot before the handshake leaves a committed exchange without its key in the kernel (engine.rs:313). docs/milestones.md:185 says "afterward reapply/retry the candidate following crashes or kernel/API errors" |
| `PersistedBeforeRegistered` (`PqLifecycle`) | `Spec`, 1 identity, no exchange | the first registration is sent before it is saved; a crash in between leaves a bundle whose keys are gone and a store no later start accepts (client-core/src/pq_sync.rs:61). docs/design.md:220 says "generate the required bundle once and persist it before registration" |
| `ReenabledUnblocks` (`PqLifecycle`) | `FairSpec`, 2 identities, 1 exchange | `replace` sets `gated` on every relationship and nothing clears it (pq/src/state.rs:438). client/src/main.rs:539 says "every relationship re-confirms from scratch under the new identity" |
| `RebuiltEntryKeepsPsk` (`ManagementLink`) | `Spec`, `Peers = Managed = {1}`, 2 secrets, no fault | the redemption of a peer added after the server started rebuilds its entry without a PSK: the copy of the secrets is from the start (server/src/api/user.rs:158). The comment at user.rs:155 says "A rebuilt peer entry must never silently drop its management PSK". `PskNeverStripped` is the part that holds |
| `ReadPskKept` (`ManagementLink`) | `Spec`, `Peers = Managed = {1}`, 3 secrets, 2 faults | `require-management` is cut after its save; the server then reads the secrets, for it looks whether there is a store (server/src/management.rs:35), while enabling a peer looks at the mark in the configuration, which is not there yet (management.rs:215), and rebuilds its entry without the PSK. `PskNeverStripped` is about the time after the mark |
| `RecoveryExact` (`PqAdmission`) | `Spec`, constants of `admission.cfg` | a call that waited for the mutex debits the bucket of new work at an earlier time than that of all work was last filled at; recovery's share then lacks up to the refill of that interval, and a recovery message within it is refused (server/src/pq.rs:166). The comment at pq.rs:163 says "Existing exchanges, retirement, and their retries use the reserved recovery capacity". `RecoveryAdmitted` is what holds |
| the second disjunct of `KernelCatchesUp` (`ClientFetch`) alone | `LiveSpec`, constants of `client.cfg` | a first registration that is cut short leaves an empty store, on which every later fetch fails before the peer diff (client-core/src/pq_sync.rs:58-64): the interface no longer follows the directory at all |
| `DisabledIsGated` (`ClientFetch`) | `Spec`, constants of `client.cfg` | `pq-disable` says "every relationship is now gated" (client/src/main.rs:531); the gate closes in the next fetch that reaches the server |
| `RenameKeepsDisabled` (`Administration`) | `AdminSpec`, constants of `admin.cfg` | `rename-peer` writes the whole contents back as they were listed; a peer that was disabled meanwhile is enabled again (client/src/main.rs:867). No document says otherwise |

Where constants are not given they are 0 or FALSE. Another one shows related
behaviour:

* `ReplacementSettles` without its `hasty`: `pq-disable` in a committed exchange
  leaves an active row that blocks every later registration, and a second
  `pq-enable` before the first was accepted expects a revision the server never had.

From reading the code: the responder's `relationship.sequence` stays behind the
exchanges it stores, a state `EndpointState::validate` would reject if a
production path called it. An export that failed at a sync and is tried again finds
its own bytes and answers Ok without any sync (pq/src/store.rs:245-251), so that a
power loss can still take the file; `ExportedStays` is about exports that came to
their end.

## 6. Not modelled

* Cryptography, wire encoding and signature checks are taken as sound.
* Kernel and netlink I/O, nftables text, HTTP, command-line options, prompt
  wording and file layout have no protocol state.
* The storage budget of the mailbox: it counts bytes.
* Names of peers and CIDRs, the row ids of associations (SQLite reuses them, and
  a command may delete another association than it showed), and the endpoints the
  server injects into its answers.
* The pinning of public keys in the client's data store.
* `emergency_retire` has no caller on the client.
* A server clock that steps back: the TTL may pass at any time, but stays passed.
* The server's own gate (`server/src/gate.rs`) is one static ruleset.

## 7. Plan

The modelling is complete as far as section 6 allows, and the safety properties
are proved. What is left:

1. type correctness of `PqLifecycle`, `ClientFetch` and `PqAdmission` as theorems
   of their own (so far the invariants have the parts of it that they need);
2. the step lemmas of a liveness argument (which action a pending exchange waits
   for, and that it keeps what the next one needs), which do not need fairness;
3. shorter proofs: the lemmas of `PqKeyProofs` on single sides can take over parts
   of `PqExchangeProofs`.
