----------------------------- MODULE PqExchange -----------------------------
(***************************************************************************)
(* One pair of data peers rotating its WireGuard pre-shared key through    *)
(* the mailbox of the coordination server: the two client engines          *)
(* (pq/src/engine.rs driven by client-core/src/pq_sync.rs and              *)
(* client-core/src/interface.rs), the mailbox row of the pair              *)
(* (server/src/db/pq.rs), the network between them, and the kernel state   *)
(* each client owns (client-core/src/pq_install.rs): the peer's PSK, its   *)
(* last handshake and the nftables gate.                                   *)
(*                                                                         *)
(* A client runs cycles: fetch a snapshot of the row, reconcile its        *)
(* relationship against the snapshot, save the result, send at most one    *)
(* message, re-check the gate.  Everything else may happen between two of  *)
(* these steps.  `disk` survives a crash, `mem` and `view` do not, and the *)
(* kernel survives a crash but not a reboot.                               *)
(*                                                                         *)
(* Exchange ids are drawn from a counter: a fresh random id is one that    *)
(* was never drawn before.  The candidate PSK is a function of the         *)
(* transcript, so the id also names the PSK; 0 is "none" for both.         *)
(* Signatures and confirmation tags are taken to be sound: a message       *)
(* exists only if its sender built it.                                     *)
(***************************************************************************)
EXTENDS Integers, FiniteSets, PqDecision

CONSTANTS
  MaxExchanges,      \* bound: how many exchange ids the initiator draws
  MaxLate,           \* bound: how many given-up requests are still under way
  FaultsStop,        \* whether faults may stop for good (for liveness)
  Reboots,           \* whether a client machine may lose its kernel state
  PollWithinBackoff  \* whether a cycle may start before next_retry_at, which
                     \* is up to 60 s away: `innernet fetch`, `up --interval`, a
                     \* daemon that its service manager restarts after 10 s

ASSUME ConstantsAssumption ==
  /\ MaxExchanges \in Nat \ {0}
  /\ MaxLate \in Nat
  /\ FaultsStop \in BOOLEAN
  /\ Reboots \in BOOLEAN
  /\ PollWithinBackoff \in BOOLEAN

VARIABLES
  record,   \* the pair's row of pq_exchanges, as the server holds it
  outcome,  \* history: the last phase the server gave each exchange
  net,      \* requests whose sender gave up; the server may still get them
  disk,     \* per side: the saved relationship
  mem,      \* per side: the relationship reconciled but not yet saved
  view,     \* per side: the row as fetched by the running cycle
  pc,       \* per side: the next step of the cycle
  psk,      \* per side: the PSK of the kernel peer, 0 when it has none
  hs,       \* per side: {} or the PSK of the peer's last handshake
  gate,     \* per side: whether application traffic is let through
  fresh,    \* the last exchange id drawn
  calm      \* no more crashes, failures and lost messages from here on

vars == <<record, outcome, net, disk, mem, view, pc, psk, hs, gate, fresh, calm>>

clientVars == <<disk, mem, view, pc>>
kernelVars == <<psk, hs, gate>>
serverVars == <<record, outcome>>

-----------------------------------------------------------------------------
(* Data *)

ExchangeId == 1 .. MaxExchanges
IdOrNone   == 0 .. MaxExchanges

Message == [xid : ExchangeId, seq : Nat, kind : Kind, from : Side]

Record == [xid : IdOrNone, seq : Nat, decision : Decision,
           messages : SUBSET (Kind \X Side), receipts : SUBSET (Kind \X Side),
           lapsed : BOOLEAN]

NoRecord == [xid |-> 0, seq |-> 0, decision |-> NewDecision,
             messages |-> {}, receipts |-> {}, lapsed |-> FALSE]

\* `Pending`: of the outbox only the last message is ever read.
Pending == [xid : IdOrNone, seq : Nat, decision : Decision, last : Kind,
            installed : BOOLEAN, confirmed : BOOLEAN, backoff : BOOLEAN]

NoPending == [xid |-> 0, seq |-> 0, decision |-> NewDecision, last |-> "Propose",
              installed |-> FALSE, confirmed |-> FALSE, backoff |-> FALSE]

\* `Relationship`: the next sequence number to use, the pending exchange and
\* the confirmed one.
Relationship == [seq : Nat, pending : Pending, confirmed : IdOrNone]

NewRelationship == [seq |-> 1, pending |-> NoPending, confirmed |-> 0]

PC == {"idle", "fetched", "save", "send"}

-----------------------------------------------------------------------------
(* The mailbox: every request is one transaction that sweeps the row first *)

Compact(r) == IF Terminal(r.decision) THEN [r EXCEPT !.messages = {}] ELSE r

\* Mutant of Sweep: the expiry also takes committed exchanges.
SweepExpiresCommitted(r) ==
  IF r.lapsed /\ ~Terminal(r.decision)
  THEN Compact([r EXCEPT !.decision.phase = "Aborted"])
  ELSE r

\* Mutant of Sweep: a transaction forgets to sweep first.
SweepForgotten(r) == r

\* `sweep_inner` for a pair that stays visible.
Sweep(r) ==
  IF r.lapsed /\ Preparing(r.decision)
  THEN Compact([r EXCEPT !.decision = Expired(@)])
  ELSE r

SameExchange(a, b) == a.xid # 0 /\ a.xid = b.xid /\ a.seq = b.seq

\* The three ways `submit_inner` returns Ok.
Replays(r, m) == SameExchange(r, m) /\ <<m.kind, m.from>> \in r.receipts

Advances(r, m) ==
  /\ SameExchange(r, m)
  /\ <<m.kind, m.from>> \notin r.receipts
  /\ ~Terminal(r.decision)
  /\ CanAdvance(r.decision, m.kind, m.from)

Opens(r, m) ==
  /\ m.kind = "Propose"
  /\ m.seq > r.seq
  /\ r.xid = 0 \/ Terminal(r.decision)

Accepts(r, m) == Replays(r, m) \/ Advances(r, m) \/ Opens(r, m)

\* The row after a submission; a rejected or replayed message leaves it alone.
Submit(r, m) ==
  IF Advances(r, m)
  THEN Compact([r EXCEPT !.decision = Advanced(@, m.kind, m.from),
                         !.messages = @ \cup {<<m.kind, m.from>>},
                         !.receipts = @ \cup {<<m.kind, m.from>>}])
  ELSE IF Opens(r, m)
  THEN [xid |-> m.xid, seq |-> m.seq, decision |-> NewDecision,
        messages |-> {<<m.kind, m.from>>}, receipts |-> {<<m.kind, m.from>>},
        lapsed |-> FALSE]
  ELSE r

\* One server transaction that leaves the row as r.
Write(r) ==
  /\ record' = r
  /\ outcome' = [x \in ExchangeId |-> IF x = r.xid THEN r.decision.phase ELSE outcome[x]]

\* PREPARE_TTL seconds pass since the server accepted the proposal.
Lapse ==
  /\ record.xid # 0 /\ ~record.lapsed /\ ~Terminal(record.decision)
  /\ record' = [record EXCEPT !.lapsed = TRUE]
  /\ UNCHANGED <<outcome, net, clientVars, kernelVars, fresh, calm>>

\* The periodic sweep.
SweepRow ==
  /\ Sweep(record) # record
  /\ Write(Sweep(record))
  /\ UNCHANGED <<net, clientVars, kernelVars, fresh, calm>>

\* A request whose sender timed out reaches the server after all.
DeliverLate ==
  \E m \in net :
    /\ Write(Submit(Sweep(record), m))
    /\ net' = net \ {m}
    /\ UNCHANGED <<clientVars, kernelVars, fresh, calm>>

-----------------------------------------------------------------------------
(* The engine: `EndpointState::reconcile`, one action per branch *)

\* Replaying the counterparty's messages in the order the row holds them,
\* which is the order of their kinds: a message that does not advance the
\* local decision is skipped.
Try(d, v, kind, s) ==
  IF <<kind, s>> \in v.messages /\ CanAdvance(d, kind, s) THEN Advanced(d, kind, s) ELSE d

Replay(d, v, s) ==
  LET ready     == Try(d, v, "Ready", s)
      commit    == Try(ready, v, "Commit", s)
      installed == Try(commit, v, "Installed", s)
  IN  Try(installed, v, "Confirmed", s)

\* Mutant of Observe: a terminal row is replayed like any other.
ObserveMessagesOnly(p, v, s) ==
  IF SameExchange(v, p) THEN [p EXCEPT !.decision = Replay(p.decision, v, Peer(s))] ELSE p

\* The pending exchange once the fetched row v is taken into account.
Observe(p, v, s) ==
  IF ~SameExchange(v, p) THEN p
  ELSE IF Terminal(v.decision) /\ ~Terminal(p.decision)
       THEN [p EXCEPT !.decision = v.decision]
       ELSE [p EXCEPT !.decision = Replay(p.decision, v, Peer(s))]

\* Mutant of DurablySent: the local decision is trusted once it is terminal.
DurablySentLocally(p, v, s) ==
  \/ Terminal(p.decision)
  \/ SameExchange(v, p) /\ (Terminal(v.decision) \/ <<p.last, s>> \in v.messages)

\* `durably_sent`
DurablySent(p, v, s) ==
  /\ SameExchange(v, p)
  /\ Terminal(v.decision) \/ <<p.last, s>> \in v.messages

\* Mutant of MustResend: a message is sent once.
MustResendNever(p, v, s) == FALSE

\* The retry check ahead of the phase match.
MustResend(p, v, s) ==
  /\ p.decision.phase # "Aborted"
  /\ ~DurablySent(p, v, s)
  /\ ~p.backoff

\* Every push to the outbox also resets the retry clock.
Push(p, kind) == [p EXCEPT !.last = kind, !.backoff = FALSE]

Observed(s) == Observe(disk[s].pending, view[s], s)

\* The relationship is pending and no retry is due: the phase match runs.
Matching(s, phase) ==
  /\ pc[s] = "fetched"
  /\ disk[s].pending.xid # 0
  /\ ~MustResend(Observed(s), view[s], s)
  /\ Observed(s).decision.phase = phase

\* `RealInstaller::handshake_fresh`: the kernel peer, as last created, has a
\* handshake.
HandshakeFresh(s) == hs[s] # {}

\* The pass of `fetch` that closes the gate of every unconfirmed peer.
Gated(s) == gate[s] /\ disk[s].confirmed # 0

\* `reconcile` returns a message to send; rel is the relationship it leaves
\* in memory.
Sends(s, rel) ==
  /\ mem' = [mem EXCEPT ![s] = rel]
  /\ pc' = [pc EXCEPT ![s] = "save"]
  /\ view' = [view EXCEPT ![s] = NoRecord]
  /\ UNCHANGED <<serverVars, net, disk, calm>>

\* `reconcile` has nothing to send: rel is saved, unless the save fails, and
\* `reconcile_gate` ends the cycle: a confirmed link with nothing pending
\* opens once its kernel peer has a handshake.  (It does nothing at the end
\* of a cycle that sends: there is a pending exchange then.)
Settles(s, rel) ==
  /\ \/ disk' = [disk EXCEPT ![s] = rel]
     \/ ~calm /\ UNCHANGED disk
  /\ gate' = [gate EXCEPT ![s] =
       Gated(s) \/ (rel.pending.xid = 0 /\ rel.confirmed # 0 /\ HandshakeFresh(s))]
  /\ pc' = [pc EXCEPT ![s] = "idle"]
  /\ view' = [view EXCEPT ![s] = NoRecord]
  /\ UNCHANGED <<serverVars, net, mem, psk, hs, fresh, calm>>

\* Mutant of StartExchange: the next sequence number is not saved.
StartExchangeSameSequence(s) ==
  LET x == fresh + 1 IN
  /\ s = Initiator
  /\ pc[s] = "fetched"
  /\ disk[s].pending.xid = 0
  /\ fresh < MaxExchanges
  /\ fresh' = x
  /\ Sends(s, [disk[s] EXCEPT !.pending = [NoPending EXCEPT !.xid = x, !.seq = disk[s].seq]])
  /\ gate' = [gate EXCEPT ![s] = Gated(s)]
  /\ UNCHANGED <<psk, hs>>

\* The initiator opens an exchange: at once when none was ever confirmed,
\* otherwise when the rotation interval has passed and the link is not idle.
StartExchange(s) ==
  LET x == fresh + 1 IN
  /\ s = Initiator
  /\ pc[s] = "fetched"
  /\ disk[s].pending.xid = 0
  /\ fresh < MaxExchanges
  /\ fresh' = x
  /\ Sends(s,
       [disk[s] EXCEPT !.seq = @ + 1,
                       !.pending = [NoPending EXCEPT !.xid = x, !.seq = disk[s].seq]])
  /\ gate' = [gate EXCEPT ![s] = Gated(s)]
  /\ UNCHANGED <<psk, hs>>

\* Mutant of Answerable: a missing row is taken for a proposal.
AnswerableWithoutRow(s) == s = Responder /\ view[s].decision.phase = "Proposed"

\* The row holds a proposal this responder can answer.
Answerable(s) ==
  /\ s = Responder
  /\ view[s].xid # 0
  /\ view[s].decision.phase = "Proposed"

AnswerProposal(s) ==
  /\ pc[s] = "fetched"
  /\ disk[s].pending.xid = 0
  /\ Answerable(s)
  /\ Sends(s,
       [disk[s] EXCEPT !.pending =
          [NoPending EXCEPT !.xid = view[s].xid, !.seq = view[s].seq,
                            !.decision = Advanced(NewDecision, "Ready", s),
                            !.last = "Ready"]])
  /\ gate' = [gate EXCEPT ![s] = Gated(s)]
  /\ UNCHANGED <<psk, hs, fresh>>

\* No pending exchange and none to open or to answer.
NothingPending(s) ==
  /\ pc[s] = "fetched"
  /\ disk[s].pending.xid = 0
  /\ s = Initiator => disk[s].confirmed # 0 \/ fresh = MaxExchanges
  /\ ~Answerable(s)
  /\ Settles(s, disk[s])

Resend(s) ==
  /\ pc[s] = "fetched"
  /\ disk[s].pending.xid # 0
  /\ MustResend(Observed(s), view[s], s)
  /\ Sends(s, [disk[s] EXCEPT !.pending = Observed(s)])
  /\ gate' = [gate EXCEPT ![s] = Gated(s)]
  /\ UNCHANGED <<psk, hs, fresh>>

DropAborted(s) ==
  /\ Matching(s, "Aborted")
  /\ Settles(s, [disk[s] EXCEPT !.pending = NoPending])

SendCommit(s) ==
  /\ Matching(s, "Ready")
  /\ s = Initiator
  /\ Sends(s,
       [disk[s] EXCEPT !.pending =
          [Push(Observed(s), "Commit") EXCEPT !.decision = Advanced(@, "Commit", s)]])
  /\ gate' = [gate EXCEPT ![s] = Gated(s)]
  /\ UNCHANGED <<psk, hs, fresh>>

\* Mutant of MayInstall: the initiator does not wait for the responder.
MayInstallAtOnce(s) == s \in Side

\* The guard of the install in the Committed arm.
MayInstall(s) == s = Responder \/ Responder \in Observed(s).decision.installed

\* Mutant of InstallCandidate: the kernel peer is updated in place, so its last
\* handshake survives.
InstallCandidateInPlace(s) ==
  /\ Matching(s, "Committed")
  /\ ~Observed(s).installed
  /\ MayInstall(s)
  /\ psk' = [psk EXCEPT ![s] = Observed(s).xid]
  /\ gate' = [gate EXCEPT ![s] = FALSE]
  /\ Sends(s,
       [disk[s] EXCEPT !.pending =
          [Push(Observed(s), "Installed") EXCEPT
             !.installed = TRUE, !.decision = Advanced(@, "Installed", s)]])
  /\ UNCHANGED <<hs, fresh>>

\* Mutant of InstallCandidate: the gate is left as it is.
InstallCandidateUngated(s) ==
  /\ Matching(s, "Committed")
  /\ ~Observed(s).installed
  /\ MayInstall(s)
  /\ psk' = [psk EXCEPT ![s] = Observed(s).xid]
  /\ hs' = [hs EXCEPT ![s] = {}]
  /\ Sends(s,
       [disk[s] EXCEPT !.pending =
          [Push(Observed(s), "Installed") EXCEPT
             !.installed = TRUE, !.decision = Advanced(@, "Installed", s)]])
  /\ UNCHANGED <<gate, fresh>>

\* `Installer::install`: close the gate, remove the kernel peer (which drops
\* its sessions and its last handshake), recreate it with the candidate.
InstallCandidate(s) ==
  /\ Matching(s, "Committed")
  /\ ~Observed(s).installed
  /\ MayInstall(s)
  /\ psk' = [psk EXCEPT ![s] = Observed(s).xid]
  /\ hs' = [hs EXCEPT ![s] = {}]
  /\ gate' = [gate EXCEPT ![s] = FALSE]
  /\ Sends(s,
       [disk[s] EXCEPT !.pending =
          [Push(Observed(s), "Installed") EXCEPT
             !.installed = TRUE, !.decision = Advanced(@, "Installed", s)]])
  /\ UNCHANGED fresh

\* Mutant of InstallFails: a failed install puts the confirmed key back.
InstallFailsRestoring(s) ==
  /\ ~calm
  /\ Matching(s, "Committed")
  /\ ~Observed(s).installed
  /\ MayInstall(s)
  /\ psk' = [psk EXCEPT ![s] = IF @ = 0 THEN disk[s].confirmed ELSE 0]
  /\ hs' = [hs EXCEPT ![s] = {}]
  /\ gate' = [gate EXCEPT ![s] = FALSE]
  /\ pc' = [pc EXCEPT ![s] = "idle"]
  /\ view' = [view EXCEPT ![s] = NoRecord]
  /\ UNCHANGED <<serverVars, net, disk, mem, fresh, calm>>

\* The install fails with the gate already closed, before or after the kernel
\* peer is removed (the next ordinary peer update then recreates it without a
\* PSK).  `reconcile` returns Err and `apply` skips the save, though the save
\* for another relationship may still write what was observed.
InstallFails(s) ==
  /\ ~calm
  /\ Matching(s, "Committed")
  /\ ~Observed(s).installed
  /\ MayInstall(s)
  /\ \/ UNCHANGED <<psk, hs>>
     \/ psk' = [psk EXCEPT ![s] = 0] /\ hs' = [hs EXCEPT ![s] = {}]
  /\ gate' = [gate EXCEPT ![s] = FALSE]
  /\ pc' = [pc EXCEPT ![s] = "idle"]
  /\ view' = [view EXCEPT ![s] = NoRecord]
  /\ \/ UNCHANGED disk
     \/ disk' = [disk EXCEPT ![s].pending = Observed(s)]
  /\ UNCHANGED <<serverVars, net, mem, fresh, calm>>

\* A fresh handshake releases the gate and is confirmed to the server.
ConfirmHandshake(s) ==
  /\ Matching(s, "Committed")
  /\ Observed(s).installed /\ ~Observed(s).confirmed
  /\ HandshakeFresh(s)
  /\ gate' = [gate EXCEPT ![s] = TRUE]
  /\ Sends(s,
       [disk[s] EXCEPT !.pending =
          [Push(Observed(s), "Confirmed") EXCEPT
             !.confirmed = TRUE, !.decision = Advanced(@, "Confirmed", s)]])
  /\ UNCHANGED <<psk, hs, fresh>>

\* Mutant of FinishExchange: the confirmed key is not stored.
FinishExchangeForgetting(s) ==
  /\ Matching(s, "Complete")
  /\ Settles(s, [disk[s] EXCEPT !.pending = NoPending])

\* The Complete arm: the candidate becomes the confirmed key.
FinishExchange(s) ==
  /\ Matching(s, "Complete")
  /\ Settles(s, [disk[s] EXCEPT !.confirmed = disk[s].pending.xid,
                                !.pending = NoPending])

\* Waiting for the counterparty, or for a handshake (the kernel may also fail
\* to tell whether there was one).
Wait(s) ==
  /\ \/ Matching(s, "Proposed")
     \/ Matching(s, "Ready") /\ s = Responder
     \/ Matching(s, "Committed") /\ ~Observed(s).installed /\ ~MayInstall(s)
     \/ /\ Matching(s, "Committed") /\ Observed(s).installed
        /\ Observed(s).confirmed \/ ~HandshakeFresh(s) \/ ~calm
  /\ Settles(s, [disk[s] EXCEPT !.pending = Observed(s)])

-----------------------------------------------------------------------------
(* The rest of a client cycle *)

\* What a client gets to see of a row: whether the TTL has passed is for the
\* server's clock to say, a client never reads `prepare_expires_at`.
Answer(r) == [r EXCEPT !.lapsed = FALSE]

\* `fetch_state`: the read also sweeps.  Nothing in the code keeps a cycle from starting within the backoff; only
\* runs that ask what happens when none does set PollWithinBackoff to FALSE.
Fetch(s) ==
  /\ pc[s] = "idle"
  /\ disk[s].pending.backoff => PollWithinBackoff
  /\ Write(Sweep(record))
  /\ view' = [view EXCEPT ![s] = Answer(Sweep(record))]
  /\ pc' = [pc EXCEPT ![s] = "fetched"]
  /\ UNCHANGED <<net, disk, mem, kernelVars, fresh, calm>>

Save(s) ==
  /\ pc[s] = "save"
  /\ disk' = [disk EXCEPT ![s] = mem[s]]
  /\ mem' = [mem EXCEPT ![s] = NewRelationship]
  /\ pc' = [pc EXCEPT ![s] = "send"]
  /\ UNCHANGED <<serverVars, net, view, kernelVars, fresh, calm>>

\* The last message of the saved outbox.
Outgoing(s) == [xid |-> disk[s].pending.xid, seq |-> disk[s].pending.seq,
                kind |-> disk[s].pending.last, from |-> s]

\* `note_send_failure` and the save that follows it.
NoteSendFailure(s) == disk' = [disk EXCEPT ![s].pending.backoff = TRUE]

\* The server answers the submission, with Ok or with 409 Conflict.
Put(s) ==
  /\ pc[s] = "send"
  /\ Write(Submit(Sweep(record), Outgoing(s)))
  /\ IF Accepts(Sweep(record), Outgoing(s))
     THEN UNCHANGED disk
     ELSE NoteSendFailure(s)
  /\ pc' = [pc EXCEPT ![s] = "idle"]
  /\ UNCHANGED <<net, mem, view, kernelVars, fresh, calm>>

\* A request without an answer is lost or still under way to the server.
Unanswered(m) ==
  \/ UNCHANGED net
  \/ Cardinality(net \cup {m}) <= MaxLate /\ net' = net \cup {m}

\* The request is refused at admission, or times out.
PutLost(s) ==
  /\ ~calm
  /\ pc[s] = "send"
  /\ Unanswered(Outgoing(s))
  /\ NoteSendFailure(s)
  /\ pc' = [pc EXCEPT ![s] = "idle"]
  /\ UNCHANGED <<serverVars, mem, view, kernelVars, fresh, calm>>

\* next_retry_at passes.
BackoffElapses(s) ==
  /\ pc[s] = "idle"
  /\ disk[s].pending.backoff
  /\ disk' = [disk EXCEPT ![s].pending.backoff = FALSE]
  /\ UNCHANGED <<serverVars, net, mem, view, pc, kernelVars, fresh, calm>>

-----------------------------------------------------------------------------
(* Environment: the kernels' handshakes, and faults *)

\* External: WireGuard completes a handshake between kernel peers that hold
\* the same PSK.
Handshake ==
  /\ psk[Initiator] = psk[Responder]
  /\ hs' = [s \in Side |-> {psk[s]}]
  /\ hs' # hs
  /\ UNCHANGED <<serverVars, net, clientVars, psk, gate, fresh, calm>>

\* The client process dies, or gives the cycle up because a save failed;
\* whatever it had not saved is gone, a request it was sending may not be.
Crash(s) ==
  /\ ~calm
  /\ pc[s] # "idle"
  /\ pc' = [pc EXCEPT ![s] = "idle"]
  /\ mem' = [mem EXCEPT ![s] = NewRelationship]
  /\ view' = [view EXCEPT ![s] = NoRecord]
  /\ IF pc[s] = "send" THEN Unanswered(Outgoing(s)) ELSE UNCHANGED net
  /\ UNCHANGED <<serverVars, disk, kernelVars, fresh, calm>>

\* The machine restarts: the gate is closed before the interface comes up,
\* and the kernel peer is recreated from the directory, which has no PSK.
Reboot(s) ==
  /\ Reboots /\ ~calm
  /\ psk' = [psk EXCEPT ![s] = 0]
  /\ hs' = [hs EXCEPT ![s] = {}]
  /\ gate' = [gate EXCEPT ![s] = FALSE]
  /\ pc' = [pc EXCEPT ![s] = "idle"]
  /\ mem' = [mem EXCEPT ![s] = NewRelationship]
  /\ view' = [view EXCEPT ![s] = NoRecord]
  /\ UNCHANGED <<serverVars, net, disk, fresh, calm>>

\* Faults stop: every request is answered and every write succeeds.
CalmDown ==
  /\ FaultsStop /\ ~calm
  /\ calm' = TRUE
  /\ UNCHANGED <<serverVars, net, clientVars, kernelVars, fresh>>

-----------------------------------------------------------------------------
Init ==
  /\ record = NoRecord
  /\ outcome = [x \in ExchangeId |-> "None"]
  /\ net = {}
  /\ disk = [s \in Side |-> NewRelationship]
  /\ mem = [s \in Side |-> NewRelationship]
  /\ view = [s \in Side |-> NoRecord]
  /\ pc = [s \in Side |-> "idle"]
  /\ psk = [s \in Side |-> 0]
  /\ hs = [s \in Side |-> {}]
  /\ gate = [s \in Side |-> FALSE]
  /\ fresh = 0
  /\ calm = FALSE

Reconcile(s) ==
  \/ StartExchange(s) \/ AnswerProposal(s) \/ NothingPending(s) \/ Resend(s)
  \/ DropAborted(s) \/ SendCommit(s) \/ InstallCandidate(s)
  \/ ConfirmHandshake(s) \/ FinishExchange(s) \/ Wait(s)

Cycle(s) == Fetch(s) \/ Reconcile(s) \/ Save(s) \/ Put(s)

Fault(s) == InstallFails(s) \/ PutLost(s) \/ Crash(s) \/ Reboot(s)

Next ==
  \/ Lapse \/ SweepRow \/ DeliverLate \/ Handshake \/ CalmDown
  \/ \E s \in Side : Cycle(s) \/ Fault(s) \/ BackoffElapses(s)

Spec == Init /\ [][Next]_vars

\* A daemon polls for ever, the clocks run (a backoff elapses however often
\* the daemon polls meanwhile), and WireGuard keeps trying to shake hands
\* with a peer it is configured for.  Nothing is assumed of faults: the
\* liveness properties speak of executions in which they stop.
Fairness ==
  /\ \A s \in Side : WF_vars(Cycle(s)) /\ SF_vars(BackoffElapses(s))
  /\ WF_vars(Lapse) /\ WF_vars(Handshake)

FairSpec == Spec /\ Fairness

-----------------------------------------------------------------------------
(* Properties *)

\* Every variable holds a value of the shape the code gives it.
TypeOK ==
  /\ record \in Record
  /\ outcome \in [ExchangeId -> Phase \cup {"None"}]
  /\ net \subseteq Message
  /\ disk \in [Side -> Relationship]
  /\ mem \in [Side -> Relationship]
  /\ view \in [Side -> Record]
  /\ pc \in [Side -> PC]
  /\ psk \in [Side -> IdOrNone]
  /\ hs \in [Side -> SUBSET IdOrNone]
  /\ gate \in [Side -> BOOLEAN]
  /\ fresh \in IdOrNone
  /\ calm \in BOOLEAN

\* A PSK reaches a kernel only after the server durably committed its
\* exchange: nothing is installed from a proposal that can still be aborted
\* (the Committed arm of `reconcile`).
InstalledOnlyCommitted ==
  \A s \in Side : psk[s] # 0 => outcome[psk[s]] \in {"Committed", "Complete"}

\* A key in a kernel is also on that machine's disk, pending or confirmed,
\* so a crash between install and save never leaves the only copy in the
\* kernel (the candidate is saved before any message about it is sent).
KernelKeyIsSaved ==
  \A s \in Side : psk[s] # 0 => psk[s] \in {disk[s].confirmed, disk[s].pending.xid}

\* The initiator takes a key only after the responder's install is on the
\* responder's disk, so the two ends never cross over in the other order
\* (the `decision.installed[1]` guard of the Committed arm).
ResponderInstallsFirst ==
  LET x == psk[Initiator]
      r == disk[Responder]
  IN  x # 0 => \/ r.confirmed >= x
               \/ r.pending.xid = x /\ r.pending.installed

\* No replay, restart or stale view takes a kernel back: a key is installed
\* only if it is newer than the one this side has confirmed.
KeyNeverRollsBack ==
  [][\A s \in Side :
       psk'[s] \notin {0, psk[s]} => psk'[s] > disk[s].confirmed /\ psk'[s] > psk[s]]_vars

\* An endpoint that records an exchange as confirmed does so only when the
\* server completed it, i.e. holds both sides' receipts (what the comment on
\* the durability check ahead of the phase match says of it).
ConfirmedIsComplete ==
  \A s \in Side : disk[s].confirmed # 0 => outcome[disk[s].confirmed] = "Complete"

\* What the durability check does guarantee: an endpoint that confirms an
\* exchange while no retry is being put off does so only when the server
\* completed it (the Complete arm of `reconcile` behind `durably_sent`).
ConfirmsComplete ==
  [][\A s \in Side :
       disk'[s].confirmed # disk[s].confirmed /\ ~disk[s].pending.backoff
         => outcome[disk'[s].confirmed] = "Complete"]_vars

\* A side whose exchange is confirmed never strands the other: the other
\* one has the same key confirmed, or pending and installed, or has gone on
\* to a later exchange.
CounterpartHoldsKey ==
  \A s \in Side :
    LET x == disk[s].confirmed
        o == disk[Peer(s)]
    IN  x # 0 => \/ o.confirmed >= x
                 \/ o.pending.xid = x /\ o.pending.installed /\ o.pending.confirmed

\* Once the row carries a side's tunnel confirmation, that side's kernel runs
\* the row's key (until it installs a later one) and no kernel runs an
\* earlier key: the handshake it observed was one under the candidate.
ConfirmationMeansSharedKey ==
  record.decision.confirmed # {} =>
    \A s \in Side :
      /\ psk[s] # 0 => psk[s] >= record.xid
      /\ s \in record.decision.confirmed => psk[s] # 0

\* The gate is open only on a link that runs a PQ key, and whose last
\* handshake was under that key.
GateOpenOnlyOnKey ==
  \A s \in Side : gate[s] => psk[s] # 0 /\ (hs[s] = {psk[s]})

\* A sequence number names one exchange for ever: no request still under
\* way can carry the row's sequence for another exchange.
SequenceNamesExchange ==
  \A m \in net \cup {Outgoing(s) : s \in {t \in Side : pc[t] = "send"}} :
    m.seq = record.seq => m.xid = record.xid

\* What the server has decided stays: complete and aborted are final, and a
\* committed exchange can only complete (expiry never rolls it back).
DecisionsStay ==
  \A x \in ExchangeId :
    /\ outcome[x] \in {"Complete", "Aborted"} => outcome'[x] = outcome[x]
    /\ outcome[x] = "Committed" => outcome'[x] \in {"Committed", "Complete"}

OutcomeIsFinal == [][DecisionsStay]_vars

\* An expired preparation is dead even before a sweep ran: no transaction
\* commits it.
CommitsInTime ==
  \A x \in ExchangeId :
    outcome[x] # "Committed" /\ outcome'[x] = "Committed" => ~record.lapsed

NoCommitAfterLapse == [][CommitsInTime]_vars

\* The promise to the pair: the mailbox protocol implements PqAgreement.
Fate(x) == IF outcome[x] \in {"Proposed", "Ready"} THEN "Open" ELSE outcome[x]

Agreement ==
  INSTANCE PqAgreement WITH
    fate <- [x \in ExchangeId |-> Fate(x)],
    key  <- psk,
    done <- [s \in Side |-> disk[s].confirmed]

\* Every step of the detailed system is a step of PqAgreement or none.
ImplementsAgreement == Agreement!Spec

\* The engine recovers forward: once faults stop, a committed exchange
\* completes, whatever was lost or crashed before.
CommittedCompletes ==
  (calm /\ record.decision.phase = "Committed") ~> record.decision.phase = "Complete"

\* The initiator gets rid of every pending exchange, one way or the other.
InitiatorResolves ==
  (calm /\ disk[Initiator].pending.xid # 0) ~> disk[Initiator].pending.xid = 0

\* So does the responder: whatever became of an exchange it took part in, it
\* finds out and is free for the next one.
ResponderResolves ==
  (calm /\ disk[Responder].pending.xid # 0) ~> disk[Responder].pending.xid = 0
=============================================================================
