---------------------------- MODULE PqKeyProofs ----------------------------
(***************************************************************************)
(* Proofs about the keys of PqExchange, on top of its inductive invariant: *)
(* what a message, a row or a view says of a side is on that side's disk,  *)
(* an endpoint confirms only what both have confirmed, a kernel never      *)
(* goes back, and the whole implements PqAgreement.                        *)
(*                                                                         *)
(* Cycles may start within their backoff or not, as the constant says.     *)
(* For the last part Reboots is FALSE: a machine that restarts has a       *)
(* kernel without a key.                                                   *)
(***************************************************************************)
EXTENDS PqExchangeProofs

-----------------------------------------------------------------------------
(* The inductive invariant: what everybody knows of an exchange *)

\* Confirmations follow installs, the initiator follows the responder, and
\* an exchange is complete exactly when both sides have confirmed it.
DecisionOK(d) ==
  /\ d.confirmed \subseteq d.installed
  /\ Initiator \in d.installed => Responder \in d.installed
  /\ d.phase = "Complete" <=> Side \subseteq d.confirmed
  /\ d.phase \notin {"Committed", "Complete"} => d.installed = {}

\* The messages of a row are in its decision.
RowOK(r) ==
  /\ DecisionOK(r.decision)
  /\ \A s \in Side : /\ <<"Installed", s>> \in r.messages => s \in r.decision.installed
                     /\ <<"Confirmed", s>> \in r.messages => s \in r.decision.confirmed

\* The flags of side s's pending exchange p go with its decision and its last
\* message.
OwnOK(p, s) ==
  p.xid # 0 =>
    /\ DecisionOK(p.decision)
    /\ s \in p.decision.installed <=> p.installed
    /\ s \in p.decision.confirmed => p.confirmed
    /\ p.last = "Installed" => p.installed
    /\ p.last = "Confirmed" <=> p.confirmed
    /\ p.confirmed => p.installed

\* What side s has on disk D about exchange x: it has installed the key, or
\* seen a handshake under it, or is past it.
HasInstalled(D, s, x) ==
  D[s].confirmed >= x \/ (D[s].pending.xid = x /\ D[s].pending.installed)
HasConfirmed(D, s, x) ==
  D[s].confirmed >= x \/ (D[s].pending.xid = x /\ D[s].pending.confirmed)

\* What a decision of exchange x says of the sides in S is on their disks D.
Backed(D, x, d, S) ==
  x # 0 => \A s \in S : /\ s \in d.installed => HasInstalled(D, s, x)
                        /\ s \in d.confirmed => HasConfirmed(D, s, x)

\* So is what a message says of its sender.
Honest(D, m) ==
  /\ m.kind = "Installed" => HasInstalled(D, m.from, m.xid)
  /\ m.kind = "Confirmed" => HasConfirmed(D, m.from, m.xid)

Claims ==
  /\ Backed(disk, record.xid, record.decision, Side)
  /\ \A s \in Side : /\ Backed(disk, view[s].xid, view[s].decision, Side)
                     /\ Backed(disk, disk[s].pending.xid, disk[s].pending.decision, {Peer(s)})
                     /\ Backed(disk, mem[s].pending.xid, mem[s].pending.decision, {Peer(s)})
  /\ \A m \in net : Honest(disk, m)
  /\ \A x \in ExchangeId : outcome[x] = "Complete" => \A s \in Side : HasConfirmed(disk, s, x)

\* A confirmation that a decision d of exchange x has, the row has, while it
\* is that exchange's row.
RowKnows(r, x, d, S) == x # 0 /\ r.xid = x => d.confirmed \cap S \subseteq r.decision.confirmed

Knowledge ==
  \A s \in Side :
    /\ RowKnows(record, view[s].xid, view[s].decision, Side)
    /\ RowKnows(record, disk[s].pending.xid, disk[s].pending.decision, {Peer(s)})
    /\ RowKnows(record, mem[s].pending.xid, mem[s].pending.decision, {Peer(s)})
    /\ RowKnows(view[s], disk[s].pending.xid, disk[s].pending.decision, {Peer(s)})

\* With outcomes o, what is terminal in a view, or aborted on a disk, is so.
Final(o, x, d) == x # 0 /\ Terminal(d) => o[x] = d.phase
Dead(o, x, d)  == x # 0 /\ d.phase = "Aborted" => o[x] = "Aborted"

Truth ==
  \A s \in Side :
    /\ Final(outcome, view[s].xid, view[s].decision)
    /\ Dead(outcome, disk[s].pending.xid, disk[s].pending.decision)
    /\ Dead(outcome, mem[s].pending.xid, mem[s].pending.decision)
    /\ disk[s].pending.xid # 0 /\ disk[s].pending.installed => Decided(outcome, disk[s].pending.xid)
    /\ mem[s].pending.xid # 0 /\ mem[s].pending.installed => Decided(outcome, mem[s].pending.xid)

Shapes ==
  /\ RowOK(record)
  /\ \A s \in Side : RowOK(view[s]) /\ OwnOK(disk[s].pending, s) /\ OwnOK(mem[s].pending, s)

-----------------------------------------------------------------------------
(* The inductive invariant: one side's progress *)

\* What side s is about to save is its pending exchange, moved on, or a later
\* exchange when it had none.
MovesOn(s) ==
  /\ mem[s].confirmed = disk[s].confirmed
  /\ mem[s].pending.xid > disk[s].confirmed
  /\ \/ /\ mem[s].pending.xid = disk[s].pending.xid
        /\ disk[s].pending.installed => mem[s].pending.installed
        /\ disk[s].pending.confirmed => mem[s].pending.confirmed
     \/ /\ disk[s].pending.xid = 0
        /\ ~mem[s].pending.installed /\ ~mem[s].pending.confirmed

Progress ==
  \A s \in Side :
    /\ disk[s].pending.xid # 0 => disk[s].pending.xid > disk[s].confirmed
    /\ pc[s] = "save" => MovesOn(s)
    /\ view[s].xid # 0 => /\ view[s].xid >= disk[s].confirmed
                          /\ view[s].xid = disk[s].confirmed =>
                               view[s].decision.phase \in {"Committed", "Complete"}
    /\ pc[s] # "fetched" => view[s] = NoRecord

\* What a side takes for confirmed the server has committed, and both sides
\* have seen a handshake under its key.
Agreed(D, o, x) == Decided(o, x) /\ \A t \in Side : HasConfirmed(D, t, x)

ConfirmedIsAgreed ==
  \A s \in Side : disk[s].confirmed # 0 => Agreed(disk, outcome, disk[s].confirmed)

\* Every exchange that anybody can name is over, or one that the initiator has
\* pending or takes for confirmed.
OneAtATime ==
  /\ \A a \in Refs : a[1] \in {0, disk[Initiator].pending.xid, disk[Initiator].confirmed}
                      \/ outcome[a[1]] \in {"Complete", "Aborted"}
  /\ \A x \in ExchangeId : outcome[x] \in {"None", "Complete", "Aborted"} \/ x = record.xid

\* A kernel runs the key a side has installed, or none.
Kernel ==
  \A s \in Side :
    /\ disk[s].pending.xid # 0 /\ disk[s].pending.installed => psk[s] \in {0, disk[s].pending.xid}
    /\ pc[s] = "save" /\ mem[s].pending.installed => psk[s] \in {0, mem[s].pending.xid}

KInv ==
  /\ IInv
  /\ Shapes /\ Claims /\ Knowledge /\ Truth /\ Progress /\ OneAtATime
  /\ ConfirmedIsAgreed /\ Kernel /\ KernelKeyIsSaved /\ ResponderInstallsFirst

-----------------------------------------------------------------------------
(* The inductive invariant without reboots *)

\* Both sides have reached exchange x for good: no kernel runs an earlier key.
Reached(x) ==
  /\ Decided(outcome, x)
  /\ \A s \in Side : /\ psk[s] # 0 => psk[s] >= x
                     /\ disk[s].confirmed >= x \/ disk[s].pending.xid = x

Handshakes ==
  \A s \in Side :
    /\ hs[s] \subseteq {psk[s]}
    /\ hs[s] # {} /\ psk[s] # 0 => Reached(psk[s])
    /\ disk[s].pending.xid # 0 /\ disk[s].pending.confirmed => Reached(disk[s].pending.xid)
    /\ pc[s] = "save" /\ mem[s].pending.confirmed => Reached(mem[s].pending.xid)
    /\ disk[s].confirmed # 0 => Reached(disk[s].confirmed)

\* A side that has installed a key runs it, and a side that has lost its key
\* is about to install the next one.
KeysKept ==
  \A s \in Side :
    /\ disk[s].pending.xid # 0 /\ disk[s].pending.installed => psk[s] = disk[s].pending.xid
    /\ pc[s] = "save" /\ mem[s].pending.installed => psk[s] = mem[s].pending.xid
    /\ disk[s].confirmed # 0 /\ psk[s] = 0 => Decided(outcome, disk[s].pending.xid)

NInv == KInv /\ Handshakes /\ KeysKept /\ GateOpenOnlyOnKey

-----------------------------------------------------------------------------
(* Decisions, rows and what a side observes *)

\* `Decision::advance` on a message of side t.
LEMMA AdvancedOK ==
  ASSUME NEW d \in Decision, NEW k \in Kind, NEW t \in Side,
         DecisionOK(d), CanAdvance(d, k, t)
  PROVE  LET e == Advanced(d, k, t) IN
         /\ DecisionOK(e)
         /\ e.installed = IF k = "Installed" THEN d.installed \cup {t} ELSE d.installed
         /\ e.confirmed = IF k = "Confirmed" THEN d.confirmed \cup {t} ELSE d.confirmed
         /\ e.phase = "Aborted" => k = "Abort"
<1>. DEFINE e == Advanced(d, k, t)
<1>0. Side = {Initiator, Responder} /\ Initiator # Responder
  BY DEF Side, Initiator, Responder
<1>1. CASE k = "Ready"
  <2>1. e.phase = "Ready" /\ e.installed = d.installed /\ e.confirmed = d.confirmed
    BY <1>1 DEF Advanced, Decision
  <2>. QED  BY <1>0, <1>1, <2>1 DEF DecisionOK, CanAdvance
<1>2. CASE k = "Commit"
  <2>1. e.phase = "Committed" /\ e.installed = d.installed /\ e.confirmed = d.confirmed
    BY <1>2 DEF Advanced, Decision
  <2>. QED  BY <1>0, <1>2, <2>1 DEF DecisionOK, CanAdvance
<1>3. CASE k = "Abort"
  <2>1. e.phase = "Aborted" /\ e.installed = d.installed /\ e.confirmed = d.confirmed
    BY <1>3 DEF Advanced, Decision
  <2>. QED  BY <1>0, <1>3, <2>1 DEF DecisionOK, CanAdvance, Preparing
<1>4. CASE k = "Installed"
  <2>1. e.phase = d.phase /\ e.installed = d.installed \cup {t} /\ e.confirmed = d.confirmed
    BY <1>4 DEF Advanced, Decision
  <2>. QED  BY <1>0, <1>4, <2>1 DEF DecisionOK, CanAdvance
<1>5. CASE k = "Confirmed"
  <2>1. /\ e.installed = d.installed /\ e.confirmed = d.confirmed \cup {t}
        /\ e.phase = IF Side \subseteq d.confirmed \cup {t} THEN "Complete" ELSE d.phase
    BY <1>5 DEF Advanced, Decision
  <2>2. d.phase = "Committed" /\ t \in d.installed
    BY <1>5 DEF CanAdvance
  <2>. QED  BY <1>0, <1>5, <2>1, <2>2 DEF DecisionOK
<1>. QED  BY <1>1, <1>2, <1>3, <1>4, <1>5 DEF CanAdvance

\* Decision e is d with some of what row v says of side t; of the other side it
\* says nothing new.
Learned(d, e, v, t) ==
  /\ e \in Decision /\ DecisionOK(e)
  /\ d.installed \subseteq e.installed
  /\ e.installed \subseteq d.installed \cup (v.decision.installed \cap {t})
  /\ e.confirmed \subseteq d.confirmed \cup (v.decision.confirmed \cap {t})
  /\ e.phase = "Aborted" => d.phase = "Aborted"

\* Replaying one message of a row that is in order.
LEMMA TryOK ==
  ASSUME NEW d \in Decision, NEW v \in Record, NEW k \in {"Ready", "Commit", "Installed", "Confirmed"},
         NEW t \in Side, DecisionOK(d), RowOK(v)
  PROVE  Learned(d, Try(d, v, k, t), v, t)
<1>. DEFINE e == Try(d, v, k, t)
<1>1. CASE e = d
  BY <1>1 DEF Learned
<1>2. CASE e # d
  <2>1. e = Advanced(d, k, t) /\ CanAdvance(d, k, t) /\ <<k, t>> \in v.messages /\ k \in Kind
    BY <1>2 DEF Try, Kind
  <2>2. /\ DecisionOK(e)
        /\ e.installed = IF k = "Installed" THEN d.installed \cup {t} ELSE d.installed
        /\ e.confirmed = IF k = "Confirmed" THEN d.confirmed \cup {t} ELSE d.confirmed
        /\ e.phase = "Aborted" => k = "Abort"
    BY <2>1, AdvancedOK
  <2>3. /\ k = "Installed" => t \in v.decision.installed
        /\ k = "Confirmed" => t \in v.decision.confirmed
    BY <2>1 DEF RowOK
  <2>4. e \in Decision
    BY <2>1, DecisionType
  <2>. HIDE DEF e
  <2>5. Learned(d, e, v, t)
    BY <2>2, <2>3, <2>4 DEF Learned
  <2>. QED  BY <2>5 DEF e
<1>. QED  BY <1>1, <1>2

\* What a side learns from a row is no more than the row shows.
LEMMA ReplayOK ==
  ASSUME NEW d \in Decision, NEW v \in Record, NEW t \in Side, DecisionOK(d), RowOK(v)
  PROVE  Learned(d, Replay(d, v, t), v, t)
<1>. DEFINE d1 == Try(d, v, "Ready", t)
            d2 == Try(d1, v, "Commit", t)
            d3 == Try(d2, v, "Installed", t)
            d4 == Try(d3, v, "Confirmed", t)
<1>1. ASSUME NEW a, NEW b, NEW c, Learned(a, b, v, t), Learned(b, c, v, t)
      PROVE  Learned(a, c, v, t)
  BY <1>1 DEF Learned
<1>2. ASSUME NEW a, Learned(d, a, v, t), NEW k \in {"Ready", "Commit", "Installed", "Confirmed"}
      PROVE  Learned(d, Try(a, v, k, t), v, t)
  <2>1. a \in Decision /\ DecisionOK(a)
    BY <1>2 DEF Learned
  <2>2. Learned(a, Try(a, v, k, t), v, t)
    BY <2>1, TryOK
  <2>. QED  BY <1>1, <1>2, <2>2
<1>3. Learned(d, d1, v, t)
  BY TryOK
<1>. HIDE DEF d1
<1>4. Learned(d, d2, v, t)
  BY <1>2, <1>3
<1>. HIDE DEF d2
<1>5. Learned(d, d3, v, t)
  BY <1>2, <1>4
<1>. HIDE DEF d3
<1>6. Learned(d, d4, v, t)
  BY <1>2, <1>5
<1>7. Replay(d, v, t) = d4
  BY DEF Replay, d1, d2, d3
<1>. QED  BY <1>6, <1>7

\* What side s has pending once it took its view into account.
ObservedOK(s, p) ==
  /\ p \in Pending /\ p.xid = disk[s].pending.xid /\ p.seq = disk[s].pending.seq
  /\ p.last = disk[s].pending.last /\ p.backoff = disk[s].pending.backoff
  /\ p.installed = disk[s].pending.installed /\ p.confirmed = disk[s].pending.confirmed
  /\ OwnOK(p, s)
  /\ Backed(disk, p.xid, p.decision, {Peer(s)})
  /\ RowKnows(record, p.xid, p.decision, {Peer(s)})
  /\ RowKnows(view[s], p.xid, p.decision, {Peer(s)})
  /\ Dead(outcome, p.xid, p.decision)

\* A pair has two sides.
LEMMA PeerType == \A s \in Side : Peer(s) \in Side /\ Peer(s) # s /\ Side = {s, Peer(s)}
  BY DEF Peer, Side, Initiator, Responder

\* A claim about the exchange that side s has pending is a flag of it.
LEMMA OwnClaims ==
  ASSUME KInv, NEW s \in Side, disk[s].pending.xid # 0
  PROVE  /\ HasInstalled(disk, s, disk[s].pending.xid) => disk[s].pending.installed
         /\ HasConfirmed(disk, s, disk[s].pending.xid) => disk[s].pending.confirmed
<1>1. disk[s].pending.xid > disk[s].confirmed
  BY DEF KInv, Progress
<1>2. disk[s].pending.xid \in Nat /\ disk[s].confirmed \in Nat
  BY ConstantsAssumption DEF KInv, IInv, TypeOK, Relationship, Pending, IdOrNone
<1>. QED  BY <1>1, <1>2 DEF HasInstalled, HasConfirmed

\* What `reconcile` makes of a fetched row is in order.
LEMMA ObserveOK ==
  ASSUME KInv, NEW s \in Side
  PROVE  ObservedOK(s, Observed(s))
<1>. DEFINE p == disk[s].pending
            v == view[s]
            o == Observed(s)
            t == Peer(s)
<1>1. /\ p \in Pending /\ v \in Record /\ p.decision \in Decision /\ v.decision \in Decision
      /\ o \in Pending /\ o = [p EXCEPT !.decision = o.decision]
  <2>1. p \in Pending /\ v \in Record
    BY ObservedType DEF KInv, IInv, TypeOK
  <2>. QED  BY <2>1, ObserveType DEF Observed, Pending, Record
<1>2. /\ o.xid = p.xid /\ o.seq = p.seq /\ o.last = p.last /\ o.backoff = p.backoff
      /\ o.installed = p.installed /\ o.confirmed = p.confirmed
  BY <1>1 DEF Pending
<1>3. /\ RowOK(v) /\ OwnOK(p, s)
      /\ Backed(disk, v.xid, v.decision, Side) /\ Backed(disk, p.xid, p.decision, {t})
      /\ RowKnows(record, v.xid, v.decision, Side) /\ RowKnows(record, p.xid, p.decision, {t})
      /\ RowKnows(v, p.xid, p.decision, {t})
      /\ Final(outcome, v.xid, v.decision) /\ Dead(outcome, p.xid, p.decision)
  BY DEF KInv, Shapes, Claims, Knowledge, Truth
<1>4. CASE ~SameExchange(v, p)
  <2>1. o = p
    BY <1>4 DEF Observed, Observe
  <2>. QED  BY <1>1, <1>3, <2>1 DEF ObservedOK
<1>5. ASSUME SameExchange(v, p) PROVE ObservedOK(s, o)
  <2>1. v.xid = p.xid /\ p.xid # 0
    BY <1>5 DEF SameExchange
  <2>2. /\ HasInstalled(disk, s, p.xid) => p.installed
        /\ HasConfirmed(disk, s, p.xid) => p.confirmed
    BY <2>1, OwnClaims
  <2>3. t \in Side /\ t # s
    BY PeerType
  <2>4. CASE Terminal(v.decision) /\ ~Terminal(p.decision)
    <3>1. o.decision = v.decision
      BY <1>1, <1>5, <2>4 DEF Observed, Observe, Pending
    <3>2. OwnOK(o, s)
      <4>1. v.decision.phase = "Aborted" => ~p.installed
        BY <1>3, <2>1 DEF Final, Terminal, KInv, Truth, Decided
      <4>2. p.installed => s \in v.decision.installed
        BY <1>3, <2>4, <4>1 DEF RowOK, DecisionOK, Terminal
      <4>. QED  BY <1>2, <1>3, <2>1, <2>2, <3>1, <4>2 DEF OwnOK, RowOK, Backed
    <3>3. Backed(disk, o.xid, o.decision, {t})
      BY <1>2, <1>3, <2>1, <2>3, <3>1 DEF Backed
    <3>4. /\ RowKnows(record, o.xid, o.decision, {t})
          /\ RowKnows(v, o.xid, o.decision, {t})
      BY <1>2, <1>3, <2>1, <2>3, <3>1 DEF RowKnows
    <3>5. Dead(outcome, o.xid, o.decision)
      BY <1>2, <1>3, <2>1, <3>1 DEF Dead, Final, Terminal
    <3>. QED  BY <1>1, <1>2, <3>2, <3>3, <3>4, <3>5 DEF ObservedOK
  <2>5. CASE ~(Terminal(v.decision) /\ ~Terminal(p.decision))
    <3>. DEFINE e == Replay(p.decision, v, t)
                d == p.decision
    <3>1. o.decision = e
      BY <1>1, <1>5, <2>5 DEF Observed, Observe, Pending
    <3>2. DecisionOK(d)
      BY <1>3, <2>1 DEF OwnOK
    <3>3. Learned(d, e, v, t)
      BY <1>1, <1>3, <2>3, <3>2, ReplayOK
    <3>. HIDE DEF e, o
    <3>4. OwnOK(o, s)
      BY <1>2, <1>3, <2>1, <2>3, <3>1, <3>3 DEF OwnOK, Learned
    <3>5. Backed(disk, o.xid, o.decision, {t})
      BY <1>2, <1>3, <2>1, <2>3, <3>1, <3>3 DEF Backed, Learned
    <3>6. /\ RowKnows(record, o.xid, o.decision, {t})
          /\ RowKnows(v, o.xid, o.decision, {t})
      BY <1>2, <1>3, <2>1, <2>3, <3>1, <3>3 DEF RowKnows, Learned
    <3>7. Dead(outcome, o.xid, o.decision)
      BY <1>2, <1>3, <2>1, <3>1, <3>3 DEF Dead, Learned
    <3>. QED  BY <1>1, <1>2, <3>4, <3>5, <3>6, <3>7 DEF ObservedOK
  <2>. QED  BY <2>4, <2>5
<1>. QED  BY <1>4, <1>5

-----------------------------------------------------------------------------
(* What is known is kept *)

\* The sides forget nothing that was said of them.
Grows == \A s \in Side, x \in ExchangeId :
  /\ HasInstalled(disk, s, x) => HasInstalled(disk', s, x)
  /\ HasConfirmed(disk, s, x) => HasConfirmed(disk', s, x)

\* What may become the pending exchange of side t, in memory or on disk.
Fine(t, p) ==
  /\ OwnOK(p, t)
  /\ Backed(disk, p.xid, p.decision, {Peer(t)})
  /\ RowKnows(record, p.xid, p.decision, {Peer(t)})
  /\ Dead(outcome, p.xid, p.decision)
  /\ p.xid # 0 /\ p.installed => Decided(outcome, p.xid)

\* The row moves on, or holds a new exchange.
RowStep ==
  /\ RowOK(record') /\ Backed(disk, record'.xid, record'.decision, Side)
  /\ \/ record'.xid = record.xid /\ record.decision.confirmed \subseteq record'.decision.confirmed
     \/ record'.xid # 0 /\ record'.decision = NewDecision
  /\ \A x \in ExchangeId : outcome'[x] = "Complete" => outcome[x] = "Complete" \/ x = record'.xid

\* Side t's view is dropped, or kept or read anew while its disk stays.
ViewStep(t) ==
  \/ view'[t] = NoRecord
  \/ /\ view'[t] \in {view[t], Answer(record')}
     /\ disk'[t].pending.xid = disk[t].pending.xid
     /\ disk'[t].pending.decision = disk[t].pending.decision

\* A saved message stays saved.
LEMMA BackedGrows ==
  ASSUME Grows, NEW x \in IdOrNone, NEW d, NEW S \in SUBSET Side, Backed(disk, x, d, S)
  PROVE  Backed(disk', x, d, S)
<1>1. x # 0 => x \in ExchangeId
  BY ConstantsAssumption DEF IdOrNone, ExchangeId
<1>. QED  BY <1>1 DEF Grows, Backed

\* The parts of the invariant that are about single exchanges, for a step after
\* which the pending exchanges are fine and the row went forward.
LEMMA FactsKept ==
  ASSUME KInv, IInv', DecisionsStay, Grows, RowStep,
         \A m \in net' : Honest(disk, m),
         \A t \in Side : Fine(t, disk'[t].pending) /\ Fine(t, mem'[t].pending) /\ ViewStep(t)
  PROVE  Shapes' /\ Claims' /\ Knowledge' /\ Truth'
<1>1. /\ record'.xid \in IdOrNone
      /\ \A t \in Side : /\ view'[t].xid \in IdOrNone /\ view[t].xid \in IdOrNone
                         /\ disk'[t].pending.xid \in IdOrNone /\ mem'[t].pending.xid \in IdOrNone
      /\ \A m \in net' : m.from \in Side /\ m.xid \in ExchangeId
      /\ \A t \in Side : Peer(t) \in Side
      /\ \A x \in IdOrNone : x # 0 => x \in ExchangeId
  <2>1. TypeOK /\ TypeOK'
    BY DEF KInv, IInv
  <2>2. /\ record'.xid \in IdOrNone
        /\ \A t \in Side : view'[t].xid \in IdOrNone /\ view[t].xid \in IdOrNone
    BY <2>1 DEF TypeOK, Record
  <2>3. \A t \in Side : disk'[t].pending.xid \in IdOrNone /\ mem'[t].pending.xid \in IdOrNone
    BY <2>1 DEF TypeOK, Relationship, Pending
  <2>4. \A m \in net' : m.from \in Side /\ m.xid \in ExchangeId
    BY <2>1 DEF TypeOK, Message
  <2>5. \A x \in IdOrNone : x # 0 => x \in ExchangeId
    BY ConstantsAssumption DEF IdOrNone, ExchangeId
  <2>. QED  BY <2>2, <2>3, <2>4, <2>5, PeerType
<1>2. RowOK(NoRecord)
  BY DEF NoRecord, RowOK, DecisionOK, NewDecision, Side
<1>3. Shapes'
  <2>1. RowOK(Answer(record'))
    BY AnswerSays DEF RowStep, RowOK, IInv, TypeOK
  <2>2. \A t \in Side : RowOK(view'[t])
    BY <1>2, <2>1 DEF ViewStep, KInv, Shapes
  <2>. QED  BY <2>2 DEF Shapes, RowStep, Fine
<1>4. Claims'
  <2>1. Backed(disk', record'.xid, record'.decision, Side)
    BY <1>1, BackedGrows DEF RowStep
  <2>2. ASSUME NEW t \in Side PROVE Backed(disk', view'[t].xid, view'[t].decision, Side)
    <3>1. Backed(disk, view'[t].xid, view'[t].decision, Side)
      <4>1. /\ Answer(record').xid = record'.xid
            /\ Answer(record').decision = record'.decision
        BY AnswerSays DEF IInv, TypeOK
      <4>. QED  BY <2>2, <4>1 DEF ViewStep, KInv, Claims, RowStep, NoRecord, Backed
    <3>. QED  BY <1>1, <3>1, BackedGrows
  <2>3. ASSUME NEW t \in Side
        PROVE  /\ Backed(disk', disk'[t].pending.xid, disk'[t].pending.decision, {Peer(t)})
               /\ Backed(disk', mem'[t].pending.xid, mem'[t].pending.decision, {Peer(t)})
    <3>1. {Peer(t)} \in SUBSET Side
      BY <1>1
    <3>. QED  BY <1>1, <3>1, BackedGrows DEF Fine
  <2>4. \A m \in net' : Honest(disk', m)
    BY <1>1 DEF Honest, Grows
  <2>5. ASSUME NEW x \in ExchangeId, outcome'[x] = "Complete", NEW s \in Side
        PROVE  HasConfirmed(disk', s, x)
    <3>1. CASE outcome[x] = "Complete"
      BY <3>1 DEF KInv, Claims, Grows
    <3>2. CASE x = record'.xid
      <4>1. x # 0 /\ record'.decision.phase = "Complete"
        BY <2>5, <3>2, ConstantsAssumption DEF IInv, RowIsLatest, ExchangeId
      <4>2. s \in record'.decision.confirmed
        BY <4>1 DEF RowStep, RowOK, DecisionOK
      <4>. QED  BY <2>1, <3>2, <4>1, <4>2 DEF Backed
    <3>. QED  BY <2>5, <3>1, <3>2 DEF RowStep
  <2>. QED  BY <2>1, <2>2, <2>3, <2>4, <2>5 DEF Claims
<1>5. ASSUME NEW p, NEW S, RowKnows(record, p.xid, p.decision, S),
             p.xid # 0 /\ p.decision.confirmed \cap S # {} => Decided(outcome', p.xid)
      PROVE  RowKnows(record', p.xid, p.decision, S)
  <2>1. CASE record'.xid = record.xid /\ record.decision.confirmed \subseteq record'.decision.confirmed
    BY <1>5, <2>1 DEF RowKnows
  <2>2. CASE record'.xid # 0 /\ record'.decision = NewDecision
    <3>1. outcome'[record'.xid] = "Proposed"
      BY <2>2 DEF IInv, RowIsLatest, NewDecision
    <3>. QED  BY <1>5, <3>1 DEF RowKnows, Decided
  <2>. QED  BY <2>1, <2>2 DEF RowStep
<1>6. ASSUME NEW t \in Side, NEW p, p.xid # 0, DecisionOK(p.decision), PendingEvidence(outcome', p, t),
             p.decision.confirmed \cap {Peer(t)} # {}
      PROVE  Decided(outcome', p.xid)
  <2>1. Responder \in p.decision.installed
    BY <1>6, PeerType DEF DecisionOK, Side, Initiator, Responder
  <2>. QED  BY <1>6, <2>1 DEF PendingEvidence, DecisionShows
<1>7. ASSUME NEW t \in Side
      PROVE  /\ RowKnows(record', disk'[t].pending.xid, disk'[t].pending.decision, {Peer(t)})
             /\ RowKnows(record', mem'[t].pending.xid, mem'[t].pending.decision, {Peer(t)})
  <2>1. /\ PendingEvidence(outcome', disk'[t].pending, t)
        /\ PendingEvidence(outcome', mem'[t].pending, t)
    BY DEF IInv, Evidence
  <2>2. /\ disk'[t].pending.xid # 0 => DecisionOK(disk'[t].pending.decision)
        /\ mem'[t].pending.xid # 0 => DecisionOK(mem'[t].pending.decision)
    BY DEF Fine, OwnOK
  <2>. QED  BY <1>5, <1>6, <2>1, <2>2 DEF Fine
<1>8. ASSUME NEW t \in Side PROVE RowKnows(record', view'[t].xid, view'[t].decision, Side)
  <2>1. CASE view'[t] = NoRecord
    BY <2>1 DEF RowKnows, NoRecord
  <2>2. CASE view'[t] = Answer(record')
    BY <2>2, AnswerSays DEF RowKnows, IInv, TypeOK
  <2>3. CASE view'[t] = view[t]
    <3>1. RowKnows(record, view[t].xid, view[t].decision, Side) /\ DecisionOK(view[t].decision)
      BY DEF KInv, Knowledge, Shapes, RowOK
    <3>2. RowEvidence(outcome', view'[t])
      BY DEF IInv, Evidence
    <3>3. view[t].xid # 0 /\ view[t].decision.confirmed \cap Side # {} => Decided(outcome', view[t].xid)
      BY <2>3, <3>1, <3>2 DEF RowEvidence, RowShows, DecisionOK
    <3>. QED  BY <1>5, <2>3, <3>1, <3>3
  <2>. QED  BY <2>1, <2>2, <2>3 DEF ViewStep
<1>9. Knowledge'
  <2>1. ASSUME NEW t \in Side
        PROVE  RowKnows(view'[t], disk'[t].pending.xid, disk'[t].pending.decision, {Peer(t)})
    <3>1. CASE view'[t] = NoRecord
      BY <3>1 DEF RowKnows, NoRecord
    <3>2. CASE view'[t] = Answer(record')
      BY <1>7, <3>2, AnswerSays DEF RowKnows, IInv, TypeOK
    <3>3. CASE /\ view'[t] = view[t] /\ disk'[t].pending.xid = disk[t].pending.xid
               /\ disk'[t].pending.decision = disk[t].pending.decision
      BY <3>3 DEF KInv, Knowledge
    <3>. QED  BY <3>1, <3>2, <3>3 DEF ViewStep
  <2>. QED  BY <1>7, <1>8, <2>1 DEF Knowledge
<1>10. Truth'
  <2>1. ASSUME NEW x \in IdOrNone, x # 0
        PROVE  /\ outcome[x] \in {"Complete", "Aborted"} => outcome'[x] = outcome[x]
               /\ Decided(outcome, x) => Decided(outcome', x)
    BY <1>1, <2>1 DEF DecisionsStay, Decided
  <2>2. ASSUME NEW t \in Side PROVE Final(outcome', view'[t].xid, view'[t].decision)
    <3>1. CASE view'[t] = NoRecord
      BY <3>1 DEF Final, NoRecord
    <3>2. CASE view'[t] = Answer(record')
      BY <3>2, AnswerSays DEF Final, IInv, TypeOK, RowIsLatest
    <3>3. CASE view'[t] = view[t]
      BY <1>1, <2>1, <3>3 DEF Final, KInv, Truth, Terminal
    <3>. QED  BY <3>1, <3>2, <3>3 DEF ViewStep
  <2>3. ASSUME NEW t \in Side, NEW p, p.xid \in IdOrNone, Fine(t, p)
        PROVE  /\ Dead(outcome', p.xid, p.decision)
               /\ p.xid # 0 /\ p.installed => Decided(outcome', p.xid)
    BY <2>1, <2>3 DEF Fine, Dead
  <2>. QED  BY <1>1, <2>2, <2>3 DEF Truth
<1>. QED  BY <1>3, <1>4, <1>9, <1>10

-----------------------------------------------------------------------------
(* The kinds of steps *)

\* Relationships that differ at most in the retry clock.
SameRel(new, old) ==
  /\ new.confirmed = old.confirmed
  /\ new.pending.xid = old.pending.xid /\ new.pending.seq = old.pending.seq
  /\ new.pending.decision = old.pending.decision /\ new.pending.last = old.pending.last
  /\ new.pending.installed = old.pending.installed
  /\ new.pending.confirmed = old.pending.confirmed

\* What is pending is fine as it is.
LEMMA PendingFine ==
  ASSUME KInv, NEW t \in Side
  PROVE  /\ Fine(t, disk[t].pending) /\ Fine(t, mem[t].pending) /\ Fine(t, NewRelationship.pending)
         /\ \A p : p.xid = 0 => Fine(t, p)
<1>1. NewRelationship.pending.xid = 0
  BY DEF NewRelationship, NoPending
<1>2. \A p : p.xid = 0 => Fine(t, p)
  BY DEF Fine, OwnOK, Backed, RowKnows, Dead
<1>. QED
  BY <1>1, <1>2 DEF KInv, Shapes, Claims, Knowledge, Truth, Fine

\* Facts about the numbers in play.
LEMMA Numbers ==
  ASSUME TypeOK, NEW t \in Side
  PROVE  /\ disk[t].confirmed \in IdOrNone /\ disk[t].pending.xid \in IdOrNone
         /\ mem[t].confirmed \in IdOrNone /\ mem[t].pending.xid \in IdOrNone
         /\ psk[t] \in IdOrNone /\ record.xid \in IdOrNone /\ view[t].xid \in IdOrNone
         /\ IdOrNone \subseteq Nat
         /\ \A x \in IdOrNone : x # 0 => x \in ExchangeId
  BY ConstantsAssumption DEF TypeOK, Record, Relationship, Pending, IdOrNone, ExchangeId

\* A step that names no new exchange and takes back no decision.
LEMMA OneKept ==
  ASSUME KInv, DecisionsStay, Refs' \subseteq Refs,
         \/ disk'[Initiator].pending.xid = disk[Initiator].pending.xid
         \/ disk[Initiator].pending.xid = disk'[Initiator].confirmed
         \/ disk[Initiator].pending.xid = 0
         \/ outcome[disk[Initiator].pending.xid] \in {"Complete", "Aborted"},
         \/ disk'[Initiator].confirmed = disk[Initiator].confirmed
         \/ disk[Initiator].confirmed = 0
         \/ outcome[disk[Initiator].confirmed] = "Complete",
         \A x \in ExchangeId : outcome'[x] \in {"None", "Complete", "Aborted"} \/ x = record'.xid
  PROVE  OneAtATime'
<1>1. ASSUME NEW a \in Refs', a[1] # 0
      PROVE  \/ a[1] \in {disk'[Initiator].pending.xid, disk'[Initiator].confirmed}
             \/ outcome'[a[1]] \in {"Complete", "Aborted"}
  <2>1. a \in Refs
    BY <1>1
  <2>2. a[1] \in Nat /\ a[1] <= fresh /\ fresh \in 0 .. MaxExchanges
    BY <2>1, RefsNat DEF KInv, IInv, TypeOK, RefsBounded, IdOrNone
  <2>3. a[1] \in ExchangeId
    BY <1>1, <2>2, ConstantsAssumption DEF ExchangeId
  <2>4. \/ a[1] \in {disk[Initiator].pending.xid, disk[Initiator].confirmed}
        \/ outcome[a[1]] \in {"Complete", "Aborted"}
    BY <1>1, <2>1 DEF KInv, OneAtATime
  <2>5. outcome[a[1]] \in {"Complete", "Aborted"} => outcome'[a[1]] = outcome[a[1]]
    BY <2>3 DEF DecisionsStay
  <2>. QED  BY <1>1, <2>4, <2>5
<1>. QED  BY <1>1 DEF OneAtATime

\* Confirmed exchanges stay agreed on while the disks grow; one that joins
\* them has to be.
LEMMA AgreedKept ==
  ASSUME KInv, DecisionsStay, Grows,
         \A t \in Side : \/ disk'[t].confirmed \in {0, disk[t].confirmed}
                         \/ Agreed(disk, outcome, disk'[t].confirmed)
  PROVE  ConfirmedIsAgreed'
<1>. SUFFICES ASSUME NEW t \in Side, disk'[t].confirmed # 0
              PROVE  Agreed(disk', outcome', disk'[t].confirmed)
  BY DEF ConfirmedIsAgreed
<1>1. Agreed(disk, outcome, disk'[t].confirmed)
  BY DEF KInv, ConfirmedIsAgreed
<1>. DEFINE x == disk'[t].confirmed
<1>2. x \in ExchangeId /\ outcome[x] \in {"Committed", "Complete"} /\ \A u \in Side : HasConfirmed(disk, u, x)
  BY <1>1 DEF Agreed, Decided
<1>3. outcome'[x] \in {"Committed", "Complete"}
  BY <1>2 DEF DecisionsStay
<1>4. \A u \in Side : HasConfirmed(disk', u, x)
  BY <1>2 DEF Grows
<1>. QED  BY <1>2, <1>3, <1>4 DEF Agreed, Decided

\* A step that leaves the disks as they are.
LEMMA StillStep ==
  ASSUME KInv, IInv', DecisionsStay, RowStep,
         \A m \in net' : Honest(disk, m),
         \A t \in Side : SameRel(disk'[t], disk[t]),
         \A t \in Side : mem'[t] \in {mem[t], NewRelationship},
         \A t \in Side : view'[t] \in {view[t], NoRecord, Answer(record')},
         \A t \in Side : psk'[t] \in {0, psk[t]},
         \A t \in Side : pc'[t] = "save" => pc[t] = "save" /\ mem'[t] = mem[t],
         \A t \in Side : pc'[t] # "fetched" => view'[t] = NoRecord,
         <<record'.xid, record'.seq>> \in Refs, \A m \in net' : <<m.xid, m.seq>> \in Refs,
         \A x \in ExchangeId : outcome'[x] \in {"None", "Complete", "Aborted"} \/ x = record'.xid
  PROVE  KInv'
<1>0. TypeOK /\ TypeOK'
  BY DEF KInv, IInv
<1>1. Grows
  BY DEF Grows, HasInstalled, HasConfirmed, SameRel
<1>2. ASSUME NEW t \in Side PROVE Fine(t, disk'[t].pending) /\ Fine(t, mem'[t].pending) /\ ViewStep(t)
  <2>1. Fine(t, disk[t].pending) /\ Fine(t, mem'[t].pending)
    BY PendingFine
  <2>2. Fine(t, disk'[t].pending)
    BY <2>1 DEF Fine, OwnOK, SameRel
  <2>. QED  BY <2>1, <2>2 DEF ViewStep, SameRel
<1>3. Shapes' /\ Claims' /\ Knowledge' /\ Truth'
  BY <1>1, <1>2, FactsKept
<1>4. ConfirmedIsAgreed'
  <2>1. \A t \in Side : disk'[t].confirmed = disk[t].confirmed
    BY DEF SameRel
  <2>. QED  BY <1>1, <2>1, AgreedKept
<1>5. Progress'
  <2>. SUFFICES ASSUME NEW t \in Side
                PROVE  /\ disk'[t].pending.xid # 0 => disk'[t].pending.xid > disk'[t].confirmed
                       /\ pc'[t] = "save" => MovesOn(t)'
                       /\ view'[t].xid # 0 =>
                            /\ view'[t].xid >= disk'[t].confirmed
                            /\ view'[t].xid = disk'[t].confirmed =>
                                 view'[t].decision.phase \in {"Committed", "Complete"}
                       /\ pc'[t] # "fetched" => view'[t] = NoRecord
    BY DEF Progress
  <2>1. disk'[t].pending.xid # 0 => disk'[t].pending.xid > disk'[t].confirmed
    BY DEF KInv, Progress, SameRel
  <2>2. pc'[t] = "save" => MovesOn(t)'
    BY DEF KInv, Progress, MovesOn, SameRel
  <2>3. ASSUME view'[t].xid # 0
        PROVE  /\ view'[t].xid >= disk'[t].confirmed
               /\ view'[t].xid = disk'[t].confirmed =>
                                 view'[t].decision.phase \in {"Committed", "Complete"}
    <3>1. CASE view'[t] = view[t]
      BY <2>3, <3>1 DEF KInv, Progress, SameRel
    <3>2. CASE view'[t] = Answer(record')
      <4>. DEFINE c == disk'[t].confirmed
      <4>0. view'[t].xid = record'.xid /\ view'[t].decision = record'.decision
        BY <1>0, <3>2, AnswerSays DEF TypeOK
      <4>1. c \in IdOrNone /\ c \in Nat /\ record'.xid \in Nat
        BY <1>0 DEF TypeOK, Relationship, Record, IdOrNone
      <4>2. CASE c = 0
        BY <2>3, <4>0, <4>1, <4>2
      <4>3. CASE c # 0
        <5>1. outcome'[c] \in {"Committed", "Complete"} /\ c \in ExchangeId
          BY <1>4, <4>1, <4>3 DEF ConfirmedIsAgreed, Agreed, Decided
        <5>2. c <= record'.xid
          BY <5>1 DEF IInv, RowIsLatest
        <5>3. c = record'.xid => record'.decision.phase \in {"Committed", "Complete"}
          BY <4>3, <5>1 DEF IInv, RowIsLatest
        <5>. QED  BY <4>0, <4>1, <5>2, <5>3
      <4>. QED  BY <4>2, <4>3
    <3>. QED  BY <2>3, <3>1, <3>2 DEF NoRecord
  <2>. QED  BY <2>1, <2>2, <2>3
<1>6. Kernel' /\ KernelKeyIsSaved'
  <2>1. ASSUME NEW t \in Side
        PROVE  /\ disk'[t].pending.xid # 0 /\ disk'[t].pending.installed
                    => psk'[t] \in {0, disk'[t].pending.xid}
               /\ pc'[t] = "save" /\ mem'[t].pending.installed => psk'[t] \in {0, mem'[t].pending.xid}
               /\ psk'[t] # 0 => psk'[t] \in {disk'[t].confirmed, disk'[t].pending.xid}
    BY <2>1 DEF KInv, Kernel, KernelKeyIsSaved, SameRel
  <2>. QED  BY <2>1 DEF Kernel, KernelKeyIsSaved
<1>7. ResponderInstallsFirst'
  BY PeerType DEF KInv, ResponderInstallsFirst, SameRel, Side
<1>8. OneAtATime'
  <2>1. \A t \in Side : <<disk'[t].pending.xid, disk'[t].pending.seq>> \in Refs
    BY RefsMembers DEF SameRel
  <2>2. \A t \in Side : <<view'[t].xid, view'[t].seq>> \in Refs
    <3>1. <<Answer(record').xid, Answer(record').seq>> = <<record'.xid, record'.seq>>
      BY <1>0, AnswerSays DEF TypeOK
    <3>2. \A t \in Side : /\ <<view[t].xid, view[t].seq>> \in Refs
                          /\ <<NoRecord.xid, NoRecord.seq>> \in Refs
      BY RefsMembers DEF NoRecord
    <3>. QED  BY <3>1, <3>2
  <2>3. <<mem'[Responder].pending.xid, mem'[Responder].pending.seq>> \in Refs
    BY RefsMembers DEF NewRelationship, NoPending, Side
  <2>4. Refs' \subseteq Refs
    BY <2>1, <2>2, <2>3, RefsWithin
  <2>5. /\ disk'[Initiator].pending.xid = disk[Initiator].pending.xid
        /\ disk'[Initiator].confirmed = disk[Initiator].confirmed
    BY DEF SameRel, Side
  <2>. QED  BY <2>4, <2>5, OneKept
<1>. QED  BY <1>3, <1>4, <1>5, <1>6, <1>7, <1>8 DEF KInv

\* A step of side s that changes its disk to rel, and no row or message.
LEMMA DiskStep ==
  ASSUME KInv, IInv', NEW s \in Side, NEW rel \in Relationship,
         disk' = [disk EXCEPT ![s] = rel],
         outcome' = outcome, record' = record, net' = net,
         \A t \in Side : t # s => /\ view'[t] = view[t] /\ mem'[t] = mem[t]
                                  /\ pc'[t] = pc[t] /\ psk'[t] = psk[t],
         view'[s] = NoRecord, mem'[s] \in {mem[s], NewRelationship},
         pc'[s] \notin {"save", "fetched"}, psk'[s] \in {0, psk[s]},
         Fine(s, rel.pending),
         \A x \in ExchangeId : HasInstalled(disk, s, x) => HasInstalled(disk', s, x),
         \A x \in ExchangeId : HasConfirmed(disk, s, x) => HasConfirmed(disk', s, x),
         rel.pending.xid # 0 => rel.pending.xid > rel.confirmed,
         rel.confirmed # 0 => Agreed(disk, outcome, rel.confirmed),
         rel.pending.xid # 0 /\ rel.pending.installed => psk[s] \in {0, rel.pending.xid},
         psk[s] # 0 => psk[s] \in {rel.confirmed, rel.pending.xid},
         OneAtATime'
  PROVE  KInv'
<1>0. TypeOK /\ TypeOK'
  BY DEF KInv, IInv
<1>1. disk'[s] = rel /\ \A t \in Side : t # s => disk'[t] = disk[t]
  BY <1>0 DEF TypeOK
<1>2. Grows
  BY <1>1 DEF Grows, HasInstalled, HasConfirmed
<1>3. DecisionsStay /\ RowStep
  BY DEF DecisionsStay, RowStep, KInv, Shapes, Claims
<1>4. ASSUME NEW t \in Side PROVE Fine(t, disk'[t].pending) /\ Fine(t, mem'[t].pending) /\ ViewStep(t)
  BY <1>1, PendingFine DEF ViewStep
<1>5. Shapes' /\ Claims' /\ Knowledge' /\ Truth'
  BY <1>2, <1>3, <1>4, FactsKept DEF KInv, Claims
<1>6. ConfirmedIsAgreed'
  <2>1. ASSUME NEW t \in Side, disk'[t].confirmed # 0
        PROVE  Agreed(disk, outcome, disk'[t].confirmed)
    BY <1>1, <2>1 DEF KInv, ConfirmedIsAgreed
  <2>. QED  BY <1>2, <1>3, <2>1, AgreedKept
<1>7. Progress'
  <2>1. ASSUME NEW t \in Side, t # s
        PROVE  /\ disk'[t].pending.xid # 0 => disk'[t].pending.xid > disk'[t].confirmed
               /\ pc'[t] = "save" => MovesOn(t)'
               /\ view'[t].xid # 0 =>
                    /\ view'[t].xid >= disk'[t].confirmed
                    /\ view'[t].xid = disk'[t].confirmed =>
                                 view'[t].decision.phase \in {"Committed", "Complete"}
               /\ pc'[t] # "fetched" => view'[t] = NoRecord
    BY <1>1, <2>1 DEF KInv, Progress, MovesOn
  <2>2. /\ disk'[s].pending.xid # 0 => disk'[s].pending.xid > disk'[s].confirmed
        /\ view'[s].xid = 0 /\ view'[s] = NoRecord
    BY <1>1 DEF NoRecord
  <2>. QED  BY <2>1, <2>2 DEF Progress
<1>8. Kernel' /\ KernelKeyIsSaved'
  <2>1. ASSUME NEW t \in Side
        PROVE  /\ disk'[t].pending.xid # 0 /\ disk'[t].pending.installed
                    => psk'[t] \in {0, disk'[t].pending.xid}
               /\ pc'[t] = "save" /\ mem'[t].pending.installed => psk'[t] \in {0, mem'[t].pending.xid}
               /\ psk'[t] # 0 => psk'[t] \in {disk'[t].confirmed, disk'[t].pending.xid}
    BY <1>1, <2>1 DEF KInv, Kernel, KernelKeyIsSaved
  <2>. QED  BY <2>1 DEF Kernel, KernelKeyIsSaved
<1>9. ResponderInstallsFirst'
  <2>. SUFFICES ASSUME psk'[Initiator] # 0
                PROVE  HasInstalled(disk', Responder, psk'[Initiator])
    BY DEF ResponderInstallsFirst, HasInstalled
  <2>1. Initiator \in Side /\ Responder \in Side
    BY DEF Side
  <2>2. psk'[Initiator] = psk[Initiator] /\ psk[Initiator] \in ExchangeId
    BY <1>0, <2>1, Numbers
  <2>3. HasInstalled(disk, Responder, psk[Initiator])
    BY <2>2 DEF KInv, ResponderInstallsFirst, HasInstalled
  <2>. QED  BY <1>2, <2>1, <2>2, <2>3 DEF Grows
<1>. QED  BY <1>5, <1>6, <1>7, <1>8, <1>9 DEF KInv

\* A step of side s that leaves rel in memory, to be saved and sent; it may
\* have put its pending candidate into the kernel.
LEMMA SendsStep ==
  ASSUME KInv, IInv', NEW s \in Side, NEW rel \in Relationship, Sends(s, rel),
         Fine(s, rel.pending), rel.confirmed = disk[s].confirmed,
         rel.pending.xid > disk[s].confirmed,
         \/ /\ rel.pending.xid = disk[s].pending.xid
            /\ disk[s].pending.installed => rel.pending.installed
            /\ disk[s].pending.confirmed => rel.pending.confirmed
         \/ /\ disk[s].pending.xid = 0
            /\ ~rel.pending.installed /\ ~rel.pending.confirmed,
         \A t \in Side : t # s => psk'[t] = psk[t],
         \/ psk'[s] = psk[s] /\ (rel.pending.installed => psk[s] \in {0, rel.pending.xid})
         \/ /\ psk'[s] = disk[s].pending.xid /\ rel.pending.xid = disk[s].pending.xid
            /\ s = Initiator => HasInstalled(disk, Responder, disk[s].pending.xid),
         s = Responder => <<rel.pending.xid, rel.pending.seq>> \in Refs
  PROVE  KInv'
<1>0. TypeOK /\ TypeOK'
  BY DEF KInv, IInv
<1>1. /\ UNCHANGED <<record, outcome, net, disk>>
      /\ mem'[s] = rel /\ pc'[s] = "save" /\ view'[s] = NoRecord
      /\ \A t \in Side : t # s => mem'[t] = mem[t] /\ pc'[t] = pc[t] /\ view'[t] = view[t]
  BY <1>0 DEF Sends, serverVars, TypeOK
<1>2. Grows
  BY <1>1 DEF Grows, HasInstalled, HasConfirmed
<1>3. DecisionsStay /\ RowStep
  BY <1>1 DEF DecisionsStay, RowStep, KInv, Shapes, Claims
<1>4. ASSUME NEW t \in Side PROVE Fine(t, disk'[t].pending) /\ Fine(t, mem'[t].pending) /\ ViewStep(t)
  BY <1>1, PendingFine DEF ViewStep
<1>5. Shapes' /\ Claims' /\ Knowledge' /\ Truth'
  BY <1>1, <1>2, <1>3, <1>4, FactsKept DEF KInv, Claims
<1>6. ConfirmedIsAgreed'
  <2>1. ASSUME NEW t \in Side, disk'[t].confirmed # 0
        PROVE  Agreed(disk, outcome, disk'[t].confirmed)
    BY <1>1, <2>1 DEF KInv, ConfirmedIsAgreed
  <2>. QED  BY <1>2, <1>3, <2>1, AgreedKept
<1>7. Progress'
  <2>1. ASSUME NEW t \in Side, t # s
        PROVE  /\ disk'[t].pending.xid # 0 => disk'[t].pending.xid > disk'[t].confirmed
               /\ pc'[t] = "save" => MovesOn(t)'
               /\ view'[t].xid # 0 =>
                    /\ view'[t].xid >= disk'[t].confirmed
                    /\ view'[t].xid = disk'[t].confirmed =>
                                 view'[t].decision.phase \in {"Committed", "Complete"}
               /\ pc'[t] # "fetched" => view'[t] = NoRecord
    BY <1>1, <2>1 DEF KInv, Progress, MovesOn
  <2>2. /\ disk'[s].pending.xid # 0 => disk'[s].pending.xid > disk'[s].confirmed
        /\ view'[s].xid = 0 /\ view'[s] = NoRecord /\ pc'[s] # "fetched"
    BY <1>1 DEF NoRecord, KInv, Progress
  <2>3. MovesOn(s)'
    BY <1>1 DEF MovesOn
  <2>. QED  BY <2>1, <2>2, <2>3 DEF Progress
<1>8. Kernel' /\ KernelKeyIsSaved'
  <2>1. ASSUME NEW t \in Side
        PROVE  /\ disk'[t].pending.xid # 0 /\ disk'[t].pending.installed
                    => psk'[t] \in {0, disk'[t].pending.xid}
               /\ pc'[t] = "save" /\ mem'[t].pending.installed => psk'[t] \in {0, mem'[t].pending.xid}
               /\ psk'[t] # 0 => psk'[t] \in {disk'[t].confirmed, disk'[t].pending.xid}
    <3>1. CASE t # s
      BY <1>1, <3>1 DEF KInv, Kernel, KernelKeyIsSaved
    <3>2. CASE t = s
      BY <1>1, <3>2 DEF KInv, Kernel, KernelKeyIsSaved
    <3>. QED  BY <3>1, <3>2
  <2>. QED  BY <2>1 DEF Kernel, KernelKeyIsSaved
<1>9. ResponderInstallsFirst'
  <2>. SUFFICES ASSUME psk'[Initiator] # 0
                PROVE  HasInstalled(disk, Responder, psk'[Initiator])
    BY <1>1 DEF ResponderInstallsFirst, HasInstalled
  <2>1. Initiator \in Side
    BY DEF Side
  <2>2. CASE psk'[Initiator] = psk[Initiator]
    BY <2>2 DEF KInv, ResponderInstallsFirst, HasInstalled
  <2>. QED  BY <2>1, <2>2
<1>10. OneAtATime'
  <2>1. \A t \in Side : <<view'[t].xid, view'[t].seq>> \in Refs
    BY <1>1, RefsMembers DEF NoRecord
  <2>2. <<mem'[Responder].pending.xid, mem'[Responder].pending.seq>> \in Refs
    BY <1>1, RefsMembers DEF Side
  <2>3. Refs' \subseteq Refs
    BY <1>1, <2>1, <2>2, RefsMembers, RefsWithin
  <2>. QED  BY <1>1, <1>3, <2>3, OneKept DEF KInv, OneAtATime
<1>. QED  BY <1>5, <1>6, <1>7, <1>8, <1>9, <1>10 DEF KInv

-----------------------------------------------------------------------------
(* Transactions *)

\* Row q holds what is so, and is row r moved on or a new exchange.
RowFine(r, q) ==
  /\ RowOK(q) /\ Backed(disk, q.xid, q.decision, Side)
  /\ \/ q.xid = r.xid /\ r.decision.confirmed \subseteq q.decision.confirmed
     \/ q.xid # 0 /\ q.decision = NewDecision

\* The sweep takes the row forward.
LEMMA SweepFine ==
  ASSUME NEW r \in Record, RowOK(r), Backed(disk, r.xid, r.decision, Side)
  PROVE  /\ RowFine(r, Sweep(r)) /\ Sweep(r).xid = r.xid
         /\ r.decision.confirmed \subseteq Sweep(r).decision.confirmed
<1>1. CASE r.lapsed /\ Preparing(r.decision)
  <2>. DEFINE e == [r EXCEPT !.decision = Expired(@)]
  <2>1. e.xid = r.xid /\ e.decision = [r.decision EXCEPT !.phase = "Aborted"]
    BY <1>1 DEF Expired, Record
  <2>2. /\ e.decision.phase = "Aborted" /\ e.decision.installed = r.decision.installed
        /\ e.decision.confirmed = r.decision.confirmed
    BY <2>1 DEF Record, Decision
  <2>3. Sweep(r) = Compact(e)
    BY <1>1 DEF Sweep
  <2>4. e \in Record
    BY DecisionType DEF Record
  <2>. HIDE DEF e
  <2>5. Compact(e) = [e EXCEPT !.messages = {}]
    BY <2>2 DEF Compact, Terminal
  <2>6. Sweep(r).xid = r.xid /\ Sweep(r).decision = e.decision /\ Sweep(r).messages = {}
    BY <2>1, <2>3, <2>4, <2>5 DEF Record
  <2>7. DecisionOK(e.decision)
    BY <1>1, <2>2 DEF RowOK, DecisionOK, Preparing
  <2>8. RowOK(Sweep(r))
    BY <2>6, <2>7 DEF RowOK
  <2>9. Backed(disk, Sweep(r).xid, Sweep(r).decision, Side)
    BY <2>2, <2>6 DEF Backed
  <2>. QED  BY <2>2, <2>6, <2>8, <2>9 DEF RowFine
<1>2. CASE ~(r.lapsed /\ Preparing(r.decision))
  BY <1>2 DEF Sweep, RowFine
<1>. QED  BY <1>1, <1>2

\* A message that its sender saved takes the row forward.
LEMMA SubmitFine ==
  ASSUME NEW r \in Record, NEW m \in Message, RowOK(r), Backed(disk, r.xid, r.decision, Side),
         Honest(disk, m)
  PROVE  RowFine(r, Submit(r, m))
<1>. DEFINE q == Submit(r, m)
<1>0. m.kind \in Kind /\ m.from \in Side /\ m.xid # 0
  BY ConstantsAssumption DEF Message, ExchangeId
<1>1. CASE Advances(r, m)
  <2>. DEFINE d == Advanced(r.decision, m.kind, m.from)
              w == <<m.kind, m.from>>
              e == [r EXCEPT !.decision = Advanced(@, m.kind, m.from),
                             !.messages = @ \cup {w},
                             !.receipts = @ \cup {w}]
  <2>1. q = Compact(e)
    BY <1>1 DEF Submit
  <2>2. /\ e \in Record /\ e.xid = r.xid /\ e.decision = d
        /\ e.messages = r.messages \cup {w}
    <3>1. w \in Kind \X Side
      BY <1>0
    <3>2. d \in Decision
      BY <1>0, DecisionType DEF Record
    <3>. QED  BY <3>1, <3>2 DEF Record
  <2>3. CanAdvance(r.decision, m.kind, m.from) /\ r.xid = m.xid /\ r.decision \in Decision
    BY <1>1 DEF Advances, SameExchange, Record
  <2>4. /\ DecisionOK(d)
        /\ d.installed = IF m.kind = "Installed" THEN r.decision.installed \cup {m.from}
                                                 ELSE r.decision.installed
        /\ d.confirmed = IF m.kind = "Confirmed" THEN r.decision.confirmed \cup {m.from}
                                                 ELSE r.decision.confirmed
    BY <1>0, <2>3, AdvancedOK DEF RowOK
  <2>. HIDE DEF e, d
  <2>5. q.xid = r.xid /\ q.decision = d /\ q.messages \subseteq r.messages \cup {w}
    BY <2>1, <2>2 DEF Compact, Record
  <2>6. RowOK(q)
    <3>1. ASSUME NEW s \in Side, <<"Installed", s>> \in q.messages PROVE s \in d.installed
      BY <2>4, <2>5, <3>1 DEF RowOK
    <3>2. ASSUME NEW s \in Side, <<"Confirmed", s>> \in q.messages PROVE s \in d.confirmed
      BY <2>4, <2>5, <3>2 DEF RowOK
    <3>. QED  BY <2>4, <2>5, <3>1, <3>2 DEF RowOK
  <2>7. Backed(disk, q.xid, q.decision, Side)
    BY <2>3, <2>4, <2>5 DEF Backed, Honest
  <2>. QED  BY <2>4, <2>5, <2>6, <2>7 DEF RowFine
<1>2. CASE ~Advances(r, m) /\ Opens(r, m)
  <2>1. q.xid = m.xid /\ q.decision = NewDecision /\ q.messages = {<<m.kind, m.from>>}
    BY <1>2 DEF Submit
  <2>2. m.kind = "Propose"
    BY <1>2 DEF Opens
  <2>3. RowOK(q)
    BY <2>1, <2>2 DEF RowOK, DecisionOK, NewDecision, Side
  <2>4. Backed(disk, q.xid, q.decision, Side)
    BY <2>1 DEF Backed, NewDecision
  <2>. QED  BY <1>0, <2>1, <2>3, <2>4 DEF RowFine
<1>3. CASE ~Advances(r, m) /\ ~Opens(r, m)
  BY <1>3 DEF Submit, RowFine
<1>. QED  BY <1>1, <1>2, <1>3

\* What the transactions of the system make of the row.
LEMMA TransactionFine ==
  ASSUME KInv
  PROVE  /\ RowFine(record, Sweep(record))
         /\ \A m \in Message : Honest(disk, m) => RowFine(record, Submit(Sweep(record), m))
<1>1. record \in Record /\ RowOK(record) /\ Backed(disk, record.xid, record.decision, Side)
  BY DEF KInv, IInv, TypeOK, Shapes, Claims
<1>. DEFINE p == Sweep(record)
<1>2. /\ RowFine(record, p) /\ p.xid = record.xid /\ p \in Record
      /\ record.decision.confirmed \subseteq p.decision.confirmed
  BY <1>1, SweepFine, RowType
<1>. HIDE DEF p
<1>3. ASSUME NEW m \in Message, Honest(disk, m) PROVE RowFine(record, Submit(p, m))
  <2>1. RowFine(p, Submit(p, m))
    BY <1>2, <1>3, SubmitFine DEF RowFine
  <2>. QED  BY <1>2, <2>1 DEF RowFine
<1>. QED  BY <1>2, <1>3 DEF p

\* A transaction moves the row on; a proposal replaces only what is over.
LEMMA WriteStep ==
  ASSUME KInv, NEW q \in Record, Write(q), Moved(q), RowFine(record, q)
  PROVE  /\ RowStep /\ DecisionsStay
         /\ <<record'.xid, record'.seq>> \in Refs
         /\ \A x \in ExchangeId : outcome'[x] \in {"None", "Complete", "Aborted"} \/ x = record'.xid
<1>1. record' = q /\ \A x \in ExchangeId :
                       outcome'[x] = IF x = q.xid THEN q.decision.phase ELSE outcome[x]
  BY DEF Write
<1>2. DecisionsStay /\ <<record'.xid, record'.seq>> \in Refs
  BY WriteMoves DEF KInv
<1>3. RowStep
  BY <1>1 DEF RowStep, RowFine
<1>4. \A x \in ExchangeId : outcome[x] \in {"None", "Complete", "Aborted"} \/ x = record.xid
  BY DEF KInv, OneAtATime
<1>5. ASSUME NEW x \in ExchangeId, x = record.xid, x # q.xid
      PROVE  outcome[x] \in {"Complete", "Aborted"}
  <2>. DEFINE a == <<record.xid, record.seq>>
              b == <<q.xid, q.seq>>
  <2>1. Opened(record, q) /\ b \in Refs /\ a \in Refs
    BY <1>5, RefsMembers DEF Moved, Kept
  <2>2. a[2] < b[2]
    BY <2>1 DEF Opened, KInv, IInv, TypeOK, Record
  <2>3. a[1] < b[1]
    BY <2>1, <2>2 DEF KInv, IInv, RefsOrdered
  <2>4. q.xid \in ExchangeId /\ record.xid \in Nat /\ record.xid < q.xid
    BY <1>5, <2>3, ConstantsAssumption DEF Record, IdOrNone, ExchangeId
  <2>5. outcome[q.xid] = "None"
    BY <2>4 DEF KInv, IInv, RowIsLatest, ExchangeId
  <2>6. disk[Initiator].confirmed # 0 => Decided(outcome, disk[Initiator].confirmed)
    BY DEF KInv, ConfirmedIsAgreed, Agreed, Side
  <2>7. b[1] = disk[Initiator].pending.xid
    <3>1. b[1] # 0 /\ b[1] = q.xid
      BY <2>4, ConstantsAssumption DEF ExchangeId
    <3>2. disk[Initiator].confirmed # b[1]
      BY <2>5, <2>6, <3>1 DEF Decided
    <3>. QED  BY <2>1, <2>5, <3>1, <3>2 DEF KInv, OneAtATime
  <2>8. a[1] # 0 /\ a[1] = x /\ a[1] # b[1]
    BY <1>5, ConstantsAssumption DEF ExchangeId
  <2>9. outcome[x] # "Committed"
    BY <1>5, <2>1, <2>8 DEF Opened, KInv, IInv, RowIsLatest
  <2>. QED  BY <1>5, <2>1, <2>7, <2>8, <2>6, <2>9 DEF KInv, OneAtATime, Decided
<1>6. ASSUME NEW x \in ExchangeId
      PROVE  outcome'[x] \in {"None", "Complete", "Aborted"} \/ x = record'.xid
  BY <1>1, <1>4, <1>5
<1>. QED  BY <1>2, <1>3, <1>6

\* What a side sends is on its disk.
LEMMA OutgoingHonest ==
  ASSUME KInv, NEW s \in Side, pc[s] = "send"
  PROVE  /\ Outgoing(s) \in Message /\ Honest(disk, Outgoing(s))
         /\ <<Outgoing(s).xid, Outgoing(s).seq>> \in Refs
<1>1. Outgoing(s) \in Message /\ disk[s].pending.xid # 0
  BY OutgoingType DEF KInv, IInv, TInv, SendsPending
<1>2. OwnOK(disk[s].pending, s)
  BY DEF KInv, Shapes
<1>3. Honest(disk, Outgoing(s))
  BY <1>1, <1>2 DEF Outgoing, Honest, OwnOK, HasInstalled, HasConfirmed
<1>. QED  BY <1>1, <1>3, RefsMembers DEF Outgoing

\* The steps that change no more than the row, the network, the retry clock
\* and what is lost with a process or a machine.
LEMMA StillSteps ==
  ASSUME KInv, IInv', DecisionsStay,
         \/ Lapse \/ SweepRow \/ DeliverLate \/ Handshake \/ CalmDown \/ UNCHANGED vars
         \/ \E s \in Side : Fetch(s) \/ Put(s) \/ PutLost(s) \/ BackoffElapses(s) \/ Crash(s) \/ Reboot(s)
  PROVE  KInv'
<1>0. TypeOK /\ Side = {Initiator, Responder} /\ Initiator # Responder
  BY DEF KInv, IInv, Side, Initiator, Responder
<1>1. /\ disk \in [Side -> Relationship] /\ pc \in [Side -> PC]
      /\ view \in [Side -> Record] /\ mem \in [Side -> Relationship]
      /\ psk \in [Side -> IdOrNone] /\ record \in Record /\ Sweep(record) \in Record
      /\ \A m \in Message : Submit(Sweep(record), m) \in Record
  BY <1>0, RowType DEF TypeOK
<1>2. /\ \A m \in net : m \in Message /\ Honest(disk, m) /\ <<m.xid, m.seq>> \in Refs
      /\ \A r : SameRel(r, r)
      /\ \A t \in Side : pc[t] # "fetched" => view[t] = NoRecord
  BY <1>0, RefsMembers DEF KInv, Claims, Progress, TypeOK, SameRel
<1>3. ASSUME NEW s \in Side, NEW b \in BOOLEAN, disk' = [disk EXCEPT ![s].pending.backoff = b]
      PROVE  /\ \A t \in Side : SameRel(disk'[t], disk[t])
             /\ \A t \in Side : t # s => disk'[t] = disk[t]
             /\ disk'[s].pending.backoff = b
  <2>1. \A t \in Side : disk[t] \in Relationship /\ disk[t].pending \in Pending
    BY <1>0, ObservedType
  <2>2. disk'[s] = [disk[s] EXCEPT !.pending = [@ EXCEPT !.backoff = b]]
    BY <1>1, <1>3
  <2>3. SameRel(disk'[s], disk[s]) /\ disk'[s].pending.backoff = b
    BY <2>1, <2>2 DEF SameRel, Relationship, Pending
  <2>. QED  BY <1>1, <1>2, <1>3, <2>3
\* the row as it was, up to the clock
<1>4. ASSUME record'.xid = record.xid, record'.seq = record.seq, record'.decision = record.decision,
             record'.messages = record.messages, outcome' = outcome
      PROVE  /\ RowStep /\ <<record'.xid, record'.seq>> \in Refs
             /\ \A x \in ExchangeId : outcome'[x] \in {"None", "Complete", "Aborted"} \/ x = record'.xid
  BY <1>4, RefsMembers DEF RowStep, RowOK, KInv, Shapes, Claims, OneAtATime
<1>5. CASE Lapse
  <2>1. /\ record'.xid = record.xid /\ record'.seq = record.seq
        /\ record'.decision = record.decision /\ record'.messages = record.messages
    BY <1>1, <1>5 DEF Lapse, Record
  <2>2. UNCHANGED <<outcome, net, disk, mem, view, pc, psk>>
    BY <1>5 DEF Lapse, clientVars, kernelVars
  <2>. QED  BY <1>2, <1>4, <2>1, <2>2, StillStep
<1>6. CASE SweepRow
  <2>1. Write(Sweep(record)) /\ Moved(Sweep(record)) /\ RowFine(record, Sweep(record))
    BY <1>6, TransactionMoves, TransactionFine DEF SweepRow, KInv
  <2>2. UNCHANGED <<net, disk, mem, view, pc, psk>>
    BY <1>6 DEF SweepRow, clientVars, kernelVars
  <2>. QED  BY <1>1, <1>2, <2>1, <2>2, WriteStep, StillStep
<1>7. CASE DeliverLate
  <2>1. PICK m \in net : /\ Write(Submit(Sweep(record), m))
                         /\ net' = net \ {m}
                         /\ UNCHANGED <<clientVars, kernelVars, fresh, calm>>
    BY <1>7 DEF DeliverLate
  <2>. DEFINE q == Submit(Sweep(record), m)
  <2>2. Moved(q) /\ q \in Record /\ RowFine(record, q)
    BY <1>1, <1>2, TransactionMoves, TransactionFine DEF KInv
  <2>3. UNCHANGED <<disk, mem, view, pc, psk>> /\ Write(q)
    BY <2>1 DEF clientVars, kernelVars
  <2>. HIDE DEF q
  <2>. QED  BY <1>2, <2>1, <2>2, <2>3, WriteStep, StillStep
<1>8. CASE Handshake \/ CalmDown \/ UNCHANGED vars
  <2>1. UNCHANGED <<record, outcome, net, disk, mem, view, pc, psk>>
    BY <1>8 DEF Handshake, CalmDown, vars, clientVars, serverVars, kernelVars
  <2>. QED  BY <1>2, <1>4, <2>1, StillStep
<1>9. ASSUME NEW s \in Side, Fetch(s) PROVE KInv'
  <2>1. /\ Write(Sweep(record)) /\ Moved(Sweep(record)) /\ RowFine(record, Sweep(record))
        /\ record' = Sweep(record)
    BY <1>9, TransactionMoves, TransactionFine DEF Fetch, KInv, Write
  <2>2. /\ UNCHANGED <<net, disk, mem, psk>> /\ pc[s] = "idle"
        /\ pc' = [pc EXCEPT ![s] = "fetched"] /\ view' = [view EXCEPT ![s] = Answer(record')]
    BY <1>9, <2>1 DEF Fetch, kernelVars
  <2>3. /\ \A t \in Side : view'[t] \in {view[t], NoRecord, Answer(record')}
        /\ \A t \in Side : pc'[t] = "save" => pc[t] = "save"
        /\ \A t \in Side : pc'[t] # "fetched" => view'[t] = NoRecord
    BY <1>1, <1>2, <2>2
  <2>. QED  BY <1>1, <1>2, <2>1, <2>2, <2>3, WriteStep, StillStep
<1>10. ASSUME NEW s \in Side, Put(s) PROVE KInv'
  <2>. DEFINE q == Submit(Sweep(record), Outgoing(s))
  <2>1. Write(q) /\ Moved(q) /\ q \in Record /\ RowFine(record, q)
    BY <1>1, <1>10, OutgoingHonest, TransactionMoves, TransactionFine DEF Put, KInv
  <2>. HIDE DEF q
  <2>2. /\ UNCHANGED <<net, mem, view, psk>> /\ pc' = [pc EXCEPT ![s] = "idle"] /\ pc[s] = "send"
        /\ disk' = disk \/ disk' = [disk EXCEPT ![s].pending.backoff = TRUE]
    BY <1>10 DEF Put, NoteSendFailure, kernelVars
  <2>3. /\ \A t \in Side : SameRel(disk'[t], disk[t])
        /\ \A t \in Side : t # s => disk'[t] = disk[t]
    BY <1>2, <1>3, <2>2
  <2>4. /\ \A t \in Side : pc'[t] = "save" => pc[t] = "save"
        /\ \A t \in Side : pc'[t] # "fetched" => view'[t] = NoRecord
    BY <1>1, <1>2, <2>2, <2>3
  <2>. QED  BY <1>2, <2>1, <2>2, <2>3, <2>4, WriteStep, StillStep
<1>11. ASSUME NEW s \in Side, PutLost(s) PROVE KInv'
  <2>1. /\ UNCHANGED <<record, outcome, mem, view, psk>> /\ pc' = [pc EXCEPT ![s] = "idle"]
        /\ pc[s] = "send" /\ disk' = [disk EXCEPT ![s].pending.backoff = TRUE]
        /\ net' \subseteq net \cup {Outgoing(s)}
    BY <1>11 DEF PutLost, NoteSendFailure, Unanswered, kernelVars, serverVars
  <2>2. \A m \in net' : Honest(disk, m) /\ <<m.xid, m.seq>> \in Refs
    BY <1>2, <2>1, OutgoingHonest
  <2>3. /\ \A t \in Side : SameRel(disk'[t], disk[t])
        /\ \A t \in Side : t # s => disk'[t] = disk[t]
    BY <1>3, <2>1
  <2>4. /\ \A t \in Side : pc'[t] = "save" => pc[t] = "save"
        /\ \A t \in Side : pc'[t] # "fetched" => view'[t] = NoRecord
    BY <1>1, <1>2, <2>1, <2>3
  <2>. QED  BY <1>4, <2>1, <2>2, <2>3, <2>4, StillStep
<1>12. ASSUME NEW s \in Side, BackoffElapses(s) PROVE KInv'
  <2>1. /\ UNCHANGED <<record, outcome, net, mem, view, pc, psk>>
        /\ pc[s] = "idle" /\ disk' = [disk EXCEPT ![s].pending.backoff = FALSE]
    BY <1>12 DEF BackoffElapses, kernelVars, serverVars
  <2>2. /\ \A t \in Side : SameRel(disk'[t], disk[t])
        /\ \A t \in Side : t # s => disk'[t] = disk[t]
    BY <1>3, <2>1
  <2>3. \A t \in Side : pc'[t] # "fetched" => view'[t] = NoRecord
    BY <1>1, <1>2, <2>1, <2>2
  <2>. QED  BY <1>2, <1>4, <2>1, <2>2, <2>3, StillStep
<1>13. ASSUME NEW s \in Side, Crash(s) \/ Reboot(s) PROVE KInv'
  <2>1. /\ UNCHANGED <<record, outcome, disk>> /\ pc' = [pc EXCEPT ![s] = "idle"]
        /\ mem' = [mem EXCEPT ![s] = NewRelationship] /\ view' = [view EXCEPT ![s] = NoRecord]
        /\ psk' = psk \/ psk' = [psk EXCEPT ![s] = 0]
    BY <1>13 DEF Crash, Reboot, kernelVars, serverVars
  <2>2. net' \subseteq net \/ (pc[s] = "send" /\ net' \subseteq net \cup {Outgoing(s)})
    BY <1>13 DEF Crash, Reboot, Unanswered
  <2>3. \A m \in net' : Honest(disk, m) /\ <<m.xid, m.seq>> \in Refs
    BY <1>2, <2>2, OutgoingHonest
  <2>4. /\ \A t \in Side : mem'[t] \in {mem[t], NewRelationship}
        /\ \A t \in Side : view'[t] \in {view[t], NoRecord, Answer(record')}
        /\ \A t \in Side : psk'[t] \in {0, psk[t]}
        /\ \A t \in Side : pc'[t] = "save" => pc[t] = "save" /\ mem'[t] = mem[t]
        /\ \A t \in Side : pc'[t] # "fetched" => view'[t] = NoRecord
    BY <1>1, <1>2, <2>1
  <2>. QED  BY <1>2, <1>4, <2>1, <2>3, <2>4, StillStep
<1>. QED
  BY <1>5, <1>6, <1>7, <1>8, <1>9, <1>10, <1>11, <1>12, <1>13

-----------------------------------------------------------------------------
(* The steps of a cycle that change what a side has pending *)

LEMMA ObservedFine ==
  ASSUME KInv, NEW s \in Side
  PROVE  /\ Fine(s, Observed(s)) /\ Observed(s) \in Pending
         /\ disk[s] \in Relationship /\ disk[s].pending \in Pending
         /\ \A p \in Pending : /\ [disk[s] EXCEPT !.pending = p] \in Relationship
                               /\ [disk[s] EXCEPT !.pending = p].pending = p
                               /\ [disk[s] EXCEPT !.pending = p].confirmed = disk[s].confirmed
<1>1. ObservedOK(s, Observed(s))
  BY ObserveOK
<1>2. disk[s].pending.xid # 0 /\ disk[s].pending.installed => Decided(outcome, disk[s].pending.xid)
  BY DEF KInv, Truth
<1>3. disk[s] \in Relationship /\ disk[s].pending \in Pending
  BY ObservedType DEF KInv, IInv
<1>4. Fine(s, Observed(s)) /\ Observed(s) \in Pending
  BY <1>1, <1>2 DEF ObservedOK, Fine
<1>. QED  BY <1>3, <1>4 DEF Relationship

\* Side s adds its message k to the exchange it has pending.
Pushed(o, p, k, s) ==
  /\ p \in Pending /\ p.xid = o.xid /\ p.seq = o.seq
  /\ p.decision = Advanced(o.decision, k, s) /\ p.last = k
  /\ p.installed = IF k = "Installed" THEN TRUE ELSE o.installed
  /\ p.confirmed = IF k = "Confirmed" THEN TRUE ELSE o.confirmed

\* A message that `reconcile` adds to the outbox is in order.
LEMMA PushedFine ==
  ASSUME KInv, NEW s \in Side, NEW k \in {"Commit", "Installed", "Confirmed"}, NEW p,
         Pushed(Observed(s), p, k, s), Observed(s).xid # 0,
         CanAdvance(Observed(s).decision, k, s),
         k = "Installed" => ~Observed(s).installed /\ Decided(outcome, Observed(s).xid)
  PROVE  Fine(s, p)
<1>. DEFINE o == Observed(s)
<1>1. Fine(s, o) /\ o \in Pending /\ o.decision \in Decision /\ k \in Kind
  BY ObservedFine DEF Pending, Kind
<1>. HIDE DEF o
<1>2. OwnOK(o, s) /\ DecisionOK(o.decision) /\ Peer(s) # s /\ o.xid # 0
  BY <1>1, PeerType DEF Fine, OwnOK, o
<1>3. /\ p \in Pending /\ p.xid = o.xid /\ p.decision = Advanced(o.decision, k, s) /\ p.last = k
      /\ p.installed = IF k = "Installed" THEN TRUE ELSE o.installed
      /\ p.confirmed = IF k = "Confirmed" THEN TRUE ELSE o.confirmed
      /\ CanAdvance(o.decision, k, s)
  BY DEF Pushed, o
<1>4. /\ DecisionOK(p.decision)
      /\ p.decision.installed = IF k = "Installed" THEN o.decision.installed \cup {s} ELSE o.decision.installed
      /\ p.decision.confirmed = IF k = "Confirmed" THEN o.decision.confirmed \cup {s} ELSE o.decision.confirmed
      /\ p.decision.phase # "Aborted"
  <2>. DEFINE a == Advanced(o.decision, k, s)
  <2>1. /\ DecisionOK(a)
        /\ a.installed = IF k = "Installed" THEN o.decision.installed \cup {s} ELSE o.decision.installed
        /\ a.confirmed = IF k = "Confirmed" THEN o.decision.confirmed \cup {s} ELSE o.decision.confirmed
        /\ a.phase = "Aborted" => k = "Abort"
    <3>1. /\ o.decision \in Decision /\ k \in Kind /\ DecisionOK(o.decision)
          /\ CanAdvance(o.decision, k, s)
      BY <1>1, <1>2, <1>3
    <3>. QED  BY <3>1, AdvancedOK
  <2>. HIDE DEF a
  <2>2. p.decision = a
    BY <1>3 DEF a
  <2>. QED  BY <2>1, <2>2
<1>5. k = "Commit" => ~o.installed
  BY <1>2, <1>3 DEF CanAdvance, DecisionOK, OwnOK
<1>6. k = "Confirmed" => o.installed
  BY <1>2, <1>3 DEF CanAdvance, OwnOK
<1>7. /\ o.installed \in BOOLEAN /\ o.confirmed \in BOOLEAN
      /\ p.installed \in BOOLEAN /\ p.confirmed \in BOOLEAN
  BY <1>1, <1>3 DEF Pending
<1>8. OwnOK(p, s)
  BY <1>2, <1>3, <1>4, <1>5, <1>6, <1>7 DEF OwnOK, o
<1>9. Backed(disk, p.xid, p.decision, {Peer(s)})
  BY <1>1, <1>2, <1>3, <1>4 DEF Fine, Backed
<1>10. RowKnows(record, p.xid, p.decision, {Peer(s)})
  BY <1>1, <1>2, <1>3, <1>4 DEF Fine, RowKnows
<1>11. Dead(outcome, p.xid, p.decision)
  BY <1>4 DEF Dead
<1>12. p.installed => Decided(outcome, p.xid)
  BY <1>1, <1>2, <1>3, <1>7 DEF Fine, o
<1>. QED  BY <1>8, <1>9, <1>10, <1>11, <1>12 DEF Fine

\* The branches of `reconcile` that return a message.
LEMMA SendingSteps ==
  ASSUME KInv, IInv', NEW s \in Side,
         \/ StartExchange(s) \/ AnswerProposal(s) \/ Resend(s) \/ SendCommit(s)
         \/ InstallCandidate(s) \/ ConfirmHandshake(s)
  PROVE  KInv'
<1>. DEFINE o == Observed(s)
            d == disk[s]
<1>0. TypeOK /\ disk \in [Side -> Relationship] /\ psk \in [Side -> IdOrNone]
  BY DEF KInv, IInv, TypeOK
<1>1. /\ o \in Pending /\ d \in Relationship /\ d.pending \in Pending
      /\ \A p \in Pending : /\ [d EXCEPT !.pending = p] \in Relationship
                            /\ [d EXCEPT !.pending = p].pending = p
                            /\ [d EXCEPT !.pending = p].confirmed = d.confirmed
  BY ObservedFine
<1>2. /\ o.xid = d.pending.xid /\ o.seq = d.pending.seq
      /\ o.installed = d.pending.installed /\ o.confirmed = d.pending.confirmed
      /\ Backed(disk, o.xid, o.decision, {Peer(s)})
  BY ObserveOK DEF ObservedOK
<1>3. /\ d.pending.xid # 0 => d.pending.xid > d.confirmed
      /\ d.pending.xid # 0 /\ d.pending.installed => psk[s] \in {0, d.pending.xid}
      /\ OwnOK(d.pending, s)
  BY DEF KInv, Progress, Kernel, Shapes
<1>4. /\ d.confirmed \in Nat /\ d.pending.xid \in Nat /\ record.xid \in Nat /\ view[s].xid \in Nat
      /\ d.seq \in Nat /\ fresh \in 0 .. MaxExchanges
  BY <1>0, Numbers DEF TypeOK, Relationship, IdOrNone
<1>5. ASSUME NEW p \in Pending, Sends(s, [d EXCEPT !.pending = p]),
             Fine(s, p), p.xid = o.xid, p.seq = o.seq, p.xid # 0,
             o.installed => p.installed, o.confirmed => p.confirmed,
             \A t \in Side : t # s => psk'[t] = psk[t],
             \/ psk'[s] = psk[s] /\ (p.installed => o.installed)
             \/ psk'[s] = o.xid /\ (s = Initiator => HasInstalled(disk, Responder, o.xid))
      PROVE  KInv'
  <2>. DEFINE rel == [d EXCEPT !.pending = p]
  <2>1. rel \in Relationship /\ rel.pending = p /\ rel.confirmed = d.confirmed
    BY <1>1
  <2>2. <<p.xid, p.seq>> \in Refs
    BY <1>2, <1>5, RefsMembers
  <2>3. Sends(s, rel)
    BY <1>5
  <2>. HIDE DEF rel
  <2>. QED  BY <1>2, <1>3, <1>5, <2>1, <2>2, <2>3, SendsStep
<1>6. CASE StartExchange(s)
  <2>. DEFINE p   == [NoPending EXCEPT !.xid = fresh + 1, !.seq = d.seq]
              rel == [d EXCEPT !.seq = @ + 1, !.pending = p]
  <2>1. fresh + 1 \in 0 .. MaxExchanges /\ s = Initiator /\ d.pending.xid = 0
    BY <1>4, <1>6, ConstantsAssumption DEF StartExchange
  <2>2. /\ p \in Pending /\ p.xid = fresh + 1 /\ p.decision = NewDecision /\ p.last = "Propose"
        /\ ~p.installed /\ ~p.confirmed
    BY <1>4, <2>1, RelationshipType DEF Pending, NoPending, IdOrNone
  <2>3. Sends(s, rel) /\ psk' = psk
    BY <1>6 DEF StartExchange
  <2>. HIDE DEF p
  <2>4. rel \in Relationship /\ rel.pending = p /\ rel.confirmed = d.confirmed
    <3>1. d.seq + 1 \in Nat
      BY <1>4
    <3>. QED  BY <1>1, <2>2, <3>1 DEF Relationship
  <2>. HIDE DEF rel
  <2>5. Fine(s, p)
    BY <2>2 DEF Fine, OwnOK, DecisionOK, NewDecision, Backed, RowKnows, Dead, Side
  <2>6. p.xid > d.confirmed
    <3>1. CASE d.confirmed = 0
      BY <1>4, <2>2, <3>1
    <3>2. CASE d.confirmed # 0
      <4>1. outcome[d.confirmed] \in {"Committed", "Complete"} /\ d.confirmed \in ExchangeId
        BY <3>2 DEF KInv, ConfirmedIsAgreed, Agreed, Decided
      <4>2. d.confirmed <= record.xid
        BY <4>1 DEF KInv, IInv, RowIsLatest
      <4>3. record.xid <= fresh
        <5>. DEFINE a == <<record.xid, record.seq>>
        <5>1. a[1] <= fresh
          BY RefsMembers DEF KInv, IInv, RefsBounded
        <5>. QED  BY <5>1
      <4>. QED  BY <1>4, <2>2, <4>2, <4>3
    <3>. QED  BY <3>1, <3>2
  <2>7. s # Responder
    BY <2>1 DEF Initiator, Responder
  <2>. QED  BY <2>1, <2>2, <2>3, <2>4, <2>5, <2>6, <2>7, SendsStep
<1>7. CASE AnswerProposal(s)
  <2>. DEFINE e   == Advanced(NewDecision, "Ready", s)
              p   == [NoPending EXCEPT !.xid = view[s].xid, !.seq = view[s].seq,
                                       !.decision = e, !.last = "Ready"]
              rel == [d EXCEPT !.pending = p]
  <2>1. e \in Decision /\ e.phase = "Ready" /\ e.installed = {} /\ e.confirmed = {}
    BY DecisionType DEF Kind, Advanced, NewDecision
  <2>2. view[s] \in Record
    BY <1>0 DEF TypeOK
  <2>. HIDE DEF e
  <2>3. /\ p \in Pending /\ p.xid = view[s].xid /\ p.seq = view[s].seq
        /\ p.decision = e /\ p.last = "Ready" /\ ~p.installed /\ ~p.confirmed
    BY <2>1, <2>2, RelationshipType DEF Pending, NoPending, Record, Kind
  <2>4. /\ Sends(s, rel) /\ psk' = psk /\ d.pending.xid = 0
        /\ view[s].xid # 0 /\ view[s].decision.phase = "Proposed"
    BY <1>7 DEF AnswerProposal, Answerable, e
  <2>. HIDE DEF p
  <2>5. rel \in Relationship /\ rel.pending = p /\ rel.confirmed = d.confirmed
    BY <1>1, <2>3
  <2>. HIDE DEF rel
  <2>6. Fine(s, p)
    BY <2>1, <2>3 DEF Fine, OwnOK, DecisionOK, Backed, RowKnows, Dead, Side
  <2>7. p.xid > d.confirmed
    BY <1>4, <2>3, <2>4 DEF KInv, Progress
  <2>8. <<p.xid, p.seq>> \in Refs
    BY <2>3, RefsMembers
  <2>. QED  BY <2>3, <2>4, <2>5, <2>6, <2>7, <2>8, SendsStep
<1>8. CASE Resend(s)
  <2>1. Sends(s, [d EXCEPT !.pending = o]) /\ psk' = psk /\ o.xid # 0
    BY <1>2, <1>8 DEF Resend
  <2>. QED  BY <1>1, <1>5, <2>1, ObservedFine
<1>9. CASE SendCommit(s)
  <2>. DEFINE q == Push(o, "Commit")
              p == [q EXCEPT !.decision = Advanced(@, "Commit", s)]
  <2>1. /\ Sends(s, [d EXCEPT !.pending = p]) /\ psk' = psk /\ o.xid # 0
        /\ o.decision.phase = "Ready" /\ s = Initiator
    BY <1>2, <1>9 DEF SendCommit, Matching
  <2>2. CanAdvance(o.decision, "Commit", s)
    BY <2>1 DEF CanAdvance
  <2>3. Pushed(o, p, "Commit", s)
    <3>1. Advanced(o.decision, "Commit", s) \in Decision
      BY <1>1, DecisionType DEF Pending, Kind
    <3>2. /\ q \in Pending /\ q.xid = o.xid /\ q.seq = o.seq /\ q.decision = o.decision
          /\ q.last = "Commit" /\ q.installed = o.installed /\ q.confirmed = o.confirmed
      BY <1>1 DEF Push, Pending, Kind
    <3>. HIDE DEF q, o
    <3>3. /\ p \in Pending /\ p.xid = o.xid /\ p.seq = o.seq /\ p.last = "Commit"
          /\ p.installed = o.installed /\ p.confirmed = o.confirmed
          /\ p.decision = Advanced(o.decision, "Commit", s)
      BY <3>1, <3>2 DEF Pending
    <3>4. o.installed \in BOOLEAN /\ o.confirmed \in BOOLEAN
      BY <1>1 DEF Pending
    <3>. QED  BY <3>3, <3>4 DEF Pushed
  <2>. HIDE DEF p
  <2>4. Fine(s, p)
    BY <2>1, <2>2, <2>3, PushedFine
  <2>5. /\ p \in Pending /\ p.xid = o.xid /\ p.seq = o.seq
        /\ p.installed = o.installed
        /\ p.confirmed = o.confirmed
    BY <2>3 DEF Pushed
  <2>. QED  BY <1>5, <2>1, <2>4, <2>5
<1>10. CASE InstallCandidate(s)
  <2>. DEFINE q == Push(o, "Installed")
              p == [q EXCEPT !.installed = TRUE, !.decision = Advanced(@, "Installed", s)]
  <2>1. /\ Sends(s, [d EXCEPT !.pending = p]) /\ psk' = [psk EXCEPT ![s] = o.xid] /\ o.xid # 0
        /\ o.decision.phase = "Committed" /\ ~o.installed
        /\ s = Responder \/ Responder \in o.decision.installed
    BY <1>2, <1>10 DEF InstallCandidate, Matching, MayInstall
  <2>2. CanAdvance(o.decision, "Installed", s)
    BY <2>1 DEF CanAdvance
  <2>3. Pushed(o, p, "Installed", s)
    <3>1. Advanced(o.decision, "Installed", s) \in Decision
      BY <1>1, DecisionType DEF Pending, Kind
    <3>2. /\ q \in Pending /\ q.xid = o.xid /\ q.seq = o.seq /\ q.decision = o.decision
          /\ q.last = "Installed" /\ q.confirmed = o.confirmed
      BY <1>1 DEF Push, Pending, Kind
    <3>. HIDE DEF q, o
    <3>3. /\ p \in Pending /\ p.xid = o.xid /\ p.seq = o.seq /\ p.last = "Installed"
          /\ p.installed = TRUE /\ p.confirmed = o.confirmed
          /\ p.decision = Advanced(o.decision, "Installed", s)
      BY <3>1, <3>2 DEF Pending
    <3>4. o.installed \in BOOLEAN /\ o.confirmed \in BOOLEAN
      BY <1>1 DEF Pending
    <3>. QED  BY <3>3, <3>4 DEF Pushed
  <2>. HIDE DEF p
  <2>4. Decided(outcome, o.xid)
    BY <2>1, ObservedEvidence DEF KInv, PendingEvidence, DecisionShows
  <2>5. Fine(s, p)
    BY <2>1, <2>2, <2>3, <2>4, PushedFine
  <2>6. /\ p \in Pending /\ p.xid = o.xid /\ p.seq = o.seq
        /\ p.installed = TRUE
        /\ p.confirmed = o.confirmed
    BY <2>3 DEF Pushed
  <2>7. psk'[s] = o.xid /\ \A t \in Side : t # s => psk'[t] = psk[t]
    BY <1>0, <2>1
  <2>8. s = Initiator => HasInstalled(disk, Responder, o.xid)
    BY <1>2, <2>1 DEF Backed, Peer, Initiator, Responder
  <2>. QED  BY <1>5, <2>1, <2>5, <2>6, <2>7, <2>8
<1>11. CASE ConfirmHandshake(s)
  <2>. DEFINE q == Push(o, "Confirmed")
              p == [q EXCEPT !.confirmed = TRUE, !.decision = Advanced(@, "Confirmed", s)]
  <2>1. /\ Sends(s, [d EXCEPT !.pending = p]) /\ psk' = psk /\ o.xid # 0
        /\ o.decision.phase = "Committed" /\ o.installed
    BY <1>2, <1>11 DEF ConfirmHandshake, Matching
  <2>2. CanAdvance(o.decision, "Confirmed", s)
    BY <2>1, ObservedFine DEF CanAdvance, Fine, OwnOK
  <2>3. Pushed(o, p, "Confirmed", s)
    <3>1. Advanced(o.decision, "Confirmed", s) \in Decision
      BY <1>1, DecisionType DEF Pending, Kind
    <3>2. /\ q \in Pending /\ q.xid = o.xid /\ q.seq = o.seq /\ q.decision = o.decision
          /\ q.last = "Confirmed" /\ q.installed = o.installed
      BY <1>1 DEF Push, Pending, Kind
    <3>. HIDE DEF q, o
    <3>3. /\ p \in Pending /\ p.xid = o.xid /\ p.seq = o.seq /\ p.last = "Confirmed"
          /\ p.installed = o.installed /\ p.confirmed = TRUE
          /\ p.decision = Advanced(o.decision, "Confirmed", s)
      BY <3>1, <3>2 DEF Pending
    <3>4. o.installed \in BOOLEAN /\ o.confirmed \in BOOLEAN
      BY <1>1 DEF Pending
    <3>. QED  BY <3>3, <3>4 DEF Pushed
  <2>. HIDE DEF p
  <2>4. Fine(s, p)
    BY <2>1, <2>2, <2>3, PushedFine
  <2>5. /\ p \in Pending /\ p.xid = o.xid /\ p.seq = o.seq
        /\ p.installed = o.installed
        /\ p.confirmed = TRUE
    BY <2>3 DEF Pushed
  <2>. QED  BY <1>5, <2>1, <2>4, <2>5
<1>. QED  BY <1>6, <1>7, <1>8, <1>9, <1>10, <1>11

\* The end of a cycle that sends nothing: rel is saved, or is not.
LEMMA SettleStep ==
  ASSUME KInv, IInv', NEW s \in Side, NEW rel \in Relationship,
         disk' = [disk EXCEPT ![s] = rel] \/ disk' = disk,
         UNCHANGED <<record, outcome, net, mem>>,
         pc' = [pc EXCEPT ![s] = "idle"], view' = [view EXCEPT ![s] = NoRecord],
         psk' = psk \/ psk' = [psk EXCEPT ![s] = 0],
         Fine(s, rel.pending), <<rel.pending.xid, rel.pending.seq>> \in Refs,
         \A x \in ExchangeId : HasInstalled(disk, s, x) =>
           rel.confirmed >= x \/ (rel.pending.xid = x /\ rel.pending.installed),
         \A x \in ExchangeId : HasConfirmed(disk, s, x) =>
           rel.confirmed >= x \/ (rel.pending.xid = x /\ rel.pending.confirmed),
         rel.pending.xid # 0 => rel.pending.xid > rel.confirmed,
         rel.confirmed # 0 => Agreed(disk, outcome, rel.confirmed),
         rel.pending.xid # 0 /\ rel.pending.installed => psk[s] \in {0, rel.pending.xid},
         psk[s] # 0 => psk[s] \in {rel.confirmed, rel.pending.xid},
         \/ rel.pending.xid = disk[s].pending.xid
         \/ rel.confirmed = disk[s].pending.xid
         \/ outcome[disk[s].pending.xid] \in {"Complete", "Aborted"},
         \/ rel.confirmed = disk[s].confirmed
         \/ disk[s].confirmed = 0 \/ outcome[disk[s].confirmed] = "Complete"
  PROVE  KInv'
<1>1. /\ disk \in [Side -> Relationship] /\ pc \in [Side -> PC]
      /\ view \in [Side -> Record] /\ psk \in [Side -> IdOrNone]
  BY DEF KInv, IInv, TypeOK
<1>2. /\ view'[s] = NoRecord /\ pc'[s] = "idle" /\ psk'[s] \in {0, psk[s]}
      /\ \A t \in Side : t # s => view'[t] = view[t] /\ pc'[t] = pc[t] /\ psk'[t] = psk[t]
  BY <1>1
<1>3. DecisionsStay
  BY DEF DecisionsStay
<1>4. CASE disk' = [disk EXCEPT ![s] = rel]
  <2>1. disk'[s] = rel /\ \A t \in Side : t # s => disk'[t] = disk[t]
    BY <1>1, <1>4
  <2>2. Refs' \subseteq Refs
    <3>1. \A t \in Side : <<disk'[t].pending.xid, disk'[t].pending.seq>> \in Refs
      BY <2>1, RefsMembers
    <3>2. \A t \in Side : <<view'[t].xid, view'[t].seq>> \in Refs
      BY <1>2, RefsMembers DEF NoRecord
    <3>. QED  BY <3>1, <3>2, RefsMembers, RefsWithin
  <2>3. /\ \/ disk'[Initiator].pending.xid = disk[Initiator].pending.xid
           \/ disk[Initiator].pending.xid = disk'[Initiator].confirmed
           \/ outcome[disk[Initiator].pending.xid] \in {"Complete", "Aborted"}
        /\ \/ disk'[Initiator].confirmed = disk[Initiator].confirmed
           \/ disk[Initiator].confirmed = 0
           \/ outcome[disk[Initiator].confirmed] = "Complete"
    BY <2>1 DEF Side
  <2>4. OneAtATime'
    BY <1>3, <2>2, <2>3, OneKept DEF KInv, OneAtATime
  <2>5. /\ \A x \in ExchangeId : HasInstalled(disk, s, x) => HasInstalled(disk', s, x)
        /\ \A x \in ExchangeId : HasConfirmed(disk, s, x) => HasConfirmed(disk', s, x)
    BY <2>1 DEF HasInstalled, HasConfirmed
  <2>. QED  BY <1>2, <1>4, <2>4, <2>5, DiskStep
<1>5. CASE disk' = disk
  <2>1. RowStep
    BY DEF RowStep, KInv, Shapes, Claims
  <2>2. \A t \in Side : SameRel(disk'[t], disk[t])
    BY <1>5 DEF SameRel
  <2>3. /\ \A t \in Side : view'[t] \in {view[t], NoRecord, Answer(record')}
        /\ \A t \in Side : psk'[t] \in {0, psk[t]}
        /\ \A t \in Side : pc'[t] = "save" => pc[t] = "save"
        /\ \A t \in Side : pc'[t] # "fetched" => view'[t] = NoRecord
    BY <1>2, <1>5 DEF KInv, Progress
  <2>4. /\ \A m \in net' : Honest(disk, m) /\ <<m.xid, m.seq>> \in Refs
        /\ <<record'.xid, record'.seq>> \in Refs
        /\ \A x \in ExchangeId : outcome'[x] \in {"None", "Complete", "Aborted"} \/ x = record'.xid
    BY RefsMembers DEF KInv, Claims, OneAtATime
  <2>. QED  BY <1>3, <2>1, <2>2, <2>3, <2>4, StillStep
<1>. QED  BY <1>4, <1>5

\* A side that finds its exchange complete has confirmed it, and so has the
\* other one.
LEMMA CompleteIsAgreed ==
  ASSUME KInv, NEW s \in Side, Matching(s, "Complete")
  PROVE  /\ Agreed(disk, outcome, disk[s].pending.xid)
         /\ Side \subseteq Observed(s).decision.confirmed
<1>. DEFINE o == Observed(s)
<1>1. ObservedOK(s, o) /\ PendingEvidence(outcome, o, s)
  BY ObserveOK, ObservedEvidence DEF KInv
<1>2. disk[s].pending.xid # 0 /\ o.decision.phase = "Complete"
  BY DEF Matching
<1>. HIDE DEF o
<1>3. /\ o.xid = disk[s].pending.xid /\ o.xid # 0 /\ o.confirmed = disk[s].pending.confirmed
      /\ Backed(disk, o.xid, o.decision, {Peer(s)})
  BY <1>1, <1>2 DEF ObservedOK
<1>4. OwnOK(o, s) /\ DecisionOK(o.decision)
  BY <1>1, <1>3 DEF ObservedOK, OwnOK
<1>5. Side \subseteq o.decision.confirmed
  BY <1>2, <1>4 DEF DecisionOK
<1>6. Decided(outcome, o.xid)
  <2>1. Responder \in o.decision.installed
    BY <1>4, <1>5 DEF DecisionOK, Side
  <2>. QED  BY <1>1, <1>3, <1>5, <2>1 DEF PendingEvidence, DecisionShows
<1>7. HasConfirmed(disk, s, o.xid)
  BY <1>3, <1>4, <1>5 DEF OwnOK, HasConfirmed
<1>8. HasConfirmed(disk, Peer(s), o.xid)
  BY <1>3, <1>5, PeerType DEF Backed
<1>. QED  BY <1>3, <1>5, <1>6, <1>7, <1>8, PeerType DEF Agreed, o

\* When no retry is being put off, what it finds is what the server has: its
\* own confirmation is durable.
LEMMA CompleteIsTrue ==
  ASSUME KInv, NEW s \in Side, Matching(s, "Complete"), ~disk[s].pending.backoff
  PROVE  outcome[disk[s].pending.xid] = "Complete"
<1>. DEFINE o == Observed(s)
            v == view[s]
<1>1. ObservedOK(s, o)
  BY ObserveOK
<1>2. disk[s].pending.xid # 0 /\ ~MustResend(o, v, s) /\ o.decision.phase = "Complete"
  BY DEF Matching
<1>3. Side \subseteq o.decision.confirmed /\ Decided(outcome, disk[s].pending.xid)
  BY CompleteIsAgreed DEF Agreed
<1>4. RowOK(v) /\ Final(outcome, v.xid, v.decision)
  BY DEF KInv, Shapes, Truth
<1>. HIDE DEF o, v
<1>5. o.xid = disk[s].pending.xid /\ o.xid # 0 /\ ~o.backoff /\ OwnOK(o, s)
  BY <1>1, <1>2 DEF ObservedOK
<1>6. DurablySent(o, v, s)
  BY <1>2, <1>5 DEF MustResend
<1>7. v.xid = o.xid
  BY <1>6 DEF DurablySent, SameExchange
<1>8. Side \subseteq o.decision.confirmed /\ OwnOK(o, s) /\ Decided(outcome, o.xid)
  BY <1>3, <1>5
<1>9. CASE Terminal(v.decision)
  BY <1>4, <1>5, <1>7, <1>8, <1>9 DEF Final, Terminal, Decided
<1>10. CASE ~Terminal(v.decision)
  <2>1. <<o.last, s>> \in v.messages
    BY <1>6, <1>10 DEF DurablySent
  <2>2. o.last = "Confirmed"
    BY <1>5, <1>8 DEF OwnOK
  <2>3. s \in v.decision.confirmed
    BY <1>4, <2>1, <2>2 DEF RowOK
  <2>4. Peer(s) \in v.decision.confirmed
    <3>1. RowKnows(v, o.xid, o.decision, {Peer(s)})
      BY <1>1 DEF ObservedOK, v
    <3>. QED  BY <1>5, <1>7, <1>8, <3>1, PeerType DEF RowKnows
  <2>5. v.decision.phase = "Complete"
    BY <1>4, <2>3, <2>4, PeerType DEF RowOK, DecisionOK
  <2>. QED  BY <1>10, <2>5 DEF Terminal
<1>. QED  BY <1>9, <1>10

\* What side s had confirmed before a later exchange was decided is complete.
LEMMA EarlierComplete ==
  ASSUME KInv, NEW s \in Side, disk[s].confirmed # 0, NEW x, Decided(outcome, x), x > disk[s].confirmed
  PROVE  outcome[disk[s].confirmed] = "Complete"
<1>. DEFINE y == disk[s].confirmed
<1>1. Decided(outcome, y)
  BY DEF KInv, ConfirmedIsAgreed, Agreed
<1>2. y \in ExchangeId /\ x \in ExchangeId /\ x \in Nat /\ y \in Nat /\ record.xid \in Nat
  BY <1>1, Numbers, ConstantsAssumption DEF Decided, ExchangeId, KInv, IInv
<1>3. x <= record.xid
  BY <1>2 DEF Decided, KInv, IInv, RowIsLatest
<1>4. outcome[y] # "Committed"
  BY <1>2, <1>3 DEF KInv, OneAtATime
<1>. QED  BY <1>1, <1>4 DEF Decided

\* The branches of `reconcile` without a message, and the failed install.
LEMMA SettlingSteps ==
  ASSUME KInv, IInv', NEW s \in Side,
         \/ NothingPending(s) \/ DropAborted(s) \/ FinishExchange(s) \/ Wait(s) \/ InstallFails(s)
  PROVE  KInv'
<1>. DEFINE o == Observed(s)
            d == disk[s]
<1>0. TypeOK /\ disk \in [Side -> Relationship]
  BY DEF KInv, IInv, TypeOK
<1>1. /\ Fine(s, o) /\ Fine(s, d.pending) /\ Fine(s, NoPending)
      /\ o \in Pending /\ d \in Relationship /\ NoPending \in Pending
      /\ \A p \in Pending : /\ [d EXCEPT !.pending = p] \in Relationship
                            /\ [d EXCEPT !.pending = p].pending = p
                            /\ [d EXCEPT !.pending = p].confirmed = d.confirmed
  BY ObservedFine, PendingFine, RelationshipType DEF NoPending
<1>2. /\ ObservedOK(s, o) /\ o.xid = d.pending.xid /\ o.seq = d.pending.seq
      /\ o.installed = d.pending.installed /\ o.confirmed = d.pending.confirmed
      /\ Dead(outcome, o.xid, o.decision)
  BY ObserveOK DEF ObservedOK
<1>3. /\ d.pending.xid # 0 => d.pending.xid > d.confirmed
      /\ d.pending.xid # 0 /\ d.pending.installed => psk[s] \in {0, d.pending.xid}
      /\ d.pending.xid # 0 /\ d.pending.installed => Decided(outcome, d.pending.xid)
      /\ d.confirmed # 0 => Agreed(disk, outcome, d.confirmed)
      /\ psk[s] # 0 => psk[s] \in {d.confirmed, d.pending.xid}
      /\ psk[s] # 0 => outcome[psk[s]] \in {"Committed", "Complete"}
      /\ OwnOK(d.pending, s)
  BY DEF KInv, Progress, Kernel, Truth, ConfirmedIsAgreed, KernelKeyIsSaved, Shapes, IInv,
         InstalledOnlyCommitted
<1>4. /\ d.confirmed \in Nat /\ d.pending.xid \in Nat /\ IdOrNone \subseteq Nat
      /\ \A x \in ExchangeId : x \in Nat /\ x # 0
  BY <1>0, Numbers, ConstantsAssumption DEF IdOrNone, ExchangeId
<1>5. ASSUME NEW rel \in Relationship, Settles(s, rel)
      PROVE  /\ disk' = [disk EXCEPT ![s] = rel] \/ disk' = disk
             /\ UNCHANGED <<record, outcome, net, mem>>
             /\ pc' = [pc EXCEPT ![s] = "idle"] /\ view' = [view EXCEPT ![s] = NoRecord]
             /\ psk' = psk
  BY <1>5 DEF Settles, serverVars
<1>6. CASE NothingPending(s)
  <2>1. Settles(s, d)
    BY <1>6 DEF NothingPending
  <2>. QED  BY <1>1, <1>3, <1>5, <2>1, RefsMembers, SettleStep DEF HasInstalled, HasConfirmed
<1>7. CASE DropAborted(s)
  <2>. DEFINE rel == [d EXCEPT !.pending = NoPending]
  <2>1. rel \in Relationship /\ rel.pending = NoPending /\ rel.confirmed = d.confirmed
    BY <1>1
  <2>2. Settles(s, rel) /\ d.pending.xid # 0 /\ o.decision.phase = "Aborted"
    BY <1>7 DEF DropAborted, Matching
  <2>3. outcome[d.pending.xid] = "Aborted"
    BY <1>2, <2>2 DEF Dead
  <2>4. ~d.pending.installed /\ ~d.pending.confirmed
    BY <1>3, <2>2, <2>3 DEF Decided, OwnOK
  <2>5. NoPending.xid = 0 /\ NoPending.seq = 0 /\ <<0, 0>> \in Refs
    BY RefsMembers DEF NoPending
  <2>6. psk[s] # 0 => psk[s] = d.confirmed
    BY <1>3, <2>3
  <2>. HIDE DEF rel
  <2>. QED  BY <1>1, <1>3, <1>5, <2>1, <2>2, <2>3, <2>4, <2>5, <2>6, SettleStep
            DEF HasInstalled, HasConfirmed
<1>8. CASE FinishExchange(s)
  <2>. DEFINE x   == d.pending.xid
              rel == [d EXCEPT !.confirmed = d.pending.xid, !.pending = NoPending]
  <2>1. rel \in Relationship /\ rel.pending = NoPending /\ rel.confirmed = x
    BY <1>1 DEF Relationship, Pending
  <2>2. Settles(s, rel) /\ x # 0 /\ Matching(s, "Complete")
    BY <1>8 DEF FinishExchange, Matching
  <2>3. Agreed(disk, outcome, x)
    BY <2>2, CompleteIsAgreed
  <2>4. d.confirmed = 0 \/ outcome[d.confirmed] = "Complete"
    BY <1>3, <2>2, <2>3, EarlierComplete DEF Agreed
  <2>5. d.pending.confirmed
    <3>1. HasConfirmed(disk, s, x)
      BY <2>3 DEF Agreed
    <3>. QED  BY <2>2, <3>1, OwnClaims
  <2>6. psk[s] \in {0, x}
    BY <1>3, <2>2, <2>5 DEF OwnOK
  <2>7. NoPending.xid = 0 /\ NoPending.seq = 0 /\ <<0, 0>> \in Refs
    BY RefsMembers DEF NoPending
  <2>. HIDE DEF rel
  <2>8. ASSUME NEW y \in ExchangeId, d.confirmed >= y \/ x = y PROVE x >= y
    BY <1>3, <1>4, <2>2, <2>8
  <2>9. ASSUME NEW y \in ExchangeId, HasInstalled(disk, s, y) \/ HasConfirmed(disk, s, y)
        PROVE  rel.confirmed >= y
    BY <2>1, <2>8, <2>9 DEF HasInstalled, HasConfirmed
  <2>10. /\ disk' = [disk EXCEPT ![s] = rel] \/ disk' = disk
         /\ UNCHANGED <<record, outcome, net, mem>>
         /\ pc' = [pc EXCEPT ![s] = "idle"] /\ view' = [view EXCEPT ![s] = NoRecord]
         /\ psk' = psk
    BY <1>5, <2>1, <2>2
  <2>. QED  BY <1>1, <2>1, <2>3, <2>4, <2>6, <2>7, <2>9, <2>10, SettleStep
<1>9. ASSUME NEW rel, rel = [d EXCEPT !.pending = o], d.pending.xid # 0,
             disk' = [disk EXCEPT ![s] = rel] \/ disk' = disk,
             UNCHANGED <<record, outcome, net, mem>>,
             pc' = [pc EXCEPT ![s] = "idle"], view' = [view EXCEPT ![s] = NoRecord],
             psk' = psk \/ psk' = [psk EXCEPT ![s] = 0]
      PROVE  KInv'
  <2>1. rel \in Relationship /\ rel.pending = o /\ rel.confirmed = d.confirmed
    BY <1>1, <1>9
  <2>2. <<o.xid, o.seq>> \in Refs
    BY <1>2, RefsMembers
  <2>3. /\ \A x \in ExchangeId : HasInstalled(disk, s, x) =>
             rel.confirmed >= x \/ (rel.pending.xid = x /\ rel.pending.installed)
        /\ \A x \in ExchangeId : HasConfirmed(disk, s, x) =>
             rel.confirmed >= x \/ (rel.pending.xid = x /\ rel.pending.confirmed)
    BY <1>2, <2>1 DEF HasInstalled, HasConfirmed
  <2>4. /\ Fine(s, rel.pending) /\ <<rel.pending.xid, rel.pending.seq>> \in Refs
        /\ rel.pending.xid = d.pending.xid
        /\ rel.pending.xid # 0 => rel.pending.xid > rel.confirmed
        /\ rel.confirmed # 0 => Agreed(disk, outcome, rel.confirmed)
        /\ rel.pending.xid # 0 /\ rel.pending.installed => psk[s] \in {0, rel.pending.xid}
        /\ psk[s] # 0 => psk[s] \in {rel.confirmed, rel.pending.xid}
    BY <1>1, <1>2, <1>3, <2>1, <2>2
  <2>. HIDE DEF o
  <2>. QED  BY <1>9, <2>1, <2>3, <2>4, SettleStep
<1>10. CASE Wait(s)
  <2>1. Settles(s, [d EXCEPT !.pending = o]) /\ d.pending.xid # 0
    BY <1>10 DEF Wait, Matching
  <2>. QED  BY <1>1, <1>5, <1>9, <2>1
<1>11. CASE InstallFails(s)
  <2>1. /\ d.pending.xid # 0 /\ UNCHANGED <<record, outcome, net, mem>>
        /\ pc' = [pc EXCEPT ![s] = "idle"] /\ view' = [view EXCEPT ![s] = NoRecord]
        /\ psk' = psk \/ psk' = [psk EXCEPT ![s] = 0]
    BY <1>11 DEF InstallFails, Matching, serverVars
  <2>2. disk' = [disk EXCEPT ![s] = [d EXCEPT !.pending = o]] \/ disk' = disk
    BY <1>0, <1>11 DEF InstallFails
  <2>. QED  BY <1>9, <2>1, <2>2
<1>. QED  BY <1>6, <1>7, <1>8, <1>10, <1>11

\* Saving what is in memory.
LEMMA SavingStep ==
  ASSUME KInv, IInv', NEW s \in Side, Save(s)
  PROVE  KInv'
<1>. DEFINE d == disk[s]
            m == mem[s]
<1>0. TypeOK /\ Side = {Initiator, Responder} /\ Initiator # Responder
  BY DEF KInv, IInv, Side, Initiator, Responder
<1>1. /\ disk \in [Side -> Relationship] /\ mem \in [Side -> Relationship] /\ m \in Relationship
      /\ pc \in [Side -> PC]
  BY <1>0 DEF TypeOK
<1>2. /\ UNCHANGED <<record, outcome, net, view, psk>>
      /\ disk' = [disk EXCEPT ![s] = m] /\ mem' = [mem EXCEPT ![s] = NewRelationship]
      /\ pc' = [pc EXCEPT ![s] = "send"] /\ pc[s] = "save"
  BY DEF Save, serverVars, kernelVars
<1>3. MovesOn(s) /\ view[s] = NoRecord /\ m.pending.xid # 0
  BY <1>2 DEF KInv, Progress, IInv, SendsPending
<1>4. /\ m.confirmed = d.confirmed /\ m.pending.xid > d.confirmed
      /\ \/ /\ m.pending.xid = d.pending.xid
            /\ d.pending.installed => m.pending.installed
            /\ d.pending.confirmed => m.pending.confirmed
         \/ d.pending.xid = 0 /\ ~m.pending.installed /\ ~m.pending.confirmed
  BY <1>3 DEF MovesOn
<1>5. /\ m.pending.installed => psk[s] \in {0, m.pending.xid}
      /\ psk[s] # 0 => psk[s] \in {d.confirmed, d.pending.xid}
      /\ d.confirmed # 0 => Agreed(disk, outcome, d.confirmed)
  BY <1>2 DEF KInv, Kernel, KernelKeyIsSaved, ConfirmedIsAgreed
<1>6. disk'[s] = m /\ \A t \in Side : t # s => disk'[t] = disk[t]
  BY <1>1, <1>2
<1>7. \A x \in ExchangeId : x # 0
  BY ConstantsAssumption DEF ExchangeId
<1>8. /\ \A x \in ExchangeId : HasInstalled(disk, s, x) => HasInstalled(disk', s, x)
      /\ \A x \in ExchangeId : HasConfirmed(disk, s, x) => HasConfirmed(disk', s, x)
  BY <1>4, <1>6, <1>7 DEF HasInstalled, HasConfirmed
<1>9. Fine(s, m.pending)
  BY PendingFine
<1>10. OneAtATime'
  <2>1. <<mem'[Responder].pending.xid, mem'[Responder].pending.seq>> \in Refs
    BY <1>0, <1>1, <1>2, RefsMembers DEF NewRelationship, NoPending
  <2>2. ASSUME NEW a \in Refs' PROVE a \in Refs \/ a = <<m.pending.xid, m.pending.seq>>
    <3>1. \A t \in Side : \/ <<disk'[t].pending.xid, disk'[t].pending.seq>> \in Refs
                          \/ <<disk'[t].pending.xid, disk'[t].pending.seq>> = <<m.pending.xid, m.pending.seq>>
      BY <1>6, RefsMembers
    <3>2. \/ a \in Refs
          \/ a \in {<<disk'[t].pending.xid, disk'[t].pending.seq>> : t \in Side}
      BY <1>2, <2>1, <2>2, RefsMembers DEF Refs
    <3>. QED  BY <3>1, <3>2
  <2>3. s = Responder => <<m.pending.xid, m.pending.seq>> \in Refs
    BY RefsMembers
  <2>4. ASSUME NEW a \in Refs'
        PROVE  \/ a[1] \in {0, disk'[Initiator].pending.xid, disk'[Initiator].confirmed}
               \/ outcome'[a[1]] \in {"Complete", "Aborted"}
    <3>1. CASE a \in Refs
      <4>1. \/ a[1] \in {0, disk[Initiator].pending.xid, disk[Initiator].confirmed}
            \/ outcome[a[1]] \in {"Complete", "Aborted"}
        BY <3>1 DEF KInv, OneAtATime
      <4>2. /\ disk[Initiator].pending.xid \in {0, disk'[Initiator].pending.xid}
            /\ disk[Initiator].confirmed = disk'[Initiator].confirmed
        BY <1>0, <1>4, <1>6
      <4>. QED  BY <1>2, <4>1, <4>2
    <3>2. CASE a \notin Refs
      <4>1. a = <<m.pending.xid, m.pending.seq>> /\ s = Initiator
        BY <1>0, <2>2, <2>3, <2>4, <3>2
      <4>. QED  BY <1>6, <4>1
    <3>. QED  BY <3>1, <3>2
  <2>. QED  BY <1>2, <2>4 DEF KInv, OneAtATime
<1>11. /\ view'[s] = NoRecord /\ mem'[s] = NewRelationship /\ pc'[s] = "send" /\ psk'[s] = psk[s]
       /\ \A t \in Side : t # s => /\ view'[t] = view[t] /\ mem'[t] = mem[t]
                                  /\ pc'[t] = pc[t] /\ psk'[t] = psk[t]
  BY <1>1, <1>2, <1>3
<1>12. /\ m.pending.xid > m.confirmed
       /\ m.confirmed # 0 => Agreed(disk, outcome, m.confirmed)
       /\ psk[s] # 0 => psk[s] \in {m.confirmed, m.pending.xid}
  BY <1>4, <1>5
<1>13. disk' = [disk EXCEPT ![s] = m] /\ outcome' = outcome /\ record' = record /\ net' = net
  BY <1>2
<1>. HIDE DEF m
<1>. QED
  BY <1>1, <1>5, <1>8, <1>9, <1>10, <1>11, <1>12, <1>13, DiskStep

-----------------------------------------------------------------------------
(* The keys of a pair, whatever machine reboots *)

LEMMA KInit ==
  ASSUME Init, IInv
  PROVE  KInv
<1>1. /\ record = NoRecord /\ net = {} /\ \A x \in ExchangeId : outcome[x] = "None"
      /\ \A s \in Side : /\ disk[s] = NewRelationship /\ mem[s] = NewRelationship
                         /\ view[s] = NoRecord /\ pc[s] = "idle" /\ psk[s] = 0
      /\ Initiator \in Side /\ Responder \in Side
  BY DEF Init, Side
<1>2. /\ NoRecord.xid = 0 /\ NewRelationship.pending.xid = 0 /\ NewRelationship.confirmed = 0
      /\ RowOK(NoRecord)
  BY DEF NoRecord, NewRelationship, NoPending, RowOK, DecisionOK, NewDecision, Side
<1>3. Shapes
  BY <1>1, <1>2 DEF Shapes, OwnOK
<1>4. Claims
  BY <1>1, <1>2 DEF Claims, Backed
<1>5. Knowledge /\ Truth
  BY <1>1, <1>2 DEF Knowledge, Truth, RowKnows, Final, Dead
<1>6. Progress /\ ConfirmedIsAgreed /\ Kernel /\ KernelKeyIsSaved /\ ResponderInstallsFirst
  BY <1>1, <1>2 DEF Progress, ConfirmedIsAgreed, Kernel, KernelKeyIsSaved, ResponderInstallsFirst
<1>7. OneAtATime
  BY <1>1, <1>2 DEF OneAtATime, Refs
<1>. QED  BY <1>3, <1>4, <1>5, <1>6, <1>7 DEF KInv

\* One step per action.
LEMMA KStep ==
  ASSUME KInv, [Next]_vars
  PROVE  KInv'
<1>1. IInv' /\ DecisionsStay
  BY StepInv DEF KInv
<1>. QED
  BY <1>1, StillSteps, SendingSteps, SettlingSteps, SavingStep
     DEF Next, Cycle, Fault, Reconcile

\* What is said of a side is so, in every reachable state.
THEOREM KeysInductive == Spec => []KInv
<1>1. Init /\ IInv => KInv
  BY KInit
<1>2. KInv /\ [Next]_vars => KInv'
  BY KStep
<1>. QED  BY <1>1, <1>2, Inductive, PTL DEF Spec

\* The only step that confirms an exchange is the Complete arm of `reconcile`.
LEMMA OnlyFinishConfirms ==
  ASSUME KInv, [Next]_vars, NEW s \in Side, disk'[s].confirmed # disk[s].confirmed
  PROVE  Matching(s, "Complete") /\ disk'[s].confirmed = disk[s].pending.xid
<1>0. /\ TypeOK /\ disk \in [Side -> Relationship] /\ mem \in [Side -> Relationship]
      /\ \A t \in Side : disk[t] \in Relationship /\ disk[t].pending \in Pending
  BY ObservedType DEF KInv, IInv, TypeOK
<1>1. ASSUME NEW t \in Side, NEW p, \/ disk' = [disk EXCEPT ![t].pending = p] \/ disk' = disk
                                   \/ disk' = [disk EXCEPT ![t] = [disk[t] EXCEPT !.pending = p]]
      PROVE  FALSE
  BY <1>0, <1>1 DEF Relationship
<1>2. ASSUME NEW t \in Side, StartExchange(t) \/ AnswerProposal(t) \/ Resend(t) \/ SendCommit(t)
                             \/ InstallCandidate(t) \/ ConfirmHandshake(t)
      PROVE  FALSE
  BY <1>2 DEF StartExchange, AnswerProposal, Resend, SendCommit, InstallCandidate, ConfirmHandshake, Sends
<1>3. ASSUME NEW t \in Side, NothingPending(t) \/ DropAborted(t) \/ Wait(t) \/ InstallFails(t)
      PROVE  FALSE
  <2>1. CASE NothingPending(t)
    BY <1>0, <2>1 DEF NothingPending, Settles
  <2>2. CASE DropAborted(t)
    BY <1>1, <2>2 DEF DropAborted, Settles
  <2>3. CASE Wait(t)
    BY <1>1, <2>3 DEF Wait, Settles
  <2>4. CASE InstallFails(t)
    BY <1>1, <2>4 DEF InstallFails
  <2>. QED  BY <1>3, <2>1, <2>2, <2>3, <2>4
<1>4. ASSUME NEW t \in Side, Save(t) PROVE FALSE
  <2>1. mem[t].confirmed = disk[t].confirmed /\ disk' = [disk EXCEPT ![t] = mem[t]]
    BY <1>4 DEF Save, KInv, Progress, MovesOn
  <2>. QED  BY <1>0, <2>1
<1>5. ASSUME NEW t \in Side, Fetch(t) \/ Put(t) \/ PutLost(t) \/ Crash(t) \/ Reboot(t) \/ BackoffElapses(t)
      PROVE  FALSE
  <2>1. \/ disk' = disk \/ disk' = [disk EXCEPT ![t].pending.backoff = TRUE]
        \/ disk' = [disk EXCEPT ![t].pending.backoff = FALSE]
    BY <1>5 DEF Fetch, Put, PutLost, Crash, Reboot, BackoffElapses, NoteSendFailure
  <2>. QED  BY <1>0, <2>1 DEF Relationship
<1>6. ASSUME Lapse \/ SweepRow \/ DeliverLate \/ Handshake \/ CalmDown \/ UNCHANGED vars
      PROVE  FALSE
  BY <1>6 DEF Lapse, SweepRow, DeliverLate, Handshake, CalmDown, vars, clientVars
<1>7. PICK t \in Side : FinishExchange(t)
  BY <1>2, <1>3, <1>4, <1>5, <1>6 DEF Next, Cycle, Fault, Reconcile
<1>. DEFINE rel == [disk[t] EXCEPT !.confirmed = disk[t].pending.xid, !.pending = NoPending]
<1>8. rel.confirmed = disk[t].pending.xid /\ disk' = [disk EXCEPT ![t] = rel] /\ Matching(t, "Complete")
  BY <1>0, <1>7 DEF FinishExchange, Settles, Relationship
<1>. HIDE DEF rel
<1>. QED  BY <1>0, <1>8

\* An endpoint that confirms an exchange while no retry is being put off does
\* so only when the server has completed it.
THEOREM OnlyCompleteConfirmed == Spec => ConfirmsComplete
<1>. DEFINE Confirms == \A s \in Side :
              disk'[s].confirmed # disk[s].confirmed /\ ~disk[s].pending.backoff
                => outcome[disk'[s].confirmed] = "Complete"
<1>1. KInv /\ [Next]_vars => Confirms
  <2>. SUFFICES ASSUME KInv, [Next]_vars, NEW s \in Side, ~disk[s].pending.backoff,
                       disk'[s].confirmed # disk[s].confirmed
                PROVE  outcome[disk'[s].confirmed] = "Complete"
    OBVIOUS
  <2>1. Matching(s, "Complete") /\ disk'[s].confirmed = disk[s].pending.xid
    BY OnlyFinishConfirms
  <2>. QED  BY <2>1, CompleteIsTrue
<1>2. KInv /\ [Next]_vars => [Confirms]_vars
  BY <1>1
<1>. QED  BY <1>2, KeysInductive, PTL DEF Spec, ConfirmsComplete

\* A side that has confirmed a key never strands the other one without it.
THEOREM NobodyStranded == Spec => []CounterpartHoldsKey
<1>1. KInv => CounterpartHoldsKey
  <2>. SUFFICES ASSUME KInv, NEW s \in Side, disk[s].confirmed # 0
                PROVE  \/ disk[Peer(s)].confirmed >= disk[s].confirmed
                       \/ /\ disk[Peer(s)].pending.xid = disk[s].confirmed
                          /\ disk[Peer(s)].pending.installed /\ disk[Peer(s)].pending.confirmed
    BY DEF CounterpartHoldsKey
  <2>1. disk[s].confirmed \in ExchangeId /\ HasConfirmed(disk, Peer(s), disk[s].confirmed)
    BY PeerType DEF KInv, ConfirmedIsAgreed, Agreed, Decided
  <2>2. HasConfirmed(disk, Peer(s), disk[s].confirmed) /\ OwnOK(disk[Peer(s)].pending, Peer(s))
    BY <2>1, PeerType DEF KInv, Shapes
  <2>. QED  BY <2>2 DEF HasConfirmed, OwnOK
<1>. QED  BY <1>1, KeysInductive, PTL

\* A key that runs in a kernel is also on that machine's disk.
THEOREM KernelKeysSaved == Spec => []KernelKeyIsSaved
<1>1. KInv => KernelKeyIsSaved
  BY DEF KInv
<1>. QED  BY <1>1, KeysInductive, PTL

\* The initiator takes a key only after the responder's install is durable.
THEOREM ResponderIsFirst == Spec => []ResponderInstallsFirst
<1>1. KInv => ResponderInstallsFirst
  BY DEF KInv
<1>. QED  BY <1>1, KeysInductive, PTL

\* The only step that puts a key into a kernel is the install of the exchange
\* that is pending.
LEMMA KeyChanges ==
  ASSUME KInv, [Next]_vars, NEW s \in Side, psk'[s] \notin {0, psk[s]}
  PROVE  /\ InstallCandidate(s) /\ psk'[s] = disk[s].pending.xid /\ disk[s].pending.xid # 0
         /\ \A t \in Side : t # s => psk'[t] = psk[t]
<1>0. psk \in [Side -> IdOrNone]
  BY DEF KInv, IInv, TypeOK
<1>1. ASSUME NEW t \in Side, InstallCandidate(t)
      PROVE  psk' = [psk EXCEPT ![t] = disk[t].pending.xid] /\ disk[t].pending.xid # 0
  BY <1>1, ObserveOK DEF InstallCandidate, Matching, ObservedOK
<1>2. ASSUME NEW t \in Side, StartExchange(t) \/ AnswerProposal(t) \/ NothingPending(t) \/ Resend(t)
                             \/ DropAborted(t) \/ SendCommit(t) \/ ConfirmHandshake(t)
                             \/ FinishExchange(t) \/ Wait(t)
      PROVE  psk' = psk
  BY <1>2 DEF StartExchange, AnswerProposal, NothingPending, Resend, DropAborted, SendCommit,
              ConfirmHandshake, FinishExchange, Wait, Settles
<1>3. ASSUME NEW t \in Side, Fetch(t) \/ Save(t) \/ Put(t) \/ PutLost(t) \/ Crash(t) \/ BackoffElapses(t)
      PROVE  psk' = psk
  BY <1>3 DEF Fetch, Save, Put, PutLost, Crash, BackoffElapses, kernelVars
<1>4. ASSUME NEW t \in Side, InstallFails(t) \/ Reboot(t)
      PROVE  psk' = psk \/ psk' = [psk EXCEPT ![t] = 0]
  BY <1>4 DEF InstallFails, Reboot
<1>5. ASSUME Lapse \/ SweepRow \/ DeliverLate \/ Handshake \/ CalmDown \/ UNCHANGED vars
      PROVE  psk' = psk
  BY <1>5 DEF Lapse, SweepRow, DeliverLate, Handshake, CalmDown, vars, kernelVars
<1>6. PICK t \in Side : InstallCandidate(t)
  BY <1>0, <1>2, <1>3, <1>4, <1>5 DEF Next, Cycle, Fault, Reconcile
<1>. QED  BY <1>0, <1>1, <1>6

\* No replay, restart or stale view takes a kernel back to an earlier key.
THEOREM KernelsGoForward == Spec => KeyNeverRollsBack
<1>. DEFINE Forward == \A s \in Side :
              psk'[s] \notin {0, psk[s]} => psk'[s] > disk[s].confirmed /\ psk'[s] > psk[s]
<1>1. KInv /\ [Next]_vars => Forward
  <2>. SUFFICES ASSUME KInv, [Next]_vars, NEW s \in Side, psk'[s] \notin {0, psk[s]}
                PROVE  psk'[s] > disk[s].confirmed /\ psk'[s] > psk[s]
    OBVIOUS
  <2>1. psk'[s] = disk[s].pending.xid /\ disk[s].pending.xid # 0
    BY KeyChanges
  <2>2. disk[s].pending.xid > disk[s].confirmed
    BY <2>1 DEF KInv, Progress
  <2>3. psk[s] \in {0, disk[s].confirmed, disk[s].pending.xid}
    BY DEF KInv, KernelKeyIsSaved
  <2>4. psk[s] \in Nat /\ disk[s].pending.xid \in Nat /\ disk[s].confirmed \in Nat
    BY Numbers DEF KInv, IInv
  <2>. QED  BY <2>1, <2>2, <2>3, <2>4
<1>2. KInv /\ [Next]_vars => [Forward]_vars
  BY <1>1
<1>. QED  BY <1>2, KeysInductive, PTL DEF Spec, KeyNeverRollsBack

-----------------------------------------------------------------------------
(* The keys of a pair whose kernels are not lost *)

\* Side t installs nothing but what it has pending, and forgets it only when
\* it has confirmed it or it was aborted.
Forward(t) ==
  /\ \/ psk'[t] \in {0, psk[t]}
     \/ psk'[t] = disk[t].pending.xid /\ disk[t].pending.xid # 0
  /\ disk'[t].confirmed >= disk[t].confirmed
  /\ disk[t].pending.xid # 0 => \/ disk'[t].pending.xid = disk[t].pending.xid
                                \/ disk'[t].confirmed >= disk[t].pending.xid
                                \/ outcome[disk[t].pending.xid] = "Aborted"

\* What side t holds after the step is good for the invariant.
Keeps(t) ==
  /\ Forward(t)
  /\ hs'[t] = {} \/ (hs'[t] = hs[t] /\ psk'[t] = psk[t])
  /\ disk'[t].pending.xid # 0 /\ disk'[t].pending.confirmed => Reached(disk'[t].pending.xid)
  /\ pc'[t] = "save" /\ mem'[t].pending.confirmed => Reached(mem'[t].pending.xid)
  /\ disk'[t].confirmed # 0 => Reached(disk'[t].confirmed)
  /\ disk'[t].pending.xid # 0 /\ disk'[t].pending.installed => psk'[t] = disk'[t].pending.xid
  /\ pc'[t] = "save" /\ mem'[t].pending.installed => psk'[t] = mem'[t].pending.xid
  /\ disk'[t].confirmed # 0 /\ psk'[t] = 0 => Decided(outcome, disk'[t].pending.xid)
  /\ gate'[t] => psk'[t] # 0 /\ hs'[t] = {psk'[t]}

\* An exchange whose key both kernels reached stays so.
LEMMA ReachedKept ==
  ASSUME KInv, TypeOK', DecisionsStay, \A t \in Side : Forward(t), NEW x, Reached(x)
  PROVE  Reached(x)'
<1>1. x \in ExchangeId /\ x \in Nat /\ x # 0 /\ Decided(outcome, x)
  BY ConstantsAssumption DEF Reached, Decided, ExchangeId
<1>2. Decided(outcome', x) /\ outcome[x] # "Aborted"
  BY <1>1 DEF Decided, DecisionsStay
<1>3. ASSUME NEW t \in Side
      PROVE  /\ psk'[t] # 0 => psk'[t] >= x
             /\ disk'[t].confirmed >= x \/ disk'[t].pending.xid = x
  <2>1. /\ disk[t].confirmed \in Nat /\ disk[t].pending.xid \in Nat /\ psk[t] \in Nat
        /\ disk'[t].confirmed \in Nat
    BY Numbers DEF KInv, IInv, TypeOK, Relationship, IdOrNone
  <2>2. /\ psk[t] # 0 => psk[t] >= x
        /\ disk[t].confirmed >= x \/ disk[t].pending.xid = x
    BY DEF Reached
  <2>3. disk[t].pending.xid # 0 => disk[t].pending.xid > disk[t].confirmed
    BY DEF KInv, Progress
  <2>4. Forward(t)
    OBVIOUS
  <2>5. psk'[t] # 0 => psk'[t] >= x
    BY <1>1, <2>1, <2>2, <2>3, <2>4 DEF Forward
  <2>6. disk'[t].confirmed >= x \/ disk'[t].pending.xid = x
    BY <1>1, <1>2, <2>1, <2>2, <2>4 DEF Forward
  <2>. QED  BY <2>5, <2>6
<1>. QED  BY <1>2, <1>3 DEF Reached

\* The invariant without reboots, from what a step leaves of each side.
LEMMA NKept ==
  ASSUME NInv, KInv', DecisionsStay, \A t \in Side : Keeps(t)
  PROVE  NInv'
<1>1. ASSUME NEW x, Reached(x) PROVE Reached(x)'
  BY <1>1, ReachedKept DEF NInv, KInv, IInv, Keeps
<1>2. \A x : Decided(outcome, x) => Decided(outcome', x)
  BY DEF Decided, DecisionsStay
<1>3. Handshakes'
  <2>1. ASSUME NEW t \in Side
        PROVE  /\ hs'[t] \subseteq {psk'[t]}
               /\ hs'[t] # {} /\ psk'[t] # 0 => Reached(psk'[t])
    BY <2>1 DEF Keeps, NInv, Handshakes
  <2>2. ASSUME NEW t \in Side, NEW x \in {psk'[t], disk'[t].pending.xid, mem'[t].pending.xid, disk'[t].confirmed},
               Reached(x)
        PROVE  /\ Decided(outcome', x)
               /\ \A s \in Side : /\ psk'[s] # 0 => psk'[s] >= x
                                  /\ disk'[s].confirmed >= x \/ disk'[s].pending.xid = x
    BY <1>1, <2>2 DEF Reached
  <2>. QED  BY <2>1, <2>2 DEF Handshakes, Keeps, Reached
<1>4. KeysKept' /\ GateOpenOnlyOnKey'
  BY <1>2 DEF KeysKept, GateOpenOnlyOnKey, Keeps
<1>. QED  BY <1>3, <1>4 DEF NInv

\* A side that does not move.
LEMMA SideStays ==
  ASSUME NInv, NEW t \in Side, SameRel(disk'[t], disk[t]), psk'[t] = psk[t], hs'[t] = hs[t],
         gate'[t] = gate[t], pc'[t] = "save" => pc[t] = "save" /\ mem'[t] = mem[t]
  PROVE  Keeps(t)
<1>1. disk[t].confirmed \in Nat
  BY Numbers DEF NInv, KInv, IInv
<1>2. Forward(t)
  BY <1>1 DEF Forward, SameRel
<1>. QED  BY <1>2 DEF Keeps, NInv, Handshakes, KeysKept, GateOpenOnlyOnKey, SameRel

\* Both kernels shake hands only under the same key, and then both have it.
LEMMA HandshakeStep ==
  ASSUME NInv, KInv', Handshake
  PROVE  NInv'
<1>1. /\ UNCHANGED <<record, outcome, disk, mem, pc, psk, gate>>
      /\ \A t \in Side : hs'[t] = {psk[t]}
      /\ psk[Initiator] = psk[Responder]
  BY DEF Handshake, serverVars, clientVars
<1>2. \A x : Reached(x)' <=> Reached(x)
  BY <1>1 DEF Reached
<1>3. ASSUME NEW t \in Side, psk[t] # 0 PROVE Reached(psk[t])
  <2>1. \A s \in Side : psk[s] = psk[t] /\ psk[s] \in Nat
    BY <1>1, Numbers DEF Side, NInv, KInv, IInv
  <2>2. Decided(outcome, psk[t])
    BY <1>3, Numbers DEF NInv, KInv, IInv, InstalledOnlyCommitted, Decided
  <2>3. \A s \in Side : /\ psk[s] \in {disk[s].confirmed, disk[s].pending.xid}
                        /\ disk[s].confirmed \in Nat
    BY <1>3, <2>1, Numbers DEF NInv, KInv, IInv, KernelKeyIsSaved
  <2>. QED  BY <2>1, <2>2, <2>3 DEF Reached
<1>4. Handshakes'
  BY <1>1, <1>2, <1>3 DEF Handshakes, NInv
<1>5. KeysKept' /\ GateOpenOnlyOnKey'
  BY <1>1 DEF KeysKept, GateOpenOnlyOnKey, NInv
<1>. QED  BY <1>4, <1>5 DEF NInv

\* What a side that is about to send holds.
LEMMA SendKeeps ==
  ASSUME NInv, NEW s \in Side, NEW rel \in Relationship, Sends(s, rel),
         \/ psk' = psk /\ hs' = hs
         \/ /\ psk' = [psk EXCEPT ![s] = disk[s].pending.xid] /\ disk[s].pending.xid # 0
            /\ ~disk[s].pending.installed /\ hs' = [hs EXCEPT ![s] = {}] /\ ~gate'[s],
         \A t \in Side : t # s => gate'[t] = gate[t],
         gate'[s] => psk'[s] # 0 /\ hs'[s] = {psk'[s]},
         rel.pending.confirmed => Reached(rel.pending.xid),
         rel.pending.installed => psk'[s] = rel.pending.xid
  PROVE  \A t \in Side : Keeps(t)
<1>1. /\ mem \in [Side -> Relationship] /\ pc \in [Side -> PC] /\ psk \in [Side -> IdOrNone]
      /\ hs \in [Side -> SUBSET IdOrNone] /\ TypeOK
  BY DEF NInv, KInv, IInv, TypeOK
<1>2. /\ disk' = disk /\ mem'[s] = rel
      /\ \A t \in Side : t # s => /\ mem'[t] = mem[t] /\ pc'[t] = pc[t] /\ psk'[t] = psk[t]
                                  /\ hs'[t] = hs[t]
  BY <1>1 DEF Sends
<1>3. ASSUME NEW t \in Side, t # s PROVE Keeps(t)
  BY <1>2, <1>3, SideStays DEF SameRel
<1>4. Keeps(s)
  <2>1. disk[s].confirmed \in Nat /\ psk[s] \in Nat
    BY <1>1, Numbers
  <2>2. Forward(s)
    BY <1>1, <1>2, <2>1 DEF Forward
  <2>3. hs'[s] = {} \/ (hs'[s] = hs[s] /\ psk'[s] = psk[s])
    BY <1>1
  <2>4. /\ disk[s].pending.xid # 0 /\ disk[s].pending.installed => psk'[s] = disk[s].pending.xid
        /\ disk[s].confirmed # 0 /\ psk'[s] = 0 => Decided(outcome, disk[s].pending.xid)
    BY <1>1 DEF NInv, KeysKept
  <2>. QED  BY <1>2, <2>2, <2>3, <2>4 DEF Keeps, NInv, Handshakes
<1>. QED  BY <1>3, <1>4

\* The branches of `reconcile` that send.
LEMMA SendingKeeps ==
  ASSUME NInv, NEW s \in Side,
         \/ StartExchange(s) \/ AnswerProposal(s) \/ Resend(s) \/ SendCommit(s)
         \/ InstallCandidate(s) \/ ConfirmHandshake(s)
  PROVE  \A t \in Side : Keeps(t)
<1>. DEFINE o == Observed(s)
            d == disk[s]
<1>0. TypeOK /\ KInv
  BY DEF NInv, KInv, IInv
<1>1. /\ o \in Pending /\ d \in Relationship /\ d.seq \in Nat
      /\ \A p \in Pending : /\ [d EXCEPT !.pending = p] \in Relationship
                            /\ [d EXCEPT !.pending = p].pending = p
  BY <1>0, ObservedFine DEF Relationship
<1>2. /\ o.xid = d.pending.xid
      /\ o.installed = d.pending.installed /\ o.confirmed = d.pending.confirmed
  BY <1>0, ObserveOK DEF ObservedOK
<1>3. /\ d.pending.xid # 0 /\ d.pending.installed => psk[s] = d.pending.xid
      /\ d.pending.xid # 0 /\ d.pending.confirmed => Reached(d.pending.xid)
      /\ hs[s] \subseteq {psk[s]} /\ (hs[s] # {} /\ psk[s] # 0 => Reached(psk[s]))
      /\ gate[s] => psk[s] # 0 /\ hs[s] = {psk[s]}
  BY DEF NInv, KeysKept, Handshakes, GateOpenOnlyOnKey
<1>4. gate \in [Side -> BOOLEAN] /\ psk \in [Side -> IdOrNone] /\ hs \in [Side -> SUBSET IdOrNone]
  BY <1>0 DEF TypeOK
<1>5. ASSUME NEW rel \in Relationship, Sends(s, rel), psk' = psk, hs' = hs,
             gate' = [gate EXCEPT ![s] = Gated(s)],
             rel.pending.confirmed => Reached(rel.pending.xid),
             rel.pending.installed => psk[s] = rel.pending.xid
      PROVE  \A t \in Side : Keeps(t)
  <2>1. /\ gate'[s] => psk'[s] # 0 /\ hs'[s] = {psk'[s]}
        /\ \A t \in Side : t # s => gate'[t] = gate[t]
    BY <1>3, <1>4, <1>5 DEF Gated
  <2>. QED  BY <1>5, <2>1, SendKeeps
<1>6. CASE StartExchange(s)
  <2>. DEFINE p   == [NoPending EXCEPT !.xid = fresh + 1, !.seq = d.seq]
              rel == [d EXCEPT !.seq = @ + 1, !.pending = p]
  <2>1. fresh + 1 \in IdOrNone /\ d.seq + 1 \in Nat
    BY <1>0, <1>1, <1>6, ConstantsAssumption DEF StartExchange, TypeOK, IdOrNone
  <2>2. p \in Pending /\ ~p.installed /\ ~p.confirmed
    BY <1>1, <2>1, RelationshipType DEF Pending, NoPending
  <2>3. Sends(s, rel) /\ psk' = psk /\ hs' = hs /\ gate' = [gate EXCEPT ![s] = Gated(s)]
    BY <1>6 DEF StartExchange
  <2>. HIDE DEF p
  <2>4. rel \in Relationship /\ rel.pending = p
    BY <1>1, <2>1, <2>2 DEF Relationship
  <2>. HIDE DEF rel
  <2>. QED  BY <1>5, <2>2, <2>3, <2>4
<1>7. CASE AnswerProposal(s)
  <2>. DEFINE e   == Advanced(NewDecision, "Ready", s)
              p   == [NoPending EXCEPT !.xid = view[s].xid, !.seq = view[s].seq,
                                       !.decision = e, !.last = "Ready"]
              rel == [d EXCEPT !.pending = p]
  <2>1. e \in Decision /\ view[s] \in Record
    BY <1>0, DecisionType DEF Kind, TypeOK
  <2>. HIDE DEF e
  <2>2. p \in Pending /\ ~p.installed /\ ~p.confirmed
    BY <2>1, RelationshipType DEF Pending, NoPending, Record, Kind
  <2>3. Sends(s, rel) /\ psk' = psk /\ hs' = hs /\ gate' = [gate EXCEPT ![s] = Gated(s)]
    BY <1>7 DEF AnswerProposal, e
  <2>. HIDE DEF p
  <2>4. rel \in Relationship /\ rel.pending = p
    BY <1>1, <2>2
  <2>. HIDE DEF rel
  <2>. QED  BY <1>5, <2>2, <2>3, <2>4
<1>8. CASE Resend(s)
  <2>. DEFINE rel == [d EXCEPT !.pending = o]
  <2>1. /\ Sends(s, rel) /\ psk' = psk /\ hs' = hs /\ gate' = [gate EXCEPT ![s] = Gated(s)]
        /\ d.pending.xid # 0
    BY <1>8 DEF Resend
  <2>2. rel \in Relationship /\ rel.pending = o
    BY <1>1
  <2>. HIDE DEF rel
  <2>. QED  BY <1>2, <1>3, <1>5, <2>1, <2>2
<1>9. ASSUME NEW k \in {"Commit", "Installed", "Confirmed"}
      PROVE  LET q == [Push(o, k) EXCEPT !.decision = Advanced(@, k, s)] IN
             /\ q \in Pending /\ q.xid = o.xid
             /\ q.installed = o.installed /\ q.confirmed = o.confirmed
  <2>1. k \in Kind
    BY DEF Kind
  <2>2. Push(o, k) \in Pending /\ Push(o, k).xid = o.xid
        /\ Push(o, k).installed = o.installed /\ Push(o, k).confirmed = o.confirmed
    BY <1>1, <2>1 DEF Push, Pending
  <2>3. Advanced(Push(o, k).decision, k, s) \in Decision
    BY <2>1, <2>2, DecisionType DEF Pending
  <2>. QED  BY <2>2, <2>3 DEF Pending
<1>10. CASE SendCommit(s)
  <2>. DEFINE p   == [Push(o, "Commit") EXCEPT !.decision = Advanced(@, "Commit", s)]
              rel == [d EXCEPT !.pending = p]
  <2>1. /\ Sends(s, rel) /\ psk' = psk /\ hs' = hs /\ gate' = [gate EXCEPT ![s] = Gated(s)]
        /\ d.pending.xid # 0
    BY <1>10 DEF SendCommit, Matching
  <2>2. p \in Pending /\ p.xid = o.xid /\ p.installed = o.installed /\ p.confirmed = o.confirmed
    BY <1>9
  <2>. HIDE DEF p
  <2>3. rel \in Relationship /\ rel.pending = p
    BY <1>1, <2>2
  <2>. HIDE DEF rel
  <2>. QED  BY <1>2, <1>3, <1>5, <2>1, <2>2, <2>3
<1>11. CASE InstallCandidate(s)
  <2>. DEFINE q   == Push(o, "Installed")
              p   == [q EXCEPT !.installed = TRUE, !.decision = Advanced(@, "Installed", s)]
              rel == [d EXCEPT !.pending = p]
  <2>1. /\ Sends(s, rel) /\ psk' = [psk EXCEPT ![s] = o.xid] /\ hs' = [hs EXCEPT ![s] = {}]
        /\ gate' = [gate EXCEPT ![s] = FALSE] /\ d.pending.xid # 0 /\ ~o.installed
    BY <1>11 DEF InstallCandidate, Matching
  <2>2. p \in Pending /\ p.xid = o.xid /\ p.confirmed = o.confirmed
    <3>1. /\ q \in Pending /\ q.xid = o.xid /\ q.confirmed = o.confirmed
      BY <1>1 DEF Push, Pending, Kind
    <3>. HIDE DEF q
    <3>2. Advanced(q.decision, "Installed", s) \in Decision
      BY <3>1, DecisionType DEF Pending, Kind
    <3>. QED  BY <3>1, <3>2 DEF Pending
  <2>. HIDE DEF p
  <2>3. rel \in Relationship /\ rel.pending = p
    BY <1>1, <2>2
  <2>. HIDE DEF rel
  <2>4. ~gate'[s] /\ psk'[s] = o.xid /\ \A t \in Side : t # s => gate'[t] = gate[t]
    BY <1>4, <2>1
  <2>. QED  BY <1>2, <1>3, <2>1, <2>2, <2>3, <2>4, SendKeeps
<1>12. CASE ConfirmHandshake(s)
  <2>. DEFINE q   == Push(o, "Confirmed")
              p   == [q EXCEPT !.confirmed = TRUE, !.decision = Advanced(@, "Confirmed", s)]
              rel == [d EXCEPT !.pending = p]
  <2>1. /\ Sends(s, rel) /\ psk' = psk /\ hs' = hs
        /\ gate' = [gate EXCEPT ![s] = TRUE] /\ d.pending.xid # 0 /\ o.installed /\ hs[s] # {}
    BY <1>12 DEF ConfirmHandshake, Matching, HandshakeFresh
  <2>2. p \in Pending /\ p.xid = o.xid
    <3>1. /\ q \in Pending /\ q.xid = o.xid
      BY <1>1 DEF Push, Pending, Kind
    <3>. HIDE DEF q
    <3>2. Advanced(q.decision, "Confirmed", s) \in Decision
      BY <3>1, DecisionType DEF Pending, Kind
    <3>. QED  BY <3>1, <3>2 DEF Pending
  <2>. HIDE DEF p
  <2>3. rel \in Relationship /\ rel.pending = p
    BY <1>1, <2>2
  <2>. HIDE DEF rel
  <2>4. psk[s] = o.xid /\ psk[s] # 0 /\ Reached(psk[s]) /\ hs[s] = {psk[s]}
    BY <1>2, <1>3, <2>1
  <2>5. \A t \in Side : t # s => gate'[t] = gate[t]
    BY <1>4, <2>1
  <2>. QED  BY <2>1, <2>2, <2>3, <2>4, <2>5, SendKeeps
<1>. QED  BY <1>6, <1>7, <1>8, <1>10, <1>11, <1>12

\* What a side that ends its cycle holds.
LEMMA SettleKeeps ==
  ASSUME NInv, NEW s \in Side, NEW rel \in Relationship, Settles(s, rel),
         rel.pending.xid # 0 /\ rel.pending.confirmed => Reached(rel.pending.xid),
         rel.confirmed # 0 => Reached(rel.confirmed),
         rel.pending.xid # 0 /\ rel.pending.installed => psk[s] = rel.pending.xid,
         rel.confirmed # 0 /\ psk[s] = 0 => Decided(outcome, rel.pending.xid),
         rel.confirmed >= disk[s].confirmed,
         disk[s].pending.xid # 0 => \/ rel.pending.xid = disk[s].pending.xid
                                    \/ rel.confirmed >= disk[s].pending.xid
                                    \/ outcome[disk[s].pending.xid] = "Aborted"
  PROVE  \A t \in Side : Keeps(t)
<1>1. /\ disk \in [Side -> Relationship] /\ pc \in [Side -> PC]
      /\ gate \in [Side -> BOOLEAN] /\ TypeOK
  BY DEF NInv, KInv, IInv, TypeOK
<1>2. /\ mem' = mem /\ psk' = psk /\ hs' = hs /\ pc'[s] = "idle"
      /\ \A t \in Side : t # s => disk'[t] = disk[t] /\ gate'[t] = gate[t] /\ pc'[t] = pc[t]
      /\ disk'[s] \in {rel, disk[s]}
      /\ gate'[s] = (Gated(s) \/ (rel.pending.xid = 0 /\ rel.confirmed # 0 /\ HandshakeFresh(s)))
  BY <1>1 DEF Settles
<1>3. ASSUME NEW t \in Side, t # s PROVE Keeps(t)
  BY <1>2, <1>3, SideStays DEF SameRel
<1>4. Keeps(s)
  <2>1. disk[s].confirmed \in Nat
    BY <1>1, Numbers
  <2>2. Forward(s)
    BY <1>2, <2>1 DEF Forward
  <2>3. gate'[s] => psk[s] # 0 /\ hs[s] = {psk[s]}
    <3>1. CASE Gated(s)
      BY <3>1 DEF Gated, NInv, GateOpenOnlyOnKey
    <3>2. CASE rel.pending.xid = 0 /\ rel.confirmed # 0 /\ HandshakeFresh(s)
      <4>1. ~Decided(outcome, 0)
        BY ConstantsAssumption DEF Decided, ExchangeId
      <4>2. psk[s] # 0
        BY <3>2, <4>1
      <4>. QED  BY <3>2, <4>2 DEF HandshakeFresh, NInv, Handshakes
    <3>. QED  BY <1>2, <3>1, <3>2
  <2>4. /\ disk[s].pending.xid # 0 /\ disk[s].pending.confirmed => Reached(disk[s].pending.xid)
        /\ disk[s].confirmed # 0 => Reached(disk[s].confirmed)
        /\ disk[s].pending.xid # 0 /\ disk[s].pending.installed => psk[s] = disk[s].pending.xid
        /\ disk[s].confirmed # 0 /\ psk[s] = 0 => Decided(outcome, disk[s].pending.xid)
    BY DEF NInv, Handshakes, KeysKept
  <2>5. CASE disk'[s] = rel
    BY <1>2, <2>2, <2>3, <2>5 DEF Keeps
  <2>6. CASE disk'[s] = disk[s]
    BY <1>2, <2>2, <2>3, <2>4, <2>6 DEF Keeps
  <2>. QED  BY <1>2, <2>5, <2>6
<1>. QED  BY <1>3, <1>4

\* The branches of `reconcile` that send nothing.
LEMMA SettlingKeeps ==
  ASSUME NInv, NEW s \in Side,
         NothingPending(s) \/ DropAborted(s) \/ FinishExchange(s) \/ Wait(s)
  PROVE  \A t \in Side : Keeps(t)
<1>. DEFINE o == Observed(s)
            d == disk[s]
<1>0. TypeOK /\ KInv
  BY DEF NInv, KInv, IInv
<1>1. /\ o \in Pending /\ d \in Relationship /\ d.confirmed \in Nat /\ NoPending \in Pending
      /\ d.pending.xid \in Nat
      /\ \A p \in Pending : /\ [d EXCEPT !.pending = p] \in Relationship
                            /\ [d EXCEPT !.pending = p].pending = p
                            /\ [d EXCEPT !.pending = p].confirmed = d.confirmed
  BY <1>0, ObservedFine, Numbers, RelationshipType
<1>2. /\ o.xid = d.pending.xid /\ Dead(outcome, o.xid, o.decision)
      /\ o.installed = d.pending.installed /\ o.confirmed = d.pending.confirmed
  BY <1>0, ObserveOK DEF ObservedOK
<1>3. /\ d.pending.xid # 0 /\ d.pending.confirmed => Reached(d.pending.xid)
      /\ d.confirmed # 0 => Reached(d.confirmed)
      /\ d.pending.xid # 0 /\ d.pending.installed => psk[s] = d.pending.xid
      /\ d.confirmed # 0 /\ psk[s] = 0 => Decided(outcome, d.pending.xid)
  BY DEF NInv, Handshakes, KeysKept
<1>4. NoPending.xid = 0
  BY DEF NoPending
<1>5. CASE NothingPending(s)
  <2>1. Settles(s, d)
    BY <1>5 DEF NothingPending
  <2>. QED  BY <1>1, <1>3, <2>1, SettleKeeps
<1>6. CASE DropAborted(s)
  <2>. DEFINE rel == [d EXCEPT !.pending = NoPending]
  <2>1. rel \in Relationship /\ rel.pending = NoPending /\ rel.confirmed = d.confirmed
    BY <1>1
  <2>2. Settles(s, rel) /\ d.pending.xid # 0 /\ o.decision.phase = "Aborted"
    BY <1>6 DEF DropAborted, Matching
  <2>3. outcome[d.pending.xid] = "Aborted"
    BY <1>2, <2>2 DEF Dead
  <2>4. ~Decided(outcome, d.pending.xid)
    BY <2>3 DEF Decided
  <2>. HIDE DEF rel
  <2>. QED  BY <1>1, <1>3, <1>4, <2>1, <2>2, <2>3, <2>4, SettleKeeps
<1>7. CASE FinishExchange(s)
  <2>. DEFINE x   == d.pending.xid
              rel == [d EXCEPT !.confirmed = d.pending.xid, !.pending = NoPending]
  <2>1. rel \in Relationship /\ rel.pending = NoPending /\ rel.confirmed = x
    BY <1>1, <1>0, Numbers DEF Relationship
  <2>2. Settles(s, rel) /\ x # 0 /\ Matching(s, "Complete")
    BY <1>7 DEF FinishExchange, Matching
  <2>3. Agreed(disk, outcome, x)
    BY <1>0, <2>2, CompleteIsAgreed
  <2>4. d.pending.confirmed /\ d.pending.installed /\ x > d.confirmed
    <3>1. HasConfirmed(disk, s, x)
      BY <2>3 DEF Agreed
    <3>2. d.pending.confirmed
      BY <1>0, <2>2, <3>1, OwnClaims
    <3>. QED  BY <1>0, <2>2, <3>2 DEF KInv, Shapes, OwnOK, Progress
  <2>5. Reached(x) /\ psk[s] = x
    BY <1>3, <2>2, <2>4
  <2>. HIDE DEF rel
  <2>6. rel.confirmed >= d.confirmed /\ rel.confirmed >= x
    BY <1>1, <2>1, <2>4
  <2>. QED  BY <1>4, <2>1, <2>2, <2>5, <2>6, SettleKeeps
<1>8. CASE Wait(s)
  <2>. DEFINE rel == [d EXCEPT !.pending = o]
  <2>1. Settles(s, rel)
    BY <1>8 DEF Wait
  <2>2. rel \in Relationship /\ rel.pending = o /\ rel.confirmed = d.confirmed
    BY <1>1
  <2>. HIDE DEF rel, o
  <2>. QED  BY <1>1, <1>2, <1>3, <2>1, <2>2, SettleKeeps
<1>. QED  BY <1>5, <1>6, <1>7, <1>8

\* An install that fails leaves the old key or none, with the next one decided.
LEMMA FailedKeeps ==
  ASSUME NInv, NEW s \in Side, InstallFails(s)
  PROVE  \A t \in Side : Keeps(t)
<1>. DEFINE o == Observed(s)
            d == disk[s]
<1>0. TypeOK /\ KInv
  BY DEF NInv, KInv, IInv
<1>1. /\ o \in Pending /\ d \in Relationship /\ d.confirmed \in Nat /\ psk[s] \in Nat
      /\ [d EXCEPT !.pending = o].pending = o
      /\ [d EXCEPT !.pending = o].confirmed = d.confirmed
  BY <1>0, ObservedFine, Numbers DEF IdOrNone
<1>2. /\ o.xid = d.pending.xid
      /\ o.installed = d.pending.installed /\ o.confirmed = d.pending.confirmed
  BY <1>0, ObserveOK DEF ObservedOK
<1>3. /\ disk \in [Side -> Relationship] /\ pc \in [Side -> PC] /\ psk \in [Side -> IdOrNone]
      /\ gate \in [Side -> BOOLEAN] /\ hs \in [Side -> SUBSET IdOrNone]
  BY <1>0 DEF TypeOK
<1>4. /\ mem' = mem /\ pc'[s] = "idle" /\ ~gate'[s]
      /\ \/ psk' = psk /\ hs' = hs
         \/ psk' = [psk EXCEPT ![s] = 0] /\ hs' = [hs EXCEPT ![s] = {}]
      /\ \A t \in Side : t # s => /\ disk'[t] = disk[t] /\ gate'[t] = gate[t] /\ pc'[t] = pc[t]
                                  /\ psk'[t] = psk[t] /\ hs'[t] = hs[t]
      /\ disk'[s] = d \/ disk'[s] = [d EXCEPT !.pending = o]
      /\ ~o.installed /\ MayInstall(s) /\ o.decision.phase = "Committed" /\ d.pending.xid # 0
  BY <1>3 DEF InstallFails, Matching
<1>5. ASSUME NEW t \in Side, t # s PROVE Keeps(t)
  BY <1>4, <1>5, SideStays DEF SameRel
<1>6. Decided(outcome, d.pending.xid)
  BY <1>0, <1>2, <1>4, ObservedEvidence
     DEF KInv, PendingEvidence, DecisionShows, MayInstall
<1>7. /\ disk'[s].pending.xid = d.pending.xid /\ disk'[s].confirmed = d.confirmed
      /\ disk'[s].pending.installed = d.pending.installed
      /\ disk'[s].pending.confirmed = d.pending.confirmed
  <2>1. CASE disk'[s] = d
    BY <2>1
  <2>2. CASE disk'[s] = [d EXCEPT !.pending = o]
    BY <1>1, <1>2, <2>2
  <2>. QED  BY <1>4, <2>1, <2>2
<1>8. Forward(s)
  BY <1>1, <1>3, <1>4, <1>7 DEF Forward
<1>9. hs'[s] = {} \/ (hs'[s] = hs[s] /\ psk'[s] = psk[s])
  BY <1>3, <1>4
<1>10. Keeps(s)
  BY <1>2, <1>4, <1>6, <1>7, <1>8, <1>9 DEF Keeps, NInv, Handshakes, KeysKept
<1>. QED  BY <1>5, <1>10

\* The save.
LEMMA SavingKeeps ==
  ASSUME NInv, NEW s \in Side, Save(s)
  PROVE  \A t \in Side : Keeps(t)
<1>. DEFINE d == disk[s]
            m == mem[s]
<1>0. TypeOK /\ KInv
  BY DEF NInv, KInv, IInv
<1>1. disk \in [Side -> Relationship] /\ mem \in [Side -> Relationship] /\ pc \in [Side -> PC]
  BY <1>0 DEF TypeOK
<1>2. /\ UNCHANGED <<psk, hs, gate>> /\ disk'[s] = m /\ pc'[s] = "send" /\ pc[s] = "save"
      /\ \A t \in Side : t # s => disk'[t] = disk[t] /\ mem'[t] = mem[t] /\ pc'[t] = pc[t]
  BY <1>1 DEF Save, kernelVars
<1>3. /\ m.confirmed = d.confirmed /\ d.confirmed \in Nat
      /\ m.pending.xid = d.pending.xid \/ d.pending.xid = 0
  BY <1>0, <1>2, Numbers DEF KInv, Progress, MovesOn
<1>4. ~Decided(outcome, 0)
  BY ConstantsAssumption DEF Decided, ExchangeId
<1>5. ASSUME NEW t \in Side, t # s PROVE Keeps(t)
  BY <1>2, <1>5, SideStays DEF SameRel
<1>6. Forward(s)
  BY <1>2, <1>3 DEF Forward
<1>7. Keeps(s)
  BY <1>2, <1>3, <1>4, <1>6 DEF Keeps, NInv, Handshakes, KeysKept, GateOpenOnlyOnKey
<1>. QED  BY <1>5, <1>7

\* The steps that leave the kernels and the disks alone.
LEMMA StillKeeps ==
  ASSUME NInv,
         \/ Lapse \/ SweepRow \/ DeliverLate \/ CalmDown \/ UNCHANGED vars
         \/ \E s \in Side : Fetch(s) \/ Put(s) \/ PutLost(s) \/ BackoffElapses(s) \/ Crash(s)
  PROVE  \A t \in Side : Keeps(t)
<1>0. TypeOK
  BY DEF NInv, KInv, IInv
<1>1. disk \in [Side -> Relationship] /\ mem \in [Side -> Relationship] /\ pc \in [Side -> PC]
  BY <1>0 DEF TypeOK
<1>2. \A r : SameRel(r, r)
  BY DEF SameRel
<1>3. ASSUME NEW s \in Side, NEW b \in BOOLEAN, disk' = [disk EXCEPT ![s].pending.backoff = b]
      PROVE  \A t \in Side : SameRel(disk'[t], disk[t])
  <2>1. disk[s] \in Relationship /\ disk[s].pending \in Pending
    BY <1>0, ObservedType
  <2>2. disk'[s] = [disk[s] EXCEPT !.pending = [@ EXCEPT !.backoff = b]]
    BY <1>1, <1>3
  <2>3. SameRel(disk'[s], disk[s])
    BY <2>1, <2>2 DEF SameRel, Relationship, Pending
  <2>. QED  BY <1>1, <1>2, <1>3, <2>3
<1>4. CASE Lapse \/ SweepRow \/ DeliverLate \/ CalmDown \/ UNCHANGED vars
  <2>1. UNCHANGED <<disk, mem, pc, psk, hs, gate>>
    BY <1>4 DEF Lapse, SweepRow, DeliverLate, CalmDown, vars, clientVars, kernelVars
  <2>. QED  BY <1>2, <2>1, SideStays
<1>5. ASSUME NEW s \in Side, Fetch(s) \/ Crash(s) PROVE \A t \in Side : Keeps(t)
  <2>1. /\ UNCHANGED <<disk, psk, hs, gate>>
        /\ mem' = mem \/ mem' = [mem EXCEPT ![s] = NewRelationship]
        /\ pc' = [pc EXCEPT ![s] = "fetched"] \/ pc' = [pc EXCEPT ![s] = "idle"]
    BY <1>5 DEF Fetch, Crash, kernelVars
  <2>2. \A t \in Side : pc'[t] = "save" => pc[t] = "save" /\ mem'[t] = mem[t]
    BY <1>1, <2>1
  <2>. QED  BY <1>2, <2>1, <2>2, SideStays
<1>6. ASSUME NEW s \in Side, Put(s) \/ PutLost(s) \/ BackoffElapses(s) PROVE \A t \in Side : Keeps(t)
  <2>1. /\ UNCHANGED <<mem, psk, hs, gate>>
        /\ pc' = pc \/ pc' = [pc EXCEPT ![s] = "idle"]
        /\ \/ disk' = disk
           \/ \E b \in BOOLEAN : disk' = [disk EXCEPT ![s].pending.backoff = b]
    BY <1>6 DEF Put, PutLost, BackoffElapses, NoteSendFailure, kernelVars
  <2>2. \A t \in Side : pc'[t] = "save" => pc[t] = "save" /\ mem'[t] = mem[t]
    BY <1>1, <2>1
  <2>3. \A t \in Side : SameRel(disk'[t], disk[t])
    BY <1>2, <1>3, <2>1
  <2>. QED  BY <2>1, <2>2, <2>3, SideStays
<1>. QED  BY <1>4, <1>5, <1>6

\* One step per action.
LEMMA NStep ==
  ASSUME Reboots = FALSE, NInv, [Next]_vars
  PROVE  NInv'
<1>1. KInv' /\ DecisionsStay
  BY KStep, StepInv DEF NInv, KInv
<1>2. CASE Handshake
  BY <1>1, <1>2, HandshakeStep
<1>3. CASE \A t \in Side : Keeps(t)
  BY <1>1, <1>3, NKept
<1>4. \A s \in Side : ~Reboot(s)
  BY DEF Reboot
<1>. QED
  BY <1>2, <1>3, <1>4, SendingKeeps, SettlingKeeps, FailedKeeps, SavingKeeps, StillKeeps
     DEF Next, Cycle, Fault, Reconcile

\* Without reboots a side that has installed a key runs it.
THEOREM KeptInductive ==
  ASSUME Reboots = FALSE
  PROVE  Spec => []NInv
<1>1. Init /\ KInv => NInv
  <2>. SUFFICES ASSUME Init, KInv PROVE NInv
    OBVIOUS
  <2>1. /\ NewRelationship.confirmed = 0 /\ NewRelationship.pending.xid = 0
        /\ \A s \in Side : /\ disk[s] = NewRelationship /\ hs[s] = {} /\ ~gate[s] /\ pc[s] = "idle"
    BY DEF Init, NewRelationship, NoPending
  <2>2. Handshakes /\ KeysKept /\ GateOpenOnlyOnKey
    BY <2>1 DEF Handshakes, KeysKept, GateOpenOnlyOnKey
  <2>. QED  BY <2>2 DEF NInv
<1>2. NInv /\ [Next]_vars => NInv'
  BY NStep
<1>. QED  BY <1>1, <1>2, KeysInductive, PTL DEF Spec

\* The gate lets traffic through only on a link that runs a PQ key under which
\* its kernel has shaken hands.
THEOREM GateNeedsKey ==
  ASSUME Reboots = FALSE
  PROVE  Spec => []GateOpenOnlyOnKey
<1>1. NInv => GateOpenOnlyOnKey
  BY DEF NInv
<1>. QED  BY <1>1, KeptInductive, PTL

\* A row that nobody has written to is the empty one.
EmptyRow == record.xid = 0 => record = NoRecord

\* A row without an exchange has its first shape.
LEMMA EmptyRowStep ==
  ASSUME TInv, EmptyRow, [Next]_vars
  PROVE  EmptyRow'
<1>1. /\ NoRecord.xid = 0 /\ ~NoRecord.lapsed
      /\ Sweep(NoRecord) = NoRecord
  BY DEF NoRecord, Sweep
<1>2. record \in Record
  BY DEF TInv, TypeOK
<1>. DEFINE p == Sweep(record)
<1>3. p.xid = 0 => p = NoRecord
  <2>1. p.xid = record.xid
    BY <1>2, SweepKeeps DEF Kept
  <2>. QED  BY <1>1, <2>1 DEF EmptyRow
<1>. HIDE DEF p
<1>4. ASSUME NEW m \in Message, record' = Submit(p, m) PROVE EmptyRow'
  <2>0. m.xid # 0
    BY ConstantsAssumption DEF Message, ExchangeId
  <2>1. CASE p.xid = 0
    <3>1. ~Advances(p, m)
      BY <2>1 DEF Advances, SameExchange
    <3>. QED  BY <1>3, <1>4, <2>0, <2>1, <3>1 DEF Submit, EmptyRow
  <2>2. CASE p.xid # 0
    <3>1. p \in Record
      BY <1>2, RowType DEF p
    <3>2. Submit(p, m).xid \in {p.xid, m.xid}
      BY <3>1, SubmitMoves
    <3>. QED  BY <1>4, <2>0, <2>2, <3>2 DEF EmptyRow
  <2>. QED  BY <2>1, <2>2
<1>5. ASSUME record' = p PROVE EmptyRow'
  BY <1>3, <1>5 DEF EmptyRow
<1>6. ASSUME record' = record PROVE EmptyRow'
  BY <1>6 DEF EmptyRow
<1>7. CASE Lapse
  <2>1. record.xid # 0 /\ record' = [record EXCEPT !.lapsed = TRUE]
    BY <1>7 DEF Lapse
  <2>. QED  BY <1>2, <2>1 DEF EmptyRow, Record
<1>8. CASE SweepRow \/ \E s \in Side : Fetch(s)
  BY <1>5, <1>8 DEF SweepRow, Fetch, Write, p
<1>9. CASE DeliverLate
  BY <1>4, <1>9 DEF DeliverLate, Write, p, TInv, TypeOK
<1>10. ASSUME NEW s \in Side, Put(s) PROVE EmptyRow'
  BY <1>4, <1>10, OutgoingType DEF Put, Write, p
<1>11. CASE Handshake \/ CalmDown \/ UNCHANGED vars
  BY <1>6, <1>11 DEF Handshake, CalmDown, vars, serverVars
<1>12. ASSUME NEW s \in Side, Reconcile(s) PROVE EmptyRow'
  BY <1>6, <1>12 DEF Reconcile, StartExchange, AnswerProposal, NothingPending, Resend,
                     DropAborted, SendCommit, InstallCandidate, ConfirmHandshake,
                     FinishExchange, Wait, Sends, Settles, serverVars
<1>13. ASSUME NEW s \in Side, Save(s) \/ Fault(s) \/ BackoffElapses(s) PROVE EmptyRow'
  BY <1>6, <1>13 DEF Save, Fault, InstallFails, PutLost, Crash, Reboot, BackoffElapses, serverVars
<1>. QED
  BY <1>7, <1>8, <1>9, <1>10, <1>11, <1>12, <1>13 DEF Next, Cycle

\* A confirmation in the row speaks of a key that both kernels have reached.
THEOREM ConfirmedIsShared ==
  ASSUME Reboots = FALSE
  PROVE  Spec => []ConfirmationMeansSharedKey
<1>1. Init => EmptyRow
  BY DEF Init, EmptyRow
<1>2. IInv /\ EmptyRow /\ [Next]_vars => EmptyRow'
  BY EmptyRowStep DEF IInv, TInv
<1>3. NInv /\ EmptyRow => ConfirmationMeansSharedKey
  <2>. SUFFICES ASSUME NInv, EmptyRow, NEW c \in record.decision.confirmed
                PROVE  \A s \in Side : /\ psk[s] # 0 => psk[s] >= record.xid
                                       /\ s \in record.decision.confirmed => psk[s] # 0
    BY DEF ConfirmationMeansSharedKey
  <2>. DEFINE x == record.xid
  <2>1. x \in ExchangeId /\ x \in Nat /\ x # 0
    <3>1. x # 0
      BY DEF EmptyRow, NoRecord, NewDecision
    <3>. QED  BY <3>1, ConstantsAssumption DEF NInv, KInv, IInv, TypeOK, Record, IdOrNone, ExchangeId
  <2>2. ASSUME NEW s \in Side, disk[s].confirmed >= x PROVE disk[s].confirmed = x
    <3>1. disk[s].confirmed \in IdOrNone /\ disk[s].confirmed \in Nat /\ disk[s].confirmed # 0
      BY <2>1, <2>2, Numbers DEF NInv, KInv, IInv
    <3>2. disk[s].confirmed <= x
      BY <3>1 DEF NInv, KInv, IInv, ConfirmedIsAgreed, Agreed, Decided, RowIsLatest
    <3>. QED  BY <2>1, <2>2, <3>1, <3>2
  <2>3. ASSUME NEW s \in Side, s \in record.decision.confirmed
        PROVE  Reached(x) /\ psk[s] # 0
    <3>1. HasConfirmed(disk, s, x)
      BY <2>1, <2>3 DEF NInv, KInv, Claims, Backed
    <3>2. CASE disk[s].pending.xid = x /\ disk[s].pending.confirmed
      <4>1. disk[s].pending.installed
        BY <2>1, <3>2 DEF NInv, KInv, Shapes, OwnOK
      <4>. QED  BY <2>1, <3>2, <4>1 DEF NInv, Handshakes, KeysKept
    <3>3. CASE disk[s].confirmed >= x
      <4>1. disk[s].confirmed = x
        BY <2>2, <3>3
      <4>2. ASSUME psk[s] = 0 PROVE FALSE
        <5>1. Decided(outcome, disk[s].pending.xid)
          BY <2>1, <4>1, <4>2 DEF NInv, KeysKept
        <5>2. disk[s].pending.xid \in Nat /\ disk[s].pending.xid <= x /\ disk[s].pending.xid # 0
          BY <5>1, ConstantsAssumption DEF Decided, NInv, KInv, IInv, RowIsLatest, ExchangeId
        <5>3. disk[s].pending.xid > x
          BY <4>1, <5>2 DEF NInv, KInv, Progress
        <5>. QED  BY <2>1, <5>2, <5>3
      <4>. QED  BY <2>1, <4>1, <4>2 DEF NInv, Handshakes
    <3>. QED  BY <3>1, <3>2, <3>3 DEF HasConfirmed
  <2>4. Reached(x)
    <3>1. record.decision.confirmed \subseteq Side
      BY DEF NInv, KInv, IInv, TypeOK, Record, Decision
    <3>. QED  BY <2>3, <3>1
  <2>. QED  BY <2>3, <2>4 DEF Reached
<1>. QED  BY <1>1, <1>2, <1>3, Inductive, KeptInductive, PTL DEF Spec

-----------------------------------------------------------------------------
(* PqExchange implements PqAgreement *)

\* The abstract state, as the refinement mapping reads it.
Fates == [x \in ExchangeId |-> Fate(x)]
Dones == [s \in Side |-> disk[s].confirmed]

\* The steps of PqAgreement: none of its variables changes,
LEMMA AgreementStays ==
  ASSUME UNCHANGED <<Fates, psk, Dones>>
  PROVE  UNCHANGED Agreement!vars
BY DEF Agreement!vars, Fates, Dones

\* an exchange opens,
LEMMA AgreementOpens ==
  ASSUME NEW x \in ExchangeId, UNCHANGED <<psk, Dones>>, Fates[x] = "None",
         \A y \in ExchangeId : Fates[y] \in {"None", "Complete", "Aborted"},
         Fates' = [Fates EXCEPT ![x] = "Open"]
  PROVE  Agreement!Next
<1>1. Agreement!Open(x)
  BY DEF Agreement!Open, Agreement!Exchange, ExchangeId, Fates, Dones
<1>. QED  BY <1>1 DEF Agreement!Next, Agreement!Exchange, ExchangeId

\* it is aborted or committed,
LEMMA AgreementDecides ==
  ASSUME NEW x \in ExchangeId, UNCHANGED <<psk, Dones>>, Fates[x] = "Open",
         \/ Fates' = [Fates EXCEPT ![x] = "Aborted"]
         \/ Fates' = [Fates EXCEPT ![x] = "Committed"]
  PROVE  Agreement!Next
<1>1. Agreement!Abort(x) \/ Agreement!Commit(x)
  BY DEF Agreement!Abort, Agreement!Commit, Fates, Dones
<1>. QED  BY <1>1 DEF Agreement!Next, Agreement!Exchange, ExchangeId

\* it completes,
LEMMA AgreementCompletes ==
  ASSUME NEW x \in ExchangeId, UNCHANGED <<psk, Dones>>, Fates[x] = "Committed",
         \A s \in Side : psk[s] = x, Fates' = [Fates EXCEPT ![x] = "Complete"]
  PROVE  Agreement!Next
<1>1. Agreement!Complete(x)
  BY DEF Agreement!Complete, Fates, Dones, Agreement!Side, Side, Agreement!Initiator, Initiator,
         Agreement!Responder, Responder
<1>. QED  BY <1>1 DEF Agreement!Next, Agreement!Exchange, ExchangeId

\* a kernel takes its key or loses its peer,
LEMMA AgreementInstalls ==
  ASSUME NEW x \in ExchangeId, NEW s \in Side, UNCHANGED <<Fates, Dones>>, Fates[x] = "Committed",
         \/ psk' = [psk EXCEPT ![s] = x] /\ (s = Initiator => psk[Responder] = x)
         \/ psk' = [psk EXCEPT ![s] = 0]
  PROVE  Agreement!Next
<1>1. Agreement!Install(s, x) \/ Agreement!Lose(s)
  BY DEF Agreement!Install, Agreement!Lose, Agreement!Exchange, ExchangeId, Fates, Dones,
         Agreement!Initiator, Initiator, Agreement!Responder, Responder
<1>. QED  BY <1>1 DEF Agreement!Next, Agreement!Exchange, ExchangeId, Agreement!Side, Side,
                      Agreement!Initiator, Initiator, Agreement!Responder, Responder

\* a side is done with it.
LEMMA AgreementLearns ==
  ASSUME NEW x \in ExchangeId, NEW s \in Side, UNCHANGED <<Fates, psk>>,
         Fates[x] = "Complete" \/ (Fates[x] = "Committed" /\ \A t \in Side : psk[t] = x),
         Dones[s] < x, Dones' = [Dones EXCEPT ![s] = x]
  PROVE  Agreement!Next
<1>1. Agreement!Learn(s, x)
  BY DEF Agreement!Learn, Fates, Dones, Agreement!Side, Side, Agreement!Initiator, Initiator,
         Agreement!Responder, Responder
<1>. QED  BY <1>1 DEF Agreement!Next, Agreement!Exchange, ExchangeId, Agreement!Side, Side,
                      Agreement!Initiator, Initiator, Agreement!Responder, Responder

\* The exchange that side s is about to install is committed, and no more.
LEMMA InstallsCommitted ==
  ASSUME NInv, NEW s \in Side, Matching(s, "Committed"), ~Observed(s).installed, MayInstall(s)
  PROVE  /\ disk[s].pending.xid \in ExchangeId /\ outcome[disk[s].pending.xid] = "Committed"
         /\ s = Initiator => psk[Responder] = disk[s].pending.xid
<1>. DEFINE x == disk[s].pending.xid
<1>0. KInv /\ TypeOK
  BY DEF NInv, KInv, IInv
<1>1. /\ Observed(s).xid = x /\ x # 0 /\ ~disk[s].pending.installed
      /\ Observed(s).decision.phase = "Committed"
      /\ Backed(disk, x, Observed(s).decision, {Peer(s)})
  BY <1>0, ObserveOK DEF ObservedOK, Matching
<1>2. Decided(outcome, x)
  BY <1>0, <1>1, ObservedEvidence DEF KInv, PendingEvidence, DecisionShows, MayInstall
<1>3. OwnOK(disk[s].pending, s)
  BY <1>0 DEF KInv, Shapes
<1>4. outcome[x] # "Complete"
  <2>1. ASSUME outcome[x] = "Complete" PROVE FALSE
    <3>1. HasConfirmed(disk, s, x)
      BY <1>0, <1>2, <2>1 DEF KInv, Claims, Decided
    <3>. QED  BY <1>0, <1>1, <1>3, <3>1, OwnClaims DEF OwnOK
  <2>. QED  BY <2>1
<1>5. ASSUME s = Initiator PROVE psk[Responder] = x
  <2>0. Responder \in Side /\ Responder = Peer(s) /\ Initiator # Responder
    BY <1>5 DEF Side, Peer, Initiator, Responder
  <2>1. HasInstalled(disk, Responder, x)
    BY <1>1, <1>5, <2>0 DEF Backed, MayInstall
  <2>. DEFINE c == disk[Responder].confirmed
  <2>2. ASSUME c >= x PROVE FALSE
    <3>1. c \in Nat /\ x \in Nat /\ c # 0 /\ c \in ExchangeId /\ disk[s].confirmed \in Nat
      BY <1>0, <1>1, <2>0, <2>2, Numbers
    <3>2. Agreed(disk, outcome, c)
      BY <1>0, <2>0, <3>1 DEF KInv, ConfirmedIsAgreed
    <3>3. HasConfirmed(disk, s, c)
      BY <3>2 DEF Agreed
    <3>4. x > disk[s].confirmed
      BY <1>0, <1>1 DEF KInv, Progress
    <3>5. ~disk[s].pending.confirmed
      BY <1>1, <1>3 DEF OwnOK
    <3>. QED  BY <2>2, <3>1, <3>3, <3>4, <3>5 DEF HasConfirmed
  <2>3. disk[Responder].pending.xid = x /\ disk[Responder].pending.installed
    BY <2>1, <2>2 DEF HasInstalled
  <2>. QED  BY <1>1, <2>0, <2>3 DEF NInv, KeysKept
<1>. QED  BY <1>2, <1>4, <1>5 DEF Decided

\* Both kernels run the key of the row's exchange once both sides have
\* confirmed it: neither can have gone on to another one.
LEMMA BothRun ==
  ASSUME NInv, NEW x \in ExchangeId, x = record.xid, \A s \in Side : HasConfirmed(disk, s, x)
  PROVE  Decided(outcome, x) /\ \A s \in Side : psk[s] = x
<1>0. KInv /\ TypeOK /\ x # 0 /\ x \in Nat
  BY ConstantsAssumption DEF NInv, KInv, IInv, ExchangeId
<1>1. ASSUME NEW s \in Side PROVE Decided(outcome, x) /\ psk[s] = x
  <2>. DEFINE c == disk[s].confirmed
              p == disk[s].pending.xid
  <2>1. c \in Nat /\ p \in Nat /\ psk[s] \in Nat /\ (c # 0 => c \in ExchangeId)
    BY <1>0, <1>1, Numbers
  <2>2. \A y : Decided(outcome, y) => y <= x
    BY <1>0 DEF Decided, KInv, IInv, RowIsLatest
  <2>3. CASE p = x /\ disk[s].pending.confirmed
    <3>1. disk[s].pending.installed
      BY <1>0, <2>3 DEF KInv, Shapes, OwnOK
    <3>. QED  BY <1>0, <1>1, <2>3, <3>1 DEF NInv, KeysKept, KInv, Truth
  <2>4. CASE c >= x
    <3>1. c # 0 /\ Decided(outcome, c)
      BY <1>0, <2>1, <2>4 DEF KInv, ConfirmedIsAgreed, Agreed
    <3>2. c = x
      BY <1>0, <2>1, <2>2, <2>4, <3>1
    <3>3. p # 0 => p > x
      BY <1>0, <3>2 DEF KInv, Progress
    <3>4. ~Decided(outcome, p)
      BY <1>0, <2>1, <2>2, <3>3, ConstantsAssumption DEF Decided, ExchangeId
    <3>5. psk[s] # 0
      BY <3>1, <3>4 DEF NInv, KeysKept
    <3>6. psk[s] \in {c, p} /\ outcome[psk[s]] \in {"Committed", "Complete"}
      BY <1>0, <3>5 DEF KInv, KernelKeyIsSaved, IInv, InstalledOnlyCommitted
    <3>7. Decided(outcome, psk[s])
      BY <1>0, <3>5, <3>6, Numbers DEF Decided
    <3>. QED  BY <3>1, <3>2, <3>4, <3>6, <3>7
  <2>. QED  BY <1>1, <2>3, <2>4 DEF HasConfirmed
<1>2. Initiator \in Side
  BY DEF Side
<1>. QED  BY <1>1, <1>2

\* A transaction is at most one step of the agreement.
LEMMA TransactionAgrees ==
  ASSUME NInv, NEW q \in Record, Write(q), Moved(q), RowFine(record, q), UNCHANGED <<psk, Dones>>
  PROVE  Agreement!Next \/ UNCHANGED Agreement!vars
<1>. DEFINE x == q.xid
<1>0. KInv /\ IInv /\ TypeOK
  BY DEF NInv, KInv, IInv
<1>1. record' = q /\ \A y \in ExchangeId :
                       outcome'[y] = IF y = x THEN q.decision.phase ELSE outcome[y]
  BY DEF Write
<1>2. /\ DecisionsStay
      /\ \A y \in ExchangeId : outcome'[y] \in {"None", "Complete", "Aborted"} \/ y = record'.xid
  BY <1>0, WriteStep
<1>3. CASE x \notin ExchangeId
  <2>1. \A y \in ExchangeId : outcome'[y] = outcome[y]
    BY <1>1, <1>3
  <2>2. Fates' = Fates
    BY <2>1 DEF Fates, Fate
  <2>. QED  BY <2>2, AgreementStays
<1>4. CASE x \in ExchangeId
  <2>1. x \in Nat /\ x # 0 /\ q.decision.phase \in Phase /\ outcome'[x] = q.decision.phase
    BY <1>1, <1>4, ConstantsAssumption DEF ExchangeId, Record, Decision
  <2>2. ASSUME NEW v, Fate(x)' = v PROVE Fates' = [Fates EXCEPT ![x] = v]
    BY <1>1, <1>4, <2>2 DEF Fates, Fate
  <2>3. ASSUME Fate(x)' = Fate(x) PROVE UNCHANGED Agreement!vars
    <3>1. Fates' = Fates
      BY <1>1, <1>4, <2>3 DEF Fates, Fate
    <3>. QED  BY <3>1, AgreementStays
  <2>4. CASE Kept(record, q)
    <3>1. /\ x = record.xid /\ outcome[x] = record.decision.phase /\ record.decision.phase \in Phase
          /\ record.decision.phase = "Committed" => q.decision.phase \in {"Committed", "Complete"}
          /\ Terminal(record.decision) => q.decision.phase = record.decision.phase
      BY <1>0, <2>1, <2>4 DEF Kept, IInv, RowIsLatest, TypeOK, Record, Decision
    <3>2. ASSUME q.decision.phase = "Complete", outcome[x] # "Complete"
          PROVE  outcome[x] = "Committed" /\ \A s \in Side : psk[s] = x
      <4>1. \A s \in Side : HasConfirmed(disk, s, x)
        <5>1. Side \subseteq q.decision.confirmed
          BY <3>2 DEF RowFine, RowOK, DecisionOK
        <5>. QED  BY <2>1, <5>1 DEF RowFine, Backed
      <4>2. Decided(outcome, x) /\ \A s \in Side : psk[s] = x
        BY <1>4, <3>1, <4>1, BothRun
      <4>. QED  BY <3>2, <4>2 DEF Decided
    <3>3. CASE Fate(x)' = Fate(x)
      BY <2>3, <3>3
    <3>4. CASE q.decision.phase = "Complete" /\ outcome[x] # "Complete"
      <4>1. Fates[x] = "Committed" /\ Fate(x)' = "Complete"
        BY <1>4, <2>1, <3>2, <3>4 DEF Fates, Fate
      <4>. QED  BY <1>4, <2>2, <3>2, <3>4, <4>1, AgreementCompletes
    <3>5. CASE record.decision.phase \in {"Proposed", "Ready"} /\ q.decision.phase \in {"Committed", "Aborted"}
      <4>1. Fates[x] = "Open" /\ Fate(x)' = q.decision.phase
        BY <1>4, <2>1, <3>1, <3>5 DEF Fates, Fate
      <4>. QED  BY <1>4, <2>2, <3>5, <4>1, AgreementDecides
    <3>. QED
      BY <2>1, <3>1, <3>3, <3>4, <3>5 DEF Fate, Phase, Terminal
  <2>5. CASE Opened(record, q) /\ <<q.xid, q.seq>> \in Refs
    <3>. DEFINE a == <<record.xid, record.seq>>
                b == <<q.xid, q.seq>>
    <3>1. q.decision.phase = "Proposed" /\ q.seq > record.seq /\ a \in Refs
      BY <2>5, RefsMembers DEF Opened
    <3>2. a[1] < b[1] <=> a[2] < b[2]
      BY <1>0, <2>5, <3>1 DEF IInv, RefsOrdered
    <3>3. record.xid \in Nat /\ record.seq \in Nat /\ q.seq \in Nat
      BY <1>0, ConstantsAssumption DEF TypeOK, Record, IdOrNone
    <3>4. record.xid < x
      BY <3>1, <3>2, <3>3
    <3>5. outcome[x] = "None"
      BY <1>0, <1>4, <2>1, <3>3, <3>4 DEF IInv, RowIsLatest
    <3>6. ASSUME NEW y \in ExchangeId PROVE outcome[y] \in {"None", "Complete", "Aborted"}
      BY <1>1, <1>2, <3>5
    <3>7. /\ \A y \in ExchangeId : Fates[y] \in {"None", "Complete", "Aborted"}
          /\ Fates[x] = "None" /\ Fate(x)' = "Open"
      BY <1>4, <2>1, <3>1, <3>5, <3>6 DEF Fates, Fate
    <3>. QED  BY <1>4, <2>2, <3>7, AgreementOpens
  <2>. QED  BY <2>4, <2>5 DEF Moved
<1>. QED  BY <1>3, <1>4

\* Nothing is learnt by a step that keeps what the sides have confirmed.
LEMMA DonesKept ==
  ASSUME TypeOK, NEW s \in Side, NEW rel, rel.confirmed = disk[s].confirmed,
         disk' = [disk EXCEPT ![s] = rel] \/ disk' = disk
  PROVE  UNCHANGED Dones
<1>1. disk \in [Side -> Relationship]
  BY DEF TypeOK
<1>2. \A t \in Side : disk'[t].confirmed = disk[t].confirmed
  BY <1>1
<1>. QED  BY <1>2 DEF Dones

\* The fates are those of the history.
LEMMA FatesKept ==
  ASSUME UNCHANGED outcome
  PROVE  UNCHANGED Fates
BY DEF Fates, Fate

\* A note about the retry clock is not about the agreement.
LEMMA BackoffKept ==
  ASSUME TypeOK, NEW s \in Side, NEW b,
         disk' = [disk EXCEPT ![s].pending.backoff = b] \/ disk' = disk
  PROVE  UNCHANGED Dones
<1>1. disk \in [Side -> Relationship]
  BY DEF TypeOK
<1>2. \A t \in Side : disk'[t].confirmed = disk[t].confirmed
  BY <1>1 DEF Relationship
<1>. QED  BY <1>2 DEF Dones

\* A branch that sends nothing and confirms nothing is a stutter.
LEMMA SettlingAgrees ==
  ASSUME TypeOK, NEW s \in Side, NEW rel, Settles(s, rel), rel.confirmed = disk[s].confirmed
  PROVE  UNCHANGED Agreement!vars
<1>1. UNCHANGED <<outcome, psk>> /\ (disk' = [disk EXCEPT ![s] = rel] \/ disk' = disk)
  BY DEF Settles, serverVars
<1>. QED  BY <1>1, DonesKept, FatesKept, AgreementStays

\* The requests that reach the server.
LEMMA ServerAgrees ==
  ASSUME NInv, SweepRow \/ DeliverLate \/ \E s \in Side : Fetch(s) \/ Put(s)
  PROVE  Agreement!Next \/ UNCHANGED Agreement!vars
<1>0. KInv /\ IInv /\ TypeOK /\ record \in Record
  BY DEF NInv, KInv, IInv, TypeOK
<1>1. ASSUME Write(Sweep(record)), UNCHANGED <<psk, Dones>>
      PROVE  Agreement!Next \/ UNCHANGED Agreement!vars
  <2>1. Sweep(record) \in Record
    BY <1>0, RowType
  <2>. QED  BY <1>0, <1>1, <2>1, TransactionMoves, TransactionFine, TransactionAgrees
<1>2. ASSUME NEW m \in Message, Honest(disk, m), <<m.xid, m.seq>> \in Refs,
             Write(Submit(Sweep(record), m)), UNCHANGED <<psk, Dones>>
      PROVE  Agreement!Next \/ UNCHANGED Agreement!vars
  <2>1. Submit(Sweep(record), m) \in Record
    BY <1>0, RowType
  <2>. QED  BY <1>0, <1>2, <2>1, TransactionMoves, TransactionFine, TransactionAgrees
<1>3. CASE SweepRow
  <2>1. UNCHANGED <<psk, Dones>>
    BY <1>3 DEF SweepRow, kernelVars, clientVars, Dones
  <2>. QED  BY <1>1, <1>3, <2>1 DEF SweepRow
<1>4. CASE DeliverLate
  <2>1. PICK m \in net : Write(Submit(Sweep(record), m))
    BY <1>4 DEF DeliverLate
  <2>2. UNCHANGED <<psk, Dones>>
    BY <1>4 DEF DeliverLate, kernelVars, clientVars, Dones
  <2>3. m \in Message /\ Honest(disk, m) /\ <<m.xid, m.seq>> \in Refs
    BY <1>0, RefsMembers DEF TypeOK, KInv, Claims
  <2>. QED  BY <1>2, <2>1, <2>2, <2>3
<1>5. ASSUME NEW s \in Side, Fetch(s) PROVE Agreement!Next \/ UNCHANGED Agreement!vars
  <2>1. UNCHANGED <<psk, Dones>>
    BY <1>5 DEF Fetch, kernelVars, Dones
  <2>. QED  BY <1>1, <1>5, <2>1 DEF Fetch
<1>6. ASSUME NEW s \in Side, Put(s) PROVE Agreement!Next \/ UNCHANGED Agreement!vars
  <2>1. /\ Write(Submit(Sweep(record), Outgoing(s))) /\ UNCHANGED psk /\ pc[s] = "send"
        /\ disk' = [disk EXCEPT ![s].pending.backoff = TRUE] \/ disk' = disk
    BY <1>6 DEF Put, NoteSendFailure, kernelVars
  <2>2. UNCHANGED Dones
    BY <1>0, <2>1, BackoffKept
  <2>3. /\ Outgoing(s) \in Message /\ Honest(disk, Outgoing(s))
        /\ <<Outgoing(s).xid, Outgoing(s).seq>> \in Refs
    BY <1>0, <2>1, OutgoingHonest
  <2>. QED  BY <1>2, <2>1, <2>2, <2>3
<1>. QED  BY <1>3, <1>4, <1>5, <1>6

\* An install and its failure.
LEMMA InstallingAgrees ==
  ASSUME NInv, NEW s \in Side, InstallCandidate(s) \/ InstallFails(s)
  PROVE  Agreement!Next \/ UNCHANGED Agreement!vars
<1>. DEFINE x == disk[s].pending.xid
<1>0. KInv /\ TypeOK
  BY DEF NInv, KInv, IInv
<1>1. Matching(s, "Committed") /\ ~Observed(s).installed /\ MayInstall(s)
  BY DEF InstallCandidate, InstallFails
<1>2. /\ x \in ExchangeId /\ outcome[x] = "Committed"
      /\ s = Initiator => psk[Responder] = x
  BY <1>1, InstallsCommitted
<1>3. Observed(s).xid = x
  BY <1>0, <1>1, ObserveOK DEF ObservedOK, Matching
<1>4. Fates[x] = "Committed"
  BY <1>2 DEF Fates, Fate
<1>5. UNCHANGED outcome
  BY DEF InstallCandidate, InstallFails, Sends, serverVars
<1>6. CASE InstallCandidate(s)
  <2>1. psk' = [psk EXCEPT ![s] = x] /\ UNCHANGED Dones
    BY <1>3, <1>6 DEF InstallCandidate, Sends, Dones
  <2>. QED  BY <1>2, <1>4, <1>5, <2>1, FatesKept, AgreementInstalls
<1>7. CASE InstallFails(s)
  <2>1. /\ psk' = psk \/ psk' = [psk EXCEPT ![s] = 0]
        /\ disk' = [disk EXCEPT ![s] = [disk[s] EXCEPT !.pending = Observed(s)]] \/ disk' = disk
    BY <1>7 DEF InstallFails
  <2>2. [disk[s] EXCEPT !.pending = Observed(s)].confirmed = disk[s].confirmed
    BY <1>0 DEF TypeOK, Relationship
  <2>3. UNCHANGED Dones
    BY <1>0, <2>1, <2>2, DonesKept
  <2>4. CASE psk' = psk
    BY <1>5, <2>3, <2>4, FatesKept, AgreementStays
  <2>5. CASE psk' = [psk EXCEPT ![s] = 0]
    BY <1>2, <1>4, <1>5, <2>3, <2>5, FatesKept, AgreementInstalls
  <2>. QED  BY <2>1, <2>4, <2>5
<1>. QED  BY <1>6, <1>7

\* The end of an exchange.
LEMMA FinishingAgrees ==
  ASSUME NInv, NEW s \in Side, FinishExchange(s)
  PROVE  Agreement!Next \/ UNCHANGED Agreement!vars
<1>. DEFINE x == disk[s].pending.xid
            rel == [disk[s] EXCEPT !.confirmed = x, !.pending = NoPending]
<1>0. KInv /\ TypeOK /\ disk \in [Side -> Relationship]
  BY DEF NInv, KInv, IInv, TypeOK
<1>1. Matching(s, "Complete") /\ Settles(s, rel)
  BY DEF FinishExchange
<1>2. x # 0 /\ x > disk[s].confirmed /\ Agreed(disk, outcome, x)
  BY <1>0, <1>1, CompleteIsAgreed DEF Matching, KInv, Progress
<1>3. x \in ExchangeId
  BY <1>0, <1>2, Numbers
<1>4. rel.confirmed = x
  BY <1>0 DEF Relationship
<1>5. UNCHANGED <<outcome, psk>> /\ (disk' = [disk EXCEPT ![s] = rel] \/ disk' = disk)
  BY <1>1 DEF Settles, serverVars
<1>. HIDE DEF rel
<1>6. CASE disk' = [disk EXCEPT ![s] = rel]
  <2>1. \A t \in Side : disk'[t].confirmed = IF t = s THEN x ELSE disk[t].confirmed
    BY <1>0, <1>4, <1>6
  <2>2. Dones' = [Dones EXCEPT ![s] = x]
    BY <2>1 DEF Dones
  <2>3. /\ Fates[x] = "Complete" \/ (Fates[x] = "Committed" /\ \A t \in Side : psk[t] = x)
        /\ Dones[s] < x
    <3>1. disk[s].confirmed \in Nat /\ x \in Nat
      BY <1>0, Numbers
    <3>2. CASE outcome[x] = "Committed"
      <4>1. x = record.xid
        BY <1>0, <1>3, <3>2 DEF KInv, OneAtATime
      <4>2. \A t \in Side : psk[t] = x
        BY <1>2, <1>3, <4>1, BothRun DEF Agreed
      <4>. QED  BY <1>2, <1>3, <3>1, <3>2, <4>2 DEF Fates, Fate, Dones
    <3>3. CASE outcome[x] = "Complete"
      BY <1>2, <1>3, <3>1, <3>3 DEF Fates, Fate, Dones
    <3>. QED  BY <1>2, <3>2, <3>3 DEF Agreed, Decided
  <2>. QED  BY <1>3, <1>5, <2>2, <2>3, FatesKept, AgreementLearns
<1>7. CASE disk' = disk
  <2>1. UNCHANGED Dones
    BY <1>7 DEF Dones
  <2>. QED  BY <1>5, <2>1, FatesKept, AgreementStays
<1>. QED  BY <1>5, <1>6, <1>7

\* What a client does on its own is not visible to the agreement.
LEMMA ClientAgrees ==
  ASSUME NInv, NEW s \in Side,
         \/ StartExchange(s) \/ AnswerProposal(s) \/ NothingPending(s) \/ Resend(s) \/ DropAborted(s)
         \/ SendCommit(s) \/ ConfirmHandshake(s) \/ Wait(s)
         \/ Save(s) \/ PutLost(s) \/ Crash(s) \/ BackoffElapses(s)
  PROVE  UNCHANGED Agreement!vars
<1>0. KInv /\ TypeOK /\ disk[s] \in Relationship
  BY DEF NInv, KInv, IInv, TypeOK
<1>1. CASE UNCHANGED <<outcome, psk, disk>>
  <2>1. UNCHANGED Dones
    BY <1>1 DEF Dones
  <2>. QED  BY <1>1, <2>1, FatesKept, AgreementStays
<1>2. ASSUME StartExchange(s) \/ AnswerProposal(s) \/ Resend(s) \/ SendCommit(s) \/ ConfirmHandshake(s)
             \/ Crash(s)
      PROVE  UNCHANGED <<outcome, psk, disk>>
  BY <1>2 DEF StartExchange, AnswerProposal, Resend, SendCommit, ConfirmHandshake, Crash, Sends,
              serverVars, kernelVars
<1>3. CASE NothingPending(s)
  BY <1>0, <1>3, SettlingAgrees DEF NothingPending
<1>4. CASE DropAborted(s)
  <2>1. [disk[s] EXCEPT !.pending = NoPending].confirmed = disk[s].confirmed
    BY <1>0 DEF Relationship
  <2>. QED  BY <1>0, <1>4, <2>1, SettlingAgrees DEF DropAborted
<1>5. CASE Wait(s)
  <2>1. [disk[s] EXCEPT !.pending = Observed(s)].confirmed = disk[s].confirmed
    BY <1>0 DEF Relationship
  <2>. QED  BY <1>0, <1>5, <2>1, SettlingAgrees DEF Wait
<1>6. CASE Save(s)
  <2>1. UNCHANGED <<outcome, psk>> /\ disk' = [disk EXCEPT ![s] = mem[s]] /\ pc[s] = "save"
    BY <1>6 DEF Save, serverVars, kernelVars
  <2>2. mem[s].confirmed = disk[s].confirmed
    BY <1>0, <2>1 DEF KInv, Progress, MovesOn
  <2>. QED  BY <1>0, <2>1, <2>2, DonesKept, FatesKept, AgreementStays
<1>7. CASE PutLost(s) \/ BackoffElapses(s)
  <2>1. /\ UNCHANGED <<outcome, psk>>
        /\ \/ disk' = [disk EXCEPT ![s].pending.backoff = TRUE]
           \/ disk' = [disk EXCEPT ![s].pending.backoff = FALSE]
    BY <1>7 DEF PutLost, BackoffElapses, NoteSendFailure, serverVars, kernelVars
  <2>2. UNCHANGED Dones
    BY <1>0, <2>1, BackoffKept
  <2>. QED  BY <2>1, <2>2, FatesKept, AgreementStays
<1>. QED  BY <1>1, <1>2, <1>3, <1>4, <1>5, <1>6, <1>7

\* Every step of the pair is a step of the agreement or none.
LEMMA AgreementStep ==
  ASSUME NInv, [Next]_vars, Reboots = FALSE
  PROVE  [Agreement!Next]_(Agreement!vars)
<1>1. CASE Lapse \/ Handshake \/ CalmDown \/ UNCHANGED vars
  <2>1. UNCHANGED <<outcome, psk, disk>>
    BY <1>1 DEF Lapse, Handshake, CalmDown, vars, serverVars, kernelVars, clientVars
  <2>2. UNCHANGED Dones
    BY <2>1 DEF Dones
  <2>. QED  BY <2>1, <2>2, FatesKept, AgreementStays
<1>2. CASE SweepRow \/ DeliverLate \/ \E s \in Side : Fetch(s) \/ Put(s)
  BY <1>2, ServerAgrees
<1>3. ASSUME NEW s \in Side, Reconcile(s) \/ Save(s) PROVE [Agreement!Next]_(Agreement!vars)
  BY <1>3, ClientAgrees, InstallingAgrees, FinishingAgrees DEF Reconcile
<1>4. ASSUME NEW s \in Side, Fault(s) \/ BackoffElapses(s) PROVE [Agreement!Next]_(Agreement!vars)
  <2>1. ~Reboot(s)
    BY DEF Reboot
  <2>. QED  BY <1>4, <2>1, ClientAgrees, InstallingAgrees DEF Fault
<1>. QED  BY <1>1, <1>2, <1>3, <1>4 DEF Next, Cycle

\* The two engines, the mailbox row and the network between them, with every
\* crash, lost answer and late delivery, are an implementation of PqAgreement:
\* one exchange at a time is decided once and for all, kernels take only
\* committed keys and the responder first, an exchange completes only while
\* both kernels run its key, and a side believes in completion only after it.
THEOREM PairImplementsAgreement ==
  ASSUME Reboots = FALSE
  PROVE  Spec => ImplementsAgreement
<1>1. Init => Agreement!Init
  <2>. SUFFICES ASSUME Init PROVE Agreement!Init
    OBVIOUS
  <2>1. \A x \in ExchangeId : Fate(x) = "None"
    BY DEF Init, Fate
  <2>2. \A s \in Side : disk[s].confirmed = 0
    BY DEF Init, NewRelationship
  <2>. QED  BY <2>1, <2>2 DEF Init, Agreement!Init, Agreement!Exchange, ExchangeId, Agreement!Side, Side,
                              Agreement!Initiator, Initiator, Agreement!Responder, Responder
<1>2. NInv /\ [Next]_vars => [Agreement!Next]_(Agreement!vars)
  BY AgreementStep
<1>. QED  BY <1>1, <1>2, KeptInductive, PTL DEF Spec, ImplementsAgreement, Agreement!Spec
=============================================================================
