-------------------------- MODULE PqExchangeProofs --------------------------
(***************************************************************************)
(* Proofs about PqExchange, for every value of its constants: type         *)
(* correctness, and the inductive invariant behind InstalledOnlyCommitted, *)
(* SequenceNamesExchange, OutcomeIsFinal and NoCommitAfterLapse.           *)
(***************************************************************************)
EXTENDS PqExchange, TLAPS

-----------------------------------------------------------------------------
(* The inductive invariant *)

\* A message is saved and sent only for a pending exchange.
SendsPending ==
  \A s \in Side : /\ pc[s] = "save" => mem[s].pending.xid # 0
                  /\ pc[s] = "send" => disk[s].pending.xid # 0

\* Every place that names an exchange by its id and its sequence number,
\* except what the initiator has not saved yet.
Refs ==
  {<<0, 0>>, <<record.xid, record.seq>>}
    \cup {<<m.xid, m.seq>> : m \in net}
    \cup {<<disk[s].pending.xid, disk[s].pending.seq>> : s \in Side}
    \cup {<<view[s].xid, view[s].seq>> : s \in Side}
    \cup {<<mem[Responder].pending.xid, mem[Responder].pending.seq>>}

\* Ids and sequence numbers grow together.
RefsOrdered == \A a, b \in Refs : a[1] < b[1] <=> a[2] < b[2]

\* The saved sequence number is beyond every one in use.
RefsBounded == \A a \in Refs : a[1] <= fresh /\ a[2] < disk[Initiator].seq

\* What the initiator is about to save continues its pending exchange, or
\* opens one under the next sequence number with an id nobody has seen.
Continues(new, old) ==
  /\ new.seq = old.seq
  /\ new.pending.xid = old.pending.xid
  /\ new.pending.seq = old.pending.seq

Unsaved ==
  LET m == mem[Initiator]
      d == disk[Initiator]
  IN  pc[Initiator] = "save" =>
        \/ Continues(m, d)
        \/ /\ m.seq = d.seq + 1
           /\ m.pending.seq = d.seq
           /\ m.pending.xid = fresh
           /\ \A a \in Refs : a[1] < fresh

\* The row holds the latest exchange, and its phase is that one's outcome.
RowIsLatest ==
  /\ record.xid # 0 => outcome[record.xid] = record.decision.phase
  /\ \A x \in ExchangeId : outcome[x] # "None" => x <= record.xid

\* With outcomes o, exchange x is past the point of no return.
Decided(o, x) == x \in ExchangeId /\ o[x] \in {"Committed", "Complete"}

\* What in a row r shows that its exchange was committed.
RowShows(r) ==
  \/ r.decision.phase \in {"Committed", "Complete"}
  \/ r.decision.installed # {}
  \/ <<"Commit", Initiator>> \in r.messages
  \/ <<"Installed", Responder>> \in r.messages

RowEvidence(o, r) == r.xid # 0 /\ RowShows(r) => Decided(o, r.xid)

\* What in a local decision shows this to side s: the initiator's own phase
\* does not, it runs ahead of the server.
DecisionShows(d, s) ==
  \/ Responder \in d.installed
  \/ s = Responder /\ d.phase \in {"Committed", "Complete"}

PendingEvidence(o, p, s) == p.xid # 0 /\ DecisionShows(p.decision, s) => Decided(o, p.xid)

Evidence ==
  /\ RowEvidence(outcome, record)
  /\ \A s \in Side : /\ RowEvidence(outcome, view[s])
                     /\ PendingEvidence(outcome, disk[s].pending, s)
                     /\ PendingEvidence(outcome, mem[s].pending, s)

IInv ==
  /\ TypeOK /\ SendsPending
  /\ RefsOrdered /\ RefsBounded /\ Unsaved
  /\ RowIsLatest /\ Evidence
  /\ InstalledOnlyCommitted

-----------------------------------------------------------------------------
(* Types of the operators *)

\* `Decision::advance` and `Decision::expire` yield decisions.
LEMMA DecisionType ==
  /\ NewDecision \in Decision
  /\ \A d \in Decision, k \in Kind, s \in Side : Advanced(d, k, s) \in Decision
  /\ \A d \in Decision : Expired(d) \in Decision
<1>1. NewDecision \in Decision
  BY DEF NewDecision, Decision, Phase
<1>2. ASSUME NEW d \in Decision, NEW k \in Kind, NEW s \in Side
      PROVE  Advanced(d, k, s) \in Decision
  BY DEF Advanced, Decision, Phase, Kind
<1>3. ASSUME NEW d \in Decision PROVE Expired(d) \in Decision
  BY DEF Expired, Decision, Phase
<1>. QED  BY <1>1, <1>2, <1>3

\* A swept or submitted-to row is a row.
LEMMA RowType ==
  ASSUME NEW r \in Record
  PROVE  /\ Compact(r) \in Record
         /\ Sweep(r) \in Record
         /\ \A m \in Message : Submit(r, m) \in Record
<1>1. \A q \in Record : Compact(q) \in Record
  BY DEF Compact, Record
<1>2. Sweep(r) \in Record
  <2>1. [r EXCEPT !.decision = Expired(@)] \in Record
    BY DecisionType DEF Record
  <2>. QED  BY <1>1, <2>1 DEF Sweep
<1>3. ASSUME NEW m \in Message PROVE Submit(r, m) \in Record
  <2>1. CASE Advances(r, m)
    <3>1. /\ m.kind \in Kind /\ m.from \in Side
          /\ <<m.kind, m.from>> \in Kind \X Side
      BY DEF Message
    <3>2. [r EXCEPT !.decision = Advanced(@, m.kind, m.from),
                    !.messages = @ \cup {<<m.kind, m.from>>},
                    !.receipts = @ \cup {<<m.kind, m.from>>}] \in Record
      BY <3>1, DecisionType DEF Record
    <3>. QED  BY <1>1, <2>1, <3>2 DEF Submit
  <2>2. CASE ~Advances(r, m) /\ Opens(r, m)
    BY <2>2, DecisionType DEF Submit, Record, Message, IdOrNone, ExchangeId
  <2>3. CASE ~Advances(r, m) /\ ~Opens(r, m)
    BY <2>3 DEF Submit
  <2>. QED  BY <2>1, <2>2, <2>3
<1>. QED  BY <1>1, <1>2, <1>3

\* A client sees all of a row but the server's clock.
LEMMA AnswerSays ==
  ASSUME NEW r \in Record
  PROVE  /\ Answer(r) \in Record
         /\ Answer(r).xid = r.xid /\ Answer(r).seq = r.seq
         /\ Answer(r).decision = r.decision /\ Answer(r).messages = r.messages
  BY DEF Answer, Record

\* Observing a row changes nothing but the decision of a pending exchange.
LEMMA ObserveType ==
  ASSUME NEW p \in Pending, NEW v \in Record, NEW s \in Side
  PROVE  /\ Observe(p, v, s) \in Pending
         /\ Observe(p, v, s) = [p EXCEPT !.decision = Observe(p, v, s).decision]
<1>1. ASSUME NEW d \in Decision, NEW k \in Kind, NEW q \in Side
      PROVE  Try(d, v, k, q) \in Decision
  BY DecisionType DEF Try
<1>2. Replay(p.decision, v, Peer(s)) \in Decision
  <2>1. Peer(s) \in Side /\ p.decision \in Decision
    BY DEF Peer, Side, Pending
  <2>2. {"Ready", "Commit", "Installed", "Confirmed"} \subseteq Kind
    BY DEF Kind
  <2>. QED  BY <1>1, <2>1, <2>2 DEF Replay
<1>3. v.decision \in Decision
  BY DEF Record
<1>. QED  BY <1>2, <1>3 DEF Observe, Pending

-----------------------------------------------------------------------------
(* Type correctness *)

TInv == TypeOK /\ SendsPending

\* One server transaction keeps the types of the row and of the history.
LEMMA WriteType ==
  ASSUME TypeOK, NEW r \in Record, Write(r)
  PROVE  record' \in Record /\ outcome' \in [ExchangeId -> Phase \cup {"None"}]
<1>1. r.decision.phase \in Phase
  BY DEF Record, Decision
<1>. QED  BY <1>1 DEF Write, TypeOK

\* A cycle that is going to send a message keeps the client's types.
LEMMA SendsType ==
  ASSUME TInv, NEW s \in Side, NEW rel \in Relationship, rel.pending.xid # 0,
         Sends(s, rel),
         psk' \in [Side -> IdOrNone], hs' \in [Side -> SUBSET IdOrNone],
         gate' \in [Side -> BOOLEAN], fresh' \in IdOrNone
  PROVE  TInv'
<1>1. NoRecord \in Record
  BY DecisionType, ConstantsAssumption DEF NoRecord, Record, IdOrNone
<1>2. TypeOK'
  BY <1>1 DEF TInv, TypeOK, Sends, serverVars, PC
<1>3. SendsPending'
  BY DEF TInv, TypeOK, SendsPending, Sends
<1>. QED  BY <1>2, <1>3 DEF TInv

\* So does a cycle that ends without sending.
LEMMA SettlesType ==
  ASSUME TInv, NEW s \in Side, NEW rel \in Relationship, Settles(s, rel)
  PROVE  TInv'
<1>1. NoRecord \in Record
  BY DecisionType, ConstantsAssumption DEF NoRecord, Record, IdOrNone
<1>2. disk' \in [Side -> Relationship]
  BY DEF TInv, TypeOK, Settles
<1>3. gate' \in [Side -> BOOLEAN]
  BY DEF TInv, TypeOK, Settles, Gated
<1>4. TypeOK'
  BY <1>1, <1>2, <1>3 DEF TInv, TypeOK, Settles, serverVars, PC
<1>5. SendsPending'
  BY DEF TInv, TypeOK, SendsPending, Settles
<1>. QED  BY <1>4, <1>5 DEF TInv

\* What a side has pending, once it has looked at its view.
LEMMA ObservedType ==
  ASSUME TypeOK, NEW s \in Side
  PROVE  /\ disk[s] \in Relationship
         /\ disk[s].pending \in Pending
         /\ Observed(s) \in Pending
         /\ Observed(s).xid = disk[s].pending.xid
         /\ Observed(s).seq = disk[s].pending.seq
         /\ [disk[s] EXCEPT !.pending = Observed(s)] \in Relationship
<1>1. disk[s] \in Relationship /\ disk[s].pending \in Pending /\ view[s] \in Record
  BY DEF TypeOK, Relationship
<1>2. Observed(s) \in Pending
  BY <1>1, ObserveType DEF Observed
<1>3. Observed(s) = [disk[s].pending EXCEPT !.decision = Observed(s).decision]
  BY <1>1, ObserveType DEF Observed
<1>4. Observed(s).xid = disk[s].pending.xid /\ Observed(s).seq = disk[s].pending.seq
  BY <1>1, <1>3 DEF Pending
<1>. QED  BY <1>1, <1>2, <1>4 DEF Relationship
\* The message of a side about to send is well formed.
LEMMA OutgoingType ==
  ASSUME TInv, NEW s \in Side, pc[s] = "send"
  PROVE  Outgoing(s) \in Message
<1>1. disk[s].pending \in Pending /\ disk[s].pending.xid # 0
  BY ObservedType DEF TInv, SendsPending
<1>. QED
  BY <1>1, ConstantsAssumption DEF Outgoing, Message, Pending, IdOrNone, ExchangeId

\* Types of a relationship whose pending exchange is p, of a pending exchange
\* after a message is pushed, and of the empty ones.
LEMMA RelationshipType ==
  /\ NewRelationship \in Relationship /\ NoPending \in Pending /\ NoRecord \in Record
  /\ \A r \in Relationship, p \in Pending : [r EXCEPT !.pending = p] \in Relationship
  /\ \A p \in Pending, k \in Kind : Push(p, k) \in Pending /\ Push(p, k).xid = p.xid
                                                       /\ Push(p, k).seq = p.seq
                                                       /\ Push(p, k).decision = p.decision
<1>1. NoPending \in Pending /\ NoRecord \in Record
  BY DecisionType, ConstantsAssumption
     DEF NoRecord, Record, NoPending, Pending, IdOrNone, Kind
<1>2. NewRelationship \in Relationship
  BY <1>1, ConstantsAssumption DEF NewRelationship, Relationship, IdOrNone
<1>3. \A r \in Relationship, p \in Pending : [r EXCEPT !.pending = p] \in Relationship
  BY DEF Relationship
<1>4. \A p \in Pending, k \in Kind : Push(p, k) \in Pending /\ Push(p, k).xid = p.xid
                                                         /\ Push(p, k).seq = p.seq
                                                         /\ Push(p, k).decision = p.decision
  BY DEF Push, Pending
<1>. QED  BY <1>1, <1>2, <1>3, <1>4

\* The branches of `reconcile` keep the types.
LEMMA ReconcileType ==
  ASSUME TInv, NEW s \in Side, Reconcile(s)
  PROVE  TInv'
<1>. USE DEF TInv
<1>1. /\ disk[s] \in Relationship /\ disk[s].pending \in Pending /\ view[s] \in Record
      /\ Observed(s) \in Pending /\ Observed(s).xid = disk[s].pending.xid
      /\ [disk[s] EXCEPT !.pending = Observed(s)] \in Relationship
  BY ObservedType DEF TypeOK
<1>2. /\ psk \in [Side -> IdOrNone] /\ hs \in [Side -> SUBSET IdOrNone]
      /\ gate \in [Side -> BOOLEAN] /\ fresh \in IdOrNone
  BY DEF TypeOK
<1>3. [gate EXCEPT ![s] = Gated(s)] \in [Side -> BOOLEAN]
  BY <1>2 DEF Gated
<1>4. CASE StartExchange(s)
  <2>. DEFINE p   == [NoPending EXCEPT !.xid = fresh + 1, !.seq = disk[s].seq]
              rel == [disk[s] EXCEPT !.seq = @ + 1, !.pending = p]
  <2>1. fresh + 1 \in IdOrNone /\ fresh + 1 # 0
    BY <1>2, <1>4, ConstantsAssumption DEF StartExchange, IdOrNone
  <2>2. p \in Pending /\ p.xid # 0
    BY <1>1, <2>1, RelationshipType DEF Pending, Relationship
  <2>3. rel \in Relationship /\ rel.pending.xid # 0
    <3>1. disk[s].seq + 1 \in Nat
      BY <1>1 DEF Relationship
    <3>. HIDE DEF p
    <3>. QED  BY <1>1, <2>2, <3>1 DEF Relationship
  <2>4. Sends(s, rel)
    BY <1>4 DEF StartExchange
  <2>5. /\ psk' \in [Side -> IdOrNone] /\ hs' \in [Side -> SUBSET IdOrNone]
        /\ gate' \in [Side -> BOOLEAN] /\ fresh' \in IdOrNone
    BY <1>2, <1>3, <1>4, <2>1 DEF StartExchange
  <2>. HIDE DEF rel
  <2>. QED  BY <2>3, <2>4, <2>5, SendsType
<1>5. CASE AnswerProposal(s)
  <2>. DEFINE p   == [NoPending EXCEPT !.xid = view[s].xid, !.seq = view[s].seq,
                                       !.decision = Advanced(NewDecision, "Ready", s),
                                       !.last = "Ready"]
              rel == [disk[s] EXCEPT !.pending = p]
  <2>1. Advanced(NewDecision, "Ready", s) \in Decision
    BY DecisionType DEF Kind
  <2>2. p \in Pending /\ p.xid # 0
    BY <1>1, <1>5, <2>1, RelationshipType
       DEF Pending, Record, AnswerProposal, Answerable, Kind
  <2>3. rel \in Relationship /\ rel.pending.xid # 0
    BY <1>1, <2>2 DEF Relationship
  <2>4. Sends(s, rel)
    BY <1>5 DEF AnswerProposal
  <2>5. /\ psk' \in [Side -> IdOrNone] /\ hs' \in [Side -> SUBSET IdOrNone]
        /\ gate' \in [Side -> BOOLEAN] /\ fresh' \in IdOrNone
    BY <1>2, <1>3, <1>5 DEF AnswerProposal
  <2>. HIDE DEF rel
  <2>. QED  BY <2>3, <2>4, <2>5, SendsType
<1>6. CASE NothingPending(s)
  BY <1>1, <1>6, SettlesType DEF NothingPending
<1>7. CASE Resend(s)
  <2>. DEFINE rel == [disk[s] EXCEPT !.pending = Observed(s)]
  <2>1. rel \in Relationship /\ rel.pending.xid # 0
    BY <1>1, <1>7 DEF Resend, Relationship
  <2>2. Sends(s, rel)
    BY <1>7 DEF Resend
  <2>3. /\ psk' \in [Side -> IdOrNone] /\ hs' \in [Side -> SUBSET IdOrNone]
        /\ gate' \in [Side -> BOOLEAN] /\ fresh' \in IdOrNone
    BY <1>2, <1>3, <1>7 DEF Resend
  <2>. HIDE DEF rel
  <2>. QED  BY <2>1, <2>2, <2>3, SendsType
<1>8. CASE DropAborted(s)
  BY <1>1, <1>8, RelationshipType, SettlesType DEF DropAborted
<1>9. CASE SendCommit(s)
  <2>. DEFINE q   == Push(Observed(s), "Commit")
              p   == [q EXCEPT !.decision = Advanced(@, "Commit", s)]
              rel == [disk[s] EXCEPT !.pending = p]
  <2>1. q \in Pending /\ q.xid # 0
    BY <1>1, <1>9, RelationshipType DEF SendCommit, Matching, Kind
  <2>2. Advanced(q.decision, "Commit", s) \in Decision
    BY <2>1, DecisionType DEF Pending, Kind
  <2>3. p \in Pending /\ p.xid # 0
    BY <2>1, <2>2 DEF Pending
  <2>4. rel \in Relationship /\ rel.pending.xid # 0
    BY <1>1, <2>3 DEF Relationship
  <2>5. Sends(s, rel)
    BY <1>9 DEF SendCommit
  <2>6. /\ psk' \in [Side -> IdOrNone] /\ hs' \in [Side -> SUBSET IdOrNone]
        /\ gate' \in [Side -> BOOLEAN] /\ fresh' \in IdOrNone
    BY <1>2, <1>3, <1>9 DEF SendCommit
  <2>. HIDE DEF rel
  <2>. QED  BY <2>4, <2>5, <2>6, SendsType
<1>10. CASE InstallCandidate(s)
  <2>. DEFINE q   == Push(Observed(s), "Installed")
              p   == [q EXCEPT !.installed = TRUE, !.decision = Advanced(@, "Installed", s)]
              rel == [disk[s] EXCEPT !.pending = p]
  <2>1. q \in Pending /\ q.xid # 0
    BY <1>1, <1>10, RelationshipType DEF InstallCandidate, Matching, Kind
  <2>2. Advanced(q.decision, "Installed", s) \in Decision
    BY <2>1, DecisionType DEF Pending, Kind
  <2>3. p \in Pending /\ p.xid # 0
    BY <2>1, <2>2 DEF Pending
  <2>4. rel \in Relationship /\ rel.pending.xid # 0
    BY <1>1, <2>3 DEF Relationship
  <2>5. Sends(s, rel)
    BY <1>10 DEF InstallCandidate
  <2>6. /\ psk' \in [Side -> IdOrNone] /\ hs' \in [Side -> SUBSET IdOrNone]
        /\ gate' \in [Side -> BOOLEAN] /\ fresh' \in IdOrNone
    BY <1>1, <1>2, <1>10 DEF InstallCandidate, Pending
  <2>. HIDE DEF rel
  <2>. QED  BY <2>4, <2>5, <2>6, SendsType
<1>11. CASE ConfirmHandshake(s)
  <2>. DEFINE q   == Push(Observed(s), "Confirmed")
              p   == [q EXCEPT !.confirmed = TRUE, !.decision = Advanced(@, "Confirmed", s)]
              rel == [disk[s] EXCEPT !.pending = p]
  <2>1. q \in Pending /\ q.xid # 0
    BY <1>1, <1>11, RelationshipType DEF ConfirmHandshake, Matching, Kind
  <2>2. Advanced(q.decision, "Confirmed", s) \in Decision
    BY <2>1, DecisionType DEF Pending, Kind
  <2>3. p \in Pending /\ p.xid # 0
    BY <2>1, <2>2 DEF Pending
  <2>4. rel \in Relationship /\ rel.pending.xid # 0
    BY <1>1, <2>3 DEF Relationship
  <2>5. Sends(s, rel)
    BY <1>11 DEF ConfirmHandshake
  <2>6. /\ psk' \in [Side -> IdOrNone] /\ hs' \in [Side -> SUBSET IdOrNone]
        /\ gate' \in [Side -> BOOLEAN] /\ fresh' \in IdOrNone
    BY <1>2, <1>11 DEF ConfirmHandshake
  <2>. HIDE DEF rel
  <2>. QED  BY <2>4, <2>5, <2>6, SendsType
<1>12. CASE FinishExchange(s)
  <2>. DEFINE rel == [disk[s] EXCEPT !.confirmed = disk[s].pending.xid, !.pending = NoPending]
  <2>1. rel \in Relationship
    BY <1>1, RelationshipType DEF Relationship, Pending
  <2>2. Settles(s, rel)
    BY <1>12 DEF FinishExchange
  <2>. HIDE DEF rel
  <2>. QED  BY <2>1, <2>2, SettlesType
<1>13. CASE Wait(s)
  BY <1>1, <1>13, SettlesType DEF Wait
<1>. QED
  BY <1>4, <1>5, <1>6, <1>7, <1>8, <1>9, <1>10, <1>11, <1>12, <1>13 DEF Reconcile
\* Every step keeps the types.
LEMMA StepType ==
  ASSUME TInv, [Next]_vars
  PROVE  TInv'
<1>. USE DEF TInv
<1>1. Sweep(record) \in Record
  BY RowType DEF TypeOK
<1>2. \A m \in Message : Submit(Sweep(record), m) \in Record
  BY <1>1, RowType
<1>3. CASE Lapse
  <2>1. record' \in Record
    BY <1>3 DEF Lapse, TypeOK, Record
  <2>. QED
    BY <1>3, <2>1 DEF Lapse, TypeOK, SendsPending, clientVars, kernelVars
<1>4. CASE SweepRow
  <2>1. record' \in Record /\ outcome' \in [ExchangeId -> Phase \cup {"None"}]
    BY <1>1, <1>4, WriteType DEF SweepRow
  <2>. QED
    BY <1>4, <2>1 DEF SweepRow, TypeOK, SendsPending, clientVars, kernelVars
<1>5. CASE DeliverLate
  <2>1. PICK m \in net : /\ Write(Submit(Sweep(record), m))
                         /\ net' = net \ {m}
                         /\ UNCHANGED <<clientVars, kernelVars, fresh, calm>>
    BY <1>5 DEF DeliverLate
  <2>2. m \in Message
    BY DEF TypeOK
  <2>3. record' \in Record /\ outcome' \in [ExchangeId -> Phase \cup {"None"}]
    BY <1>2, <2>1, <2>2, WriteType
  <2>. QED
    BY <2>1, <2>3 DEF TypeOK, SendsPending, clientVars, kernelVars
<1>6. CASE Handshake
  <2>1. hs' \in [Side -> SUBSET IdOrNone]
    BY <1>6 DEF Handshake, TypeOK
  <2>. QED
    BY <1>6, <2>1 DEF Handshake, TypeOK, SendsPending, clientVars, serverVars
<1>7. CASE CalmDown
  BY <1>7 DEF CalmDown, TypeOK, SendsPending, clientVars, serverVars, kernelVars
<1>8. ASSUME NEW s \in Side, Fetch(s) PROVE TInv'
  <2>1. record' \in Record /\ outcome' \in [ExchangeId -> Phase \cup {"None"}]
    BY <1>1, <1>8, WriteType DEF Fetch
  <2>2. Sweep(record) \in Record
    BY <1>8, <2>1 DEF Fetch, Write
  <2>3. view' \in [Side -> Record] /\ pc' \in [Side -> PC]
    BY <1>8, <2>2, AnswerSays DEF Fetch, TypeOK, PC
  <2>. QED
    BY <1>8, <2>1, <2>3 DEF Fetch, TypeOK, SendsPending, kernelVars
<1>9. ASSUME NEW s \in Side, Reconcile(s) PROVE TInv'
  BY <1>9, ReconcileType
<1>10. ASSUME NEW s \in Side, Save(s) PROVE TInv'
  <2>1. /\ disk' \in [Side -> Relationship] /\ mem' \in [Side -> Relationship]
        /\ pc' \in [Side -> PC]
    BY <1>10, RelationshipType DEF Save, TypeOK, PC
  <2>. QED
    BY <1>10, <2>1 DEF Save, TypeOK, SendsPending, kernelVars, serverVars
<1>11. ASSUME NEW s \in Side PROVE [disk[s] EXCEPT !.pending.backoff = TRUE] \in Relationship
  BY ObservedType DEF Relationship, Pending
<1>12. ASSUME NEW s \in Side, NoteSendFailure(s)
       PROVE  /\ disk' \in [Side -> Relationship]
              /\ \A t \in Side : disk'[t].pending.xid = disk[t].pending.xid
  <2>1. disk' \in [Side -> Relationship]
    BY <1>11, <1>12 DEF NoteSendFailure, TypeOK
  <2>2. \A t \in Side : disk[t] \in Relationship /\ disk[t].pending \in Pending
    BY ObservedType
  <2>. QED
    BY <1>12, <2>1, <2>2 DEF NoteSendFailure, TypeOK, Relationship, Pending
<1>13. ASSUME NEW s \in Side, Put(s) PROVE TInv'
  <2>1. Outgoing(s) \in Message
    BY <1>13, OutgoingType DEF Put
  <2>2. record' \in Record /\ outcome' \in [ExchangeId -> Phase \cup {"None"}]
    BY <1>2, <1>13, <2>1, WriteType DEF Put
  <2>3. /\ disk' \in [Side -> Relationship]
        /\ \A t \in Side : disk'[t].pending.xid = disk[t].pending.xid
    BY <1>12, <1>13 DEF Put, TypeOK
  <2>4. pc' \in [Side -> PC] /\ \A t \in Side : pc'[t] \in {"idle", pc[t]}
    BY <1>13 DEF Put, TypeOK, PC
  <2>. QED
    BY <1>13, <2>2, <2>3, <2>4 DEF Put, TypeOK, SendsPending, kernelVars
<1>14. ASSUME NEW s \in Side, pc[s] = "send", Unanswered(Outgoing(s))
       PROVE  net' \subseteq Message
  BY <1>14, OutgoingType DEF Unanswered, TypeOK
<1>15. ASSUME NEW s \in Side, PutLost(s) PROVE TInv'
  <2>1. net' \subseteq Message
    BY <1>14, <1>15 DEF PutLost
  <2>2. /\ disk' \in [Side -> Relationship]
        /\ \A t \in Side : disk'[t].pending.xid = disk[t].pending.xid
    BY <1>12, <1>15 DEF PutLost
  <2>3. pc' \in [Side -> PC] /\ \A t \in Side : pc'[t] \in {"idle", pc[t]}
    BY <1>15 DEF PutLost, TypeOK, PC
  <2>. QED
    BY <1>15, <2>1, <2>2, <2>3 DEF PutLost, TypeOK, SendsPending, kernelVars, serverVars
<1>16. ASSUME NEW s \in Side, BackoffElapses(s) PROVE TInv'
  <2>1. disk[s] \in Relationship /\ disk[s].pending \in Pending
    BY ObservedType
  <2>2. [disk[s] EXCEPT !.pending.backoff = FALSE] \in Relationship
    BY <2>1 DEF Relationship, Pending
  <2>3. disk' \in [Side -> Relationship]
    BY <1>16, <2>2 DEF BackoffElapses, TypeOK
  <2>4. \A t \in Side : disk'[t].pending.xid = disk[t].pending.xid
    BY <1>16, <2>1, <2>3 DEF BackoffElapses, TypeOK, Relationship, Pending
  <2>. QED
    BY <1>16, <2>3, <2>4 DEF BackoffElapses, TypeOK, SendsPending, kernelVars, serverVars
<1>17. ASSUME NEW s \in Side, InstallFails(s) PROVE TInv'
  <2>1. disk' \in [Side -> Relationship]
    BY <1>17, ObservedType DEF InstallFails, TypeOK
  <2>2. /\ psk' \in [Side -> IdOrNone] /\ hs' \in [Side -> SUBSET IdOrNone]
        /\ gate' \in [Side -> BOOLEAN]
    BY <1>17, ConstantsAssumption DEF InstallFails, TypeOK, IdOrNone
  <2>3. /\ view' \in [Side -> Record] /\ pc' \in [Side -> PC]
        /\ \A t \in Side : pc'[t] \in {"idle", pc[t]}
        /\ \A t \in Side : pc'[t] = "send" => disk'[t].pending.xid = disk[t].pending.xid
    BY <1>17, RelationshipType DEF InstallFails, TypeOK, PC
  <2>. QED
    BY <1>17, <2>1, <2>2, <2>3 DEF InstallFails, TypeOK, SendsPending, serverVars
<1>18. ASSUME NEW s \in Side, Crash(s) PROVE TInv'
  <2>1. net' \subseteq Message
    BY <1>14, <1>18 DEF Crash, TypeOK
  <2>2. /\ view' \in [Side -> Record] /\ pc' \in [Side -> PC]
        /\ mem' \in [Side -> Relationship]
    BY <1>18, RelationshipType DEF Crash, TypeOK, PC
  <2>. QED
    BY <1>18, <2>1, <2>2 DEF Crash, TypeOK, SendsPending, serverVars, kernelVars
<1>19. ASSUME NEW s \in Side, Reboot(s) PROVE TInv'
  <2>1. /\ psk' \in [Side -> IdOrNone] /\ hs' \in [Side -> SUBSET IdOrNone]
        /\ gate' \in [Side -> BOOLEAN]
    BY <1>19, ConstantsAssumption DEF Reboot, TypeOK, IdOrNone
  <2>2. /\ view' \in [Side -> Record] /\ pc' \in [Side -> PC]
        /\ mem' \in [Side -> Relationship]
    BY <1>19, RelationshipType DEF Reboot, TypeOK, PC
  <2>. QED
    BY <1>19, <2>1, <2>2 DEF Reboot, TypeOK, SendsPending, serverVars
<1>20. CASE UNCHANGED vars
  BY <1>20 DEF vars, clientVars, serverVars, kernelVars, TypeOK, SendsPending
<1>. QED
  BY <1>3, <1>4, <1>5, <1>6, <1>7, <1>8, <1>9, <1>10, <1>13, <1>15, <1>16, <1>17,
     <1>18, <1>19, <1>20
     DEF Next, Cycle, Fault

\* The program's state has its types in every reachable state.
THEOREM TypeCorrect == Spec => []TypeOK
<1>1. Init => TInv
  <2>. SUFFICES ASSUME Init PROVE TInv
    OBVIOUS
  <2>1. 0 \in IdOrNone
    BY ConstantsAssumption DEF IdOrNone
  <2>2. TypeOK
    BY <2>1, RelationshipType DEF Init, TypeOK, PC
  <2>3. SendsPending
    BY DEF Init, SendsPending
  <2>. QED  BY <2>2, <2>3 DEF TInv
<1>2. TInv /\ [Next]_vars => TInv'
  BY StepType
<1>. QED  BY <1>1, <1>2, PTL DEF Spec, TInv
-----------------------------------------------------------------------------
(* The mailbox row *)

\* Row q is row r, moved on within the same exchange.
Kept(r, q) ==
  /\ q.xid = r.xid /\ q.seq = r.seq
  /\ Terminal(r.decision) => q.decision.phase = r.decision.phase
  /\ r.decision.phase = "Committed" => q.decision.phase \in {"Committed", "Complete"}
  /\ r.decision.phase # "Committed" /\ q.decision.phase = "Committed" => ~r.lapsed
  /\ RowShows(q) => RowShows(r) \/ q.decision.phase \in {"Committed", "Complete"}

\* Row q holds a proposal with a higher sequence number than r's, which is not
\* of a committed exchange.
Opened(r, q) ==
  /\ q.seq > r.seq /\ q.decision.phase = "Proposed" /\ ~RowShows(q)
  /\ r.xid = 0 \/ r.decision.phase # "Committed"

\* A sweep moves a row on, and leaves no lapsed one in preparation.
LEMMA SweepKeeps ==
  ASSUME NEW r \in Record
  PROVE  /\ Kept(r, Sweep(r))
         /\ Sweep(r).lapsed = r.lapsed
         /\ r.lapsed => ~Preparing(Sweep(r).decision)
         /\ ~r.lapsed => Sweep(r) = r
         /\ ~Preparing(r.decision) => Sweep(r) = r
         /\ RowShows(Sweep(r)) => RowShows(r)
<1>1. CASE r.lapsed /\ Preparing(r.decision)
  <2>. DEFINE e == [r EXCEPT !.decision = Expired(@)]
  <2>1. /\ e.xid = r.xid /\ e.seq = r.seq /\ e.lapsed = r.lapsed
        /\ e.decision = [r.decision EXCEPT !.phase = "Aborted"]
    BY <1>1 DEF Expired, Record
  <2>2. e.decision.phase = "Aborted" /\ e.decision.installed = r.decision.installed
    BY <2>1 DEF Record, Decision
  <2>3. Sweep(r) = Compact(e)
    BY <1>1 DEF Sweep
  <2>4. e \in Record
    BY DecisionType DEF Record
  <2>. HIDE DEF e
  <2>5. Compact(e) = [e EXCEPT !.messages = {}]
    BY <2>2 DEF Compact, Terminal
  <2>6. /\ Sweep(r).xid = r.xid /\ Sweep(r).seq = r.seq /\ Sweep(r).lapsed = r.lapsed
        /\ Sweep(r).decision = e.decision /\ Sweep(r).messages = {}
    BY <2>1, <2>3, <2>4, <2>5 DEF Record
  <2>. QED
    BY <1>1, <2>2, <2>6 DEF Kept, RowShows, Preparing, Terminal
<1>2. CASE ~(r.lapsed /\ Preparing(r.decision))
  BY <1>2 DEF Sweep, Kept, RowShows
<1>. QED  BY <1>1, <1>2

\* A submission moves the row on, opens a new exchange, or changes nothing.
LEMMA SubmitMoves ==
  ASSUME NEW r \in Record, NEW m \in Message
  PROVE  LET q == Submit(r, m) IN
         \/ q = r
         \/ /\ q.xid = r.xid /\ q.seq = r.seq
            /\ ~Terminal(r.decision)
            /\ r.decision.phase = "Committed" => q.decision.phase \in {"Committed", "Complete"}
            /\ r.decision.phase # "Committed" /\ q.decision.phase = "Committed"
                 => Preparing(r.decision)
            /\ RowShows(q) => RowShows(r) \/ q.decision.phase \in {"Committed", "Complete"}
         \/ Opened(r, q) /\ q.xid = m.xid /\ q.seq = m.seq
<1>. DEFINE q == Submit(r, m)
<1>1. CASE Advances(r, m)
  <2>. DEFINE d == Advanced(r.decision, m.kind, m.from)
              w == <<m.kind, m.from>>
              e == [r EXCEPT !.decision = Advanced(@, m.kind, m.from),
                             !.messages = @ \cup {w},
                             !.receipts = @ \cup {w}]
  <2>1. q = Compact(e)
    BY <1>1 DEF Submit
  <2>2. /\ e \in Record /\ e.xid = r.xid /\ e.seq = r.seq /\ e.decision = d
        /\ e.messages = r.messages \cup {w}
    <3>1. m.kind \in Kind /\ m.from \in Side /\ w \in Kind \X Side
      BY DEF Message
    <3>2. d \in Decision
      BY <3>1, DecisionType DEF Record
    <3>. QED  BY <3>1, <3>2 DEF Record
  <2>. HIDE DEF e, d
  <2>3. /\ q.xid = r.xid /\ q.seq = r.seq /\ q.decision = d
        /\ q.messages \subseteq r.messages \cup {w}
        /\ Terminal(d) => q.messages = {}
    BY <2>1, <2>2 DEF Compact, Record
  <2>4. ~Terminal(r.decision) /\ CanAdvance(r.decision, m.kind, m.from)
    BY <1>1 DEF Advances
  <2>5. r.decision \in Decision
    BY DEF Record
  <2>6. CASE m.kind = "Ready"
    <3>1. d.phase = "Ready" /\ d.installed = r.decision.installed
      BY <2>5, <2>6 DEF d, Advanced, Decision
    <3>. QED
      BY <2>3, <2>4, <2>6, <3>1 DEF CanAdvance, Preparing, RowShows
  <2>7. CASE m.kind = "Commit"
    <3>1. d.phase = "Committed"
      BY <2>5, <2>7 DEF d, Advanced, Decision
    <3>. QED
      BY <2>3, <2>4, <2>7, <3>1 DEF CanAdvance, Preparing, RowShows
  <2>8. CASE m.kind = "Abort"
    <3>1. d.phase = "Aborted" /\ d.installed = r.decision.installed
      BY <2>5, <2>8 DEF d, Advanced, Decision
    <3>. QED
      BY <2>3, <2>4, <2>8, <3>1 DEF CanAdvance, Preparing, RowShows, Terminal
  <2>9. CASE m.kind = "Installed"
    <3>1. d.phase = r.decision.phase
      BY <2>5, <2>9 DEF d, Advanced, Decision
    <3>. QED
      BY <2>3, <2>4, <2>9, <3>1 DEF CanAdvance, RowShows
  <2>10. CASE m.kind = "Confirmed"
    <3>1. d.phase \in {"Complete", r.decision.phase}
      BY <2>5, <2>10 DEF d, Advanced, Decision
    <3>. QED
      BY <2>3, <2>4, <2>10, <3>1 DEF CanAdvance, RowShows
  <2>. QED
    BY <2>4, <2>6, <2>7, <2>8, <2>9, <2>10 DEF CanAdvance
<1>2. CASE ~Advances(r, m) /\ Opens(r, m)
  <2>1. /\ q.xid = m.xid /\ q.seq = m.seq /\ q.decision = NewDecision
        /\ q.messages = {<<m.kind, m.from>>}
    BY <1>2 DEF Submit
  <2>2. m.kind = "Propose" /\ m.seq > r.seq /\ (r.xid = 0 \/ Terminal(r.decision))
    BY <1>2 DEF Opens
  <2>. QED  BY <2>1, <2>2 DEF Opened, RowShows, NewDecision, Terminal
<1>3. CASE ~Advances(r, m) /\ ~Opens(r, m)
  BY <1>3 DEF Submit
<1>. QED  BY <1>1, <1>2, <1>3

\* What one transaction does to the row, from its state before the sweep.
LEMMA RowMoves ==
  ASSUME NEW r \in Record, NEW m \in Message
  PROVE  LET q == Submit(Sweep(r), m) IN
         Kept(r, q) \/ (Opened(r, q) /\ q.xid = m.xid /\ q.seq = m.seq)
<1>. DEFINE p == Sweep(r)
            q == Submit(p, m)
<1>1. p \in Record
  BY RowType
<1>2. /\ Kept(r, p) /\ p.lapsed = r.lapsed /\ (r.lapsed => ~Preparing(p.decision))
      /\ (~r.lapsed => p = r) /\ (~Preparing(r.decision) => p = r)
      /\ (RowShows(p) => RowShows(r))
  BY SweepKeeps
<1>3. \/ q = p
      \/ /\ q.xid = p.xid /\ q.seq = p.seq
         /\ ~Terminal(p.decision)
         /\ p.decision.phase = "Committed" => q.decision.phase \in {"Committed", "Complete"}
         /\ p.decision.phase # "Committed" /\ q.decision.phase = "Committed"
              => Preparing(p.decision)
         /\ RowShows(q) => RowShows(p) \/ q.decision.phase \in {"Committed", "Complete"}
      \/ Opened(p, q) /\ q.xid = m.xid /\ q.seq = m.seq
  BY <1>1, SubmitMoves
<1>. HIDE DEF p, q
<1>4. Kept(r, q) \/ (Opened(r, q) /\ q.xid = m.xid /\ q.seq = m.seq)
  BY <1>2, <1>3 DEF Kept, Opened, Terminal, Preparing
<1>. QED  BY <1>4 DEF p, q
\* The row a transaction leaves behind: one the row moved to within its
\* exchange, or a newer proposal that somebody holds.
Moved(q) == Kept(record, q) \/ (Opened(record, q) /\ <<q.xid, q.seq>> \in Refs)

\* A transaction keeps the row the latest one and takes back no decision.
LEMMA WriteMoves ==
  ASSUME IInv, NEW q \in Record, Write(q), Moved(q)
  PROVE  /\ RowIsLatest'
         /\ RowEvidence(outcome', record')
         /\ \A x : Decided(outcome, x) => Decided(outcome', x)
         /\ DecisionsStay
         /\ CommitsInTime
         /\ <<record'.xid, record'.seq>> \in Refs
<1>1. /\ record \in Record /\ outcome \in [ExchangeId -> Phase \cup {"None"}]
      /\ record.xid \in IdOrNone /\ q.xid \in IdOrNone /\ q.seq \in Nat /\ record.seq \in Nat
      /\ IdOrNone \subseteq Nat /\ ExchangeId = IdOrNone \ {0}
  BY ConstantsAssumption DEF IInv, TypeOK, Record, IdOrNone, ExchangeId
<1>2. record' = q /\ \A x \in ExchangeId :
                       outcome'[x] = IF x = q.xid THEN q.decision.phase ELSE outcome[x]
  BY DEF Write
<1>3. /\ record.xid # 0 => outcome[record.xid] = record.decision.phase
      /\ \A x \in ExchangeId : outcome[x] # "None" => x <= record.xid
      /\ record.xid # 0 /\ RowShows(record) => Decided(outcome, record.xid)
  BY DEF IInv, RowIsLatest, Evidence, RowEvidence
<1>4. <<record.xid, record.seq>> \in Refs
  BY DEF Refs
<1>5. CASE Kept(record, q)
  <2>1. /\ q.xid = record.xid /\ q.seq = record.seq
        /\ Terminal(record.decision) => q.decision.phase = record.decision.phase
        /\ record.decision.phase = "Committed" => q.decision.phase \in {"Committed", "Complete"}
        /\ record.decision.phase # "Committed" /\ q.decision.phase = "Committed"
             => ~record.lapsed
        /\ RowShows(q) => RowShows(record) \/ q.decision.phase \in {"Committed", "Complete"}
    BY <1>5 DEF Kept
  <2>2. RowIsLatest'
    <3>1. record'.xid # 0 => outcome'[record'.xid] = record'.decision.phase
      BY <1>1, <1>2
    <3>2. ASSUME NEW x \in ExchangeId, outcome'[x] # "None" PROVE x <= record'.xid
      <4>1. CASE x = q.xid
        BY <1>2, <4>1, ConstantsAssumption DEF ExchangeId
      <4>2. CASE x # q.xid
        BY <1>2, <1>3, <2>1, <3>2, <4>2
      <4>. QED  BY <4>1, <4>2
    <3>. QED  BY <3>1, <3>2 DEF RowIsLatest
  <2>3. DecisionsStay
    BY <1>1, <1>2, <1>3, <2>1 DEF DecisionsStay, Terminal
  <2>4. CommitsInTime
    BY <1>1, <1>2, <1>3, <2>1 DEF CommitsInTime
  <2>5. \A x : Decided(outcome, x) => Decided(outcome', x)
    BY <2>3 DEF Decided, DecisionsStay
  <2>6. RowEvidence(outcome', record')
    BY <1>1, <1>2, <1>3, <2>1 DEF RowEvidence, Decided, Terminal
  <2>. QED  BY <1>2, <1>4, <2>1, <2>2, <2>3, <2>4, <2>5, <2>6
<1>6. CASE Opened(record, q) /\ <<q.xid, q.seq>> \in Refs
  <2>1. q.seq > record.seq /\ q.decision.phase = "Proposed" /\ ~RowShows(q)
    BY <1>6 DEF Opened
  <2>2. record.xid < q.xid
    <3>. DEFINE a == <<record.xid, record.seq>>
                b == <<q.xid, q.seq>>
    <3>1. a \in Refs /\ b \in Refs /\ RefsOrdered
      BY <1>4, <1>6 DEF IInv
    <3>2. a[1] < b[1] <=> a[2] < b[2]
      BY <3>1 DEF RefsOrdered
    <3>. QED  BY <1>1, <2>1, <3>2
  <2>3. outcome[q.xid] = "None" /\ q.xid \in ExchangeId
    <3>1. q.xid \in ExchangeId /\ ~(q.xid <= record.xid)
      BY <1>1, <2>2, ConstantsAssumption DEF IdOrNone, ExchangeId
    <3>. QED  BY <1>3, <3>1
  <2>4. RowIsLatest'
    <3>1. record'.xid # 0 => outcome'[record'.xid] = record'.decision.phase
      BY <1>1, <1>2
    <3>2. ASSUME NEW x \in ExchangeId, outcome'[x] # "None" PROVE x <= record'.xid
      <4>1. CASE x = q.xid
        BY <1>2, <4>1, ConstantsAssumption DEF ExchangeId
      <4>2. CASE x # q.xid
        <5>1. x <= record.xid
          BY <1>2, <1>3, <3>2, <4>2
        <5>. QED
          BY <1>1, <1>2, <2>2, <5>1, ConstantsAssumption DEF IdOrNone, ExchangeId
      <4>. QED  BY <4>1, <4>2
    <3>. QED  BY <3>1, <3>2 DEF RowIsLatest
  <2>5. DecisionsStay /\ CommitsInTime
    BY <1>2, <2>1, <2>3 DEF DecisionsStay, CommitsInTime
  <2>6. \A x : Decided(outcome, x) => Decided(outcome', x)
    BY <2>5 DEF Decided, DecisionsStay
  <2>7. RowEvidence(outcome', record')
    BY <1>2, <2>1 DEF RowEvidence
  <2>. QED  BY <1>2, <1>6, <2>4, <2>5, <2>6, <2>7
<1>. QED  BY <1>5, <1>6 DEF Moved

\* Every transaction of the system is one of these.
LEMMA TransactionMoves ==
  ASSUME IInv
  PROVE  /\ Moved(Sweep(record))
         /\ \A m \in Message : <<m.xid, m.seq>> \in Refs => Moved(Submit(Sweep(record), m))
<1>1. record \in Record
  BY DEF IInv, TypeOK
<1>. QED  BY <1>1, SweepKeeps, RowMoves DEF Moved

-----------------------------------------------------------------------------
(* The pieces of the inductive invariant a client step can disturb *)

\* What names an exchange is a pair of natural numbers.
LEMMA RefsNat ==
  ASSUME TypeOK
  PROVE  \A a \in Refs : a[1] \in Nat /\ a[2] \in Nat
<1>1. record.xid \in Nat /\ record.seq \in Nat
  BY ConstantsAssumption DEF TypeOK, Record, IdOrNone
<1>2. \A m \in net : m.xid \in Nat /\ m.seq \in Nat
  BY ConstantsAssumption DEF TypeOK, Message, ExchangeId
<1>3. \A s \in Side : disk[s].pending.xid \in Nat /\ disk[s].pending.seq \in Nat
  BY ConstantsAssumption DEF TypeOK, Relationship, Pending, IdOrNone
<1>4. \A s \in Side : view[s].xid \in Nat /\ view[s].seq \in Nat
  BY ConstantsAssumption DEF TypeOK, Record, IdOrNone
<1>5. \A s \in Side : mem[s].pending.xid \in Nat /\ mem[s].pending.seq \in Nat
  BY ConstantsAssumption DEF TypeOK, Relationship, Pending, IdOrNone
<1>6. Responder \in Side
  BY DEF Side
<1>. QED  BY <1>1, <1>2, <1>3, <1>4, <1>5, <1>6 DEF Refs

\* No step but the initiator's save names an exchange anew.
LEMMA RefsKept ==
  ASSUME IInv, TypeOK', Refs' \subseteq Refs, fresh' >= fresh,
         disk'[Initiator].seq >= disk[Initiator].seq
  PROVE  RefsOrdered' /\ RefsBounded'
<1>1. RefsOrdered'
  BY DEF IInv, RefsOrdered
<1>2. /\ fresh \in Nat /\ fresh' \in Nat
      /\ disk[Initiator].seq \in Nat /\ disk'[Initiator].seq \in Nat
  BY ConstantsAssumption DEF IInv, TypeOK, IdOrNone, Relationship, Side
<1>3. \A a \in Refs : a[1] \in Nat /\ a[2] \in Nat
  BY RefsNat DEF IInv
<1>4. RefsBounded'
  BY <1>2, <1>3 DEF IInv, RefsBounded
<1>. QED  BY <1>1, <1>4

\* Evidence survives a transaction, and a new view is covered by the row.
LEMMA EvidenceKept ==
  ASSUME IInv, TInv', \A x : Decided(outcome, x) => Decided(outcome', x),
         RowEvidence(outcome', record'),
         \A s \in Side : view'[s] \in {view[s], Answer(record'), NoRecord},
         \A s \in Side : \/ PendingEvidence(outcome, disk'[s].pending, s)
                         \/ disk'[s].pending.xid = 0,
         \A s \in Side : \/ PendingEvidence(outcome, mem'[s].pending, s)
                         \/ mem'[s].pending.xid = 0
  PROVE  Evidence'
<1>1. RowEvidence(outcome', Answer(record'))
  BY AnswerSays DEF RowEvidence, RowShows, TInv, TypeOK
<1>. QED  BY <1>1 DEF IInv, Evidence, RowEvidence, PendingEvidence, NoRecord

\* Replaying one message of a row adds no evidence the row does not show.
LEMMA TryEvidence ==
  ASSUME NEW d \in Decision, NEW v \in Record, NEW k \in Kind, NEW s \in Side,
         DecisionShows(Try(d, v, k, Peer(s)), s)
  PROVE  DecisionShows(d, s) \/ RowShows(v)
<1>. DEFINE e == Advanced(d, k, Peer(s))
<1>1. CASE Try(d, v, k, Peer(s)) = d
  BY <1>1
<1>2. CASE <<k, Peer(s)>> \in v.messages /\ CanAdvance(d, k, Peer(s)) /\ DecisionShows(e, s)
  <2>1. CASE k = "Ready"
    <3>1. e.phase = "Ready" /\ e.installed = d.installed
      BY <2>1 DEF Advanced, Decision
    <3>. QED  BY <1>2, <3>1 DEF DecisionShows
  <2>2. CASE k = "Commit"
    BY <1>2, <2>2 DEF CanAdvance, RowShows
  <2>3. CASE k = "Abort"
    <3>1. e.phase = "Aborted" /\ e.installed = d.installed
      BY <2>3 DEF Advanced, Decision
    <3>. QED  BY <1>2, <3>1 DEF DecisionShows
  <2>4. CASE k = "Installed"
    <3>1. e.phase = d.phase /\ e.installed = d.installed \cup {Peer(s)}
      BY <2>4 DEF Advanced, Decision
    <3>. QED  BY <1>2, <2>4, <3>1 DEF DecisionShows, RowShows, Peer
  <2>5. CASE k = "Confirmed"
    <3>1. e.installed = d.installed /\ d.phase = "Committed"
      BY <1>2, <2>5 DEF Advanced, Decision, CanAdvance
    <3>. QED  BY <1>2, <3>1 DEF DecisionShows
  <2>. QED  BY <1>2, <2>1, <2>2, <2>3, <2>4, <2>5 DEF CanAdvance
<1>. QED  BY <1>1, <1>2 DEF Try
\* What a side has observed is evidence as good as what it had.
LEMMA ObservedEvidence ==
  ASSUME IInv, NEW s \in Side
  PROVE  PendingEvidence(outcome, Observed(s), s)
<1>. DEFINE p == disk[s].pending
            v == view[s]
            d == p.decision
<1>1. p \in Pending /\ v \in Record /\ d \in Decision /\ Observed(s).xid = p.xid
  BY ObservedType DEF IInv, TypeOK, Pending
<1>2. PendingEvidence(outcome, p, s) /\ RowEvidence(outcome, v)
  BY DEF IInv, Evidence
<1>3. CASE ~SameExchange(v, p)
  BY <1>2, <1>3 DEF Observed, Observe
<1>4. CASE SameExchange(v, p) /\ Terminal(v.decision) /\ ~Terminal(d)
  <2>1. Observed(s).decision = v.decision
    BY <1>1, <1>4 DEF Observed, Observe, Pending
  <2>2. v.xid = p.xid /\ v.xid # 0
    BY <1>4 DEF SameExchange
  <2>. QED
    BY <1>1, <1>2, <2>1, <2>2 DEF PendingEvidence, RowEvidence, DecisionShows, RowShows
<1>5. CASE SameExchange(v, p) /\ ~(Terminal(v.decision) /\ ~Terminal(d))
  <2>. DEFINE o  == Peer(s)
              d1 == Try(d, v, "Ready", o)
              d2 == Try(d1, v, "Commit", o)
              d3 == Try(d2, v, "Installed", o)
              d4 == Try(d3, v, "Confirmed", o)
  <2>1. Observed(s).decision = d4
    BY <1>1, <1>5 DEF Observed, Observe, Replay, Pending
  <2>2. o \in Side /\ {"Ready", "Commit", "Installed", "Confirmed"} \subseteq Kind
    BY DEF Peer, Side, Kind
  <2>3. \A e \in Decision, k \in Kind : Try(e, v, k, o) \in Decision
    BY <2>2, DecisionType DEF Try
  <2>4. d1 \in Decision /\ d2 \in Decision /\ d3 \in Decision
    BY <1>1, <2>2, <2>3
  <2>. HIDE DEF v, d, d1, d2, d3, d4
  <2>5. DecisionShows(d1, s) => DecisionShows(d, s) \/ RowShows(v)
    BY <1>1, <2>2, TryEvidence DEF d1
  <2>6. DecisionShows(d2, s) => DecisionShows(d1, s) \/ RowShows(v)
    BY <1>1, <2>2, <2>4, TryEvidence DEF d2
  <2>7. DecisionShows(d3, s) => DecisionShows(d2, s) \/ RowShows(v)
    BY <1>1, <2>2, <2>4, TryEvidence DEF d3
  <2>8. DecisionShows(d4, s) => DecisionShows(d3, s) \/ RowShows(v)
    BY <1>1, <2>2, <2>4, TryEvidence DEF d4
  <2>9. v.xid = p.xid /\ v.xid # 0
    BY <1>5 DEF SameExchange
  <2>. QED
    BY <1>1, <1>2, <2>1, <2>5, <2>6, <2>7, <2>8, <2>9
       DEF PendingEvidence, RowEvidence, d
<1>. QED  BY <1>3, <1>4, <1>5

\* The places an exchange can be named in.
LEMMA RefsWithin ==
  ASSUME <<record'.xid, record'.seq>> \in Refs,
         \A m \in net' : <<m.xid, m.seq>> \in Refs,
         \A s \in Side : <<disk'[s].pending.xid, disk'[s].pending.seq>> \in Refs,
         \A s \in Side : <<view'[s].xid, view'[s].seq>> \in Refs,
         <<mem'[Responder].pending.xid, mem'[Responder].pending.seq>> \in Refs
  PROVE  Refs' \subseteq Refs
<1>1. <<0, 0>> \in Refs
  BY DEF Refs
<1>. QED  BY <1>1 DEF Refs

\* Where exchanges are mentioned.
LEMMA RefsMembers ==
  /\ <<0, 0>> \in Refs
  /\ <<record.xid, record.seq>> \in Refs
  /\ \A m \in net : <<m.xid, m.seq>> \in Refs
  /\ \A s \in Side : <<disk[s].pending.xid, disk[s].pending.seq>> \in Refs
  /\ \A s \in Side : <<view[s].xid, view[s].seq>> \in Refs
  /\ <<mem[Responder].pending.xid, mem[Responder].pending.seq>> \in Refs
BY DEF Refs

\* What the initiator has not saved yet is left alone by everybody else.
LEMMA UnsavedKept ==
  ASSUME IInv, Refs' \subseteq Refs, fresh' = fresh,
         pc'[Initiator] = "save" =>
           /\ pc[Initiator] = "save"
           /\ mem'[Initiator] = mem[Initiator]
           /\ disk'[Initiator] = disk[Initiator]
  PROVE  Unsaved'
  BY DEF IInv, Unsaved, Continues

\* A kernel key stays decided.
LEMMA InstalledKept ==
  ASSUME IInv, \A x : Decided(outcome, x) => Decided(outcome', x),
         \A s \in Side : \/ psk'[s] \in {0, psk[s]}
                         \/ Decided(outcome, psk'[s])
  PROVE  InstalledOnlyCommitted'
<1>1. \A s \in Side : psk[s] # 0 => Decided(outcome, psk[s])
  BY ConstantsAssumption
     DEF IInv, TypeOK, InstalledOnlyCommitted, Decided, IdOrNone, ExchangeId
<1>. QED  BY <1>1 DEF InstalledOnlyCommitted, Decided
\* A cycle that is going to send preserves the invariant, if what it leaves in
\* memory continues the pending exchange, answers the one in view, or opens
\* the next one.
LEMMA SendsInv ==
  ASSUME IInv, TInv', NEW s \in Side, NEW rel \in Relationship, Sends(s, rel),
         PendingEvidence(outcome, rel.pending, s),
         InstalledOnlyCommitted',
         s = Responder => /\ <<rel.pending.xid, rel.pending.seq>> \in Refs
                          /\ fresh' = fresh,
         s = Initiator => \/ Continues(rel, disk[s]) /\ fresh' = fresh
                          \/ /\ rel.seq = disk[s].seq + 1
                             /\ rel.pending.seq = disk[s].seq
                             /\ rel.pending.xid = fresh'
                             /\ fresh' = fresh + 1
  PROVE  IInv'
<1>1. /\ mem \in [Side -> Relationship] /\ pc \in [Side -> PC] /\ view \in [Side -> Record]
      /\ fresh \in Nat /\ disk[Initiator].seq \in Nat
      /\ Initiator \in Side /\ Responder \in Side /\ Initiator # Responder
      /\ Side = {Initiator, Responder}
  BY ConstantsAssumption
     DEF IInv, TypeOK, IdOrNone, Relationship, Side, Initiator, Responder
<1>2. /\ record' = record /\ outcome' = outcome /\ net' = net /\ disk' = disk
      /\ mem' = [mem EXCEPT ![s] = rel] /\ pc' = [pc EXCEPT ![s] = "save"]
      /\ view' = [view EXCEPT ![s] = NoRecord]
  BY DEF Sends, serverVars
<1>3. Refs' \subseteq Refs
  <2>1. \A t \in Side : <<view'[t].xid, view'[t].seq>> \in Refs
    BY <1>1, <1>2, RefsMembers DEF NoRecord
  <2>2. <<mem'[Responder].pending.xid, mem'[Responder].pending.seq>> \in Refs
    BY <1>1, <1>2, RefsMembers
  <2>. QED  BY <1>2, <2>1, <2>2, RefsMembers, RefsWithin
<1>4. fresh' >= fresh
  BY <1>1
<1>5. RefsOrdered' /\ RefsBounded'
  BY <1>1, <1>2, <1>3, <1>4, RefsKept DEF TInv
<1>6. Unsaved'
  <2>1. CASE s = Responder
    BY <1>1, <1>2, <1>3, <2>1, UnsavedKept
  <2>2. CASE s = Initiator /\ Continues(rel, disk[s])
    BY <1>1, <1>2, <2>2 DEF Unsaved, Continues
  <2>3. CASE /\ s = Initiator
             /\ rel.seq = disk[s].seq + 1
             /\ rel.pending.seq = disk[s].seq
             /\ rel.pending.xid = fresh'
             /\ fresh' = fresh + 1
    <3>1. \A a \in Refs : a[1] < fresh'
      BY <1>1, <2>3, RefsNat DEF IInv, RefsBounded
    <3>2. \A a \in Refs' : a[1] < fresh'
      BY <1>3, <3>1
    <3>3. mem'[Initiator] = rel /\ disk'[Initiator] = disk[Initiator]
      BY <1>1, <1>2, <2>3
    <3>. QED  BY <2>3, <3>2, <3>3 DEF Unsaved
  <2>. QED  BY <1>1, <2>1, <2>2, <2>3
<1>7. RowIsLatest'
  BY <1>2 DEF IInv, RowIsLatest
<1>8. Evidence'
  BY <1>1, <1>2, EvidenceKept DEF IInv, Evidence
<1>. QED  BY <1>5, <1>6, <1>7, <1>8 DEF IInv, TInv

\* So does a cycle that ends with rel saved, or not saved.
LEMMA SettlesInv ==
  ASSUME IInv, TInv', NEW s \in Side, NEW rel \in Relationship, Settles(s, rel),
         rel.seq = disk[s].seq,
         <<rel.pending.xid, rel.pending.seq>> \in Refs,
         PendingEvidence(outcome, rel.pending, s)
  PROVE  IInv'
<1>1. /\ disk \in [Side -> Relationship] /\ pc \in [Side -> PC] /\ view \in [Side -> Record]
      /\ fresh \in Nat /\ disk[Initiator].seq \in Nat
      /\ Initiator \in Side /\ Side = {Initiator, Responder} /\ Initiator # Responder
  BY ConstantsAssumption
     DEF IInv, TypeOK, IdOrNone, Relationship, Side, Initiator, Responder
<1>2. /\ record' = record /\ outcome' = outcome /\ net' = net /\ mem' = mem
      /\ psk' = psk /\ fresh' = fresh
      /\ disk' = [disk EXCEPT ![s] = rel] \/ disk' = disk
      /\ pc' = [pc EXCEPT ![s] = "idle"]
      /\ view' = [view EXCEPT ![s] = NoRecord]
  BY DEF Settles, serverVars
<1>3. \A t \in Side : disk'[t] = disk[t] \/ (t = s /\ disk'[t] = rel)
  BY <1>1, <1>2
<1>4. Refs' \subseteq Refs
  <2>1. \A t \in Side : <<view'[t].xid, view'[t].seq>> \in Refs
    BY <1>1, <1>2, RefsMembers DEF NoRecord
  <2>2. \A t \in Side : <<disk'[t].pending.xid, disk'[t].pending.seq>> \in Refs
    BY <1>3, RefsMembers
  <2>. QED  BY <1>2, <2>1, <2>2, RefsMembers, RefsWithin
<1>5. RefsOrdered' /\ RefsBounded'
  <2>1. disk'[Initiator].seq = disk[Initiator].seq
    BY <1>1, <1>3
  <2>. QED  BY <1>1, <1>2, <1>4, <2>1, RefsKept DEF TInv
<1>6. Unsaved'
  BY <1>1, <1>2, <1>3, <1>4, UnsavedKept
<1>7. RowIsLatest'
  BY <1>2 DEF IInv, RowIsLatest
<1>8. Evidence'
  <2>1. \A t \in Side : view'[t] \in {view[t], Answer(record'), NoRecord}
    BY <1>1, <1>2
  <2>2. \A t \in Side : PendingEvidence(outcome, disk'[t].pending, t)
    BY <1>3 DEF IInv, Evidence
  <2>. QED  BY <1>2, <2>1, <2>2, EvidenceKept DEF IInv, Evidence
<1>9. InstalledOnlyCommitted'
  BY <1>2, InstalledKept
<1>. QED  BY <1>5, <1>6, <1>7, <1>8, <1>9 DEF IInv, TInv

\* A side's own message adds no evidence that was not there: it commits only
\* as the initiator, and installs only a committed candidate.
LEMMA OwnMessageEvidence ==
  ASSUME NEW p \in Pending, NEW q \in Pending, NEW s \in Side,
         NEW k \in {"Commit", "Installed", "Confirmed"},
         k = "Commit" => s = Initiator,
         k # "Commit" => p.decision.phase = "Committed",
         q.xid = p.xid, q.decision = Advanced(p.decision, k, s),
         PendingEvidence(outcome, p, s)
  PROVE  PendingEvidence(outcome, q, s)
<1>. DEFINE d == p.decision
            e == Advanced(d, k, s)
<1>1. d \in Decision
  BY DEF Pending
<1>2. DecisionShows(e, s) => DecisionShows(d, s)
  <2>1. CASE k = "Commit"
    <3>1. e.installed = d.installed
      BY <1>1, <2>1 DEF Advanced, Decision
    <3>. QED  BY <2>1, <3>1 DEF DecisionShows, Initiator, Responder
  <2>2. CASE k = "Installed"
    <3>1. e.installed = d.installed \cup {s} /\ e.phase = d.phase
      BY <1>1, <2>2 DEF Advanced, Decision
    <3>. QED  BY <2>2, <3>1 DEF DecisionShows
  <2>3. CASE k = "Confirmed"
    <3>1. e.installed = d.installed
      BY <1>1, <2>3 DEF Advanced, Decision
    <3>. QED  BY <2>3, <3>1 DEF DecisionShows
  <2>. QED  BY <2>1, <2>2, <2>3
<1>. QED  BY <1>2 DEF PendingEvidence

\* The relationship rel that a side leaves in memory when it adds message k to
\* its pending exchange.
LEMMA PushInv ==
  ASSUME IInv, NEW s \in Side, NEW k \in {"Commit", "Installed", "Confirmed"},
         NEW p \in Pending,
         p.xid = Observed(s).xid, p.seq = Observed(s).seq,
         p.decision = Advanced(Observed(s).decision, k, s),
         k = "Commit" => s = Initiator,
         k # "Commit" => Observed(s).decision.phase = "Committed"
  PROVE  LET rel == [disk[s] EXCEPT !.pending = p] IN
         /\ rel \in Relationship
         /\ PendingEvidence(outcome, rel.pending, s)
         /\ <<rel.pending.xid, rel.pending.seq>> \in Refs
         /\ Continues(rel, disk[s])
<1>1. /\ disk[s] \in Relationship /\ Observed(s) \in Pending
      /\ Observed(s).xid = disk[s].pending.xid /\ Observed(s).seq = disk[s].pending.seq
  BY ObservedType DEF IInv
<1>2. PendingEvidence(outcome, p, s)
  BY <1>1, ObservedEvidence, OwnMessageEvidence
<1>3. [disk[s] EXCEPT !.pending = p] \in Relationship
  BY <1>1 DEF Relationship
<1>4. /\ [disk[s] EXCEPT !.pending = p].pending = p
      /\ [disk[s] EXCEPT !.pending = p].seq = disk[s].seq
  BY <1>1 DEF Relationship
<1>. QED  BY <1>1, <1>2, <1>3, <1>4, RefsMembers DEF Continues

\* The branches of `reconcile` preserve the invariant.
LEMMA ReconcileInv ==
  ASSUME IInv, TInv', NEW s \in Side, Reconcile(s)
  PROVE  IInv'
<1>1. /\ disk[s] \in Relationship /\ disk[s].pending \in Pending /\ view[s] \in Record
      /\ Observed(s) \in Pending
      /\ Observed(s).xid = disk[s].pending.xid /\ Observed(s).seq = disk[s].pending.seq
  BY ObservedType DEF IInv, TypeOK
<1>2. PendingEvidence(outcome, Observed(s), s) /\ PendingEvidence(outcome, disk[s].pending, s)
  BY ObservedEvidence DEF IInv, Evidence
<1>3. ASSUME outcome' = outcome, psk' = psk PROVE InstalledOnlyCommitted'
  BY <1>3, InstalledKept
<1>4. ASSUME NEW rel, Sends(s, rel) PROVE outcome' = outcome
  BY <1>4 DEF Sends, serverVars
<1>5. /\ NoPending \in Pending /\ NoPending.xid = 0 /\ NoPending.seq = 0
      /\ PendingEvidence(outcome, NoPending, s)
  BY RelationshipType DEF NoPending, PendingEvidence
<1>6. CASE StartExchange(s)
  <2>. DEFINE p   == [NoPending EXCEPT !.xid = fresh + 1, !.seq = disk[s].seq]
              rel == [disk[s] EXCEPT !.seq = @ + 1, !.pending = p]
  <2>1. fresh + 1 \in IdOrNone /\ fresh' = fresh + 1 /\ s = Initiator
    BY <1>6, ConstantsAssumption DEF StartExchange, IInv, TypeOK, IdOrNone
  <2>2. /\ p \in Pending /\ p.xid = fresh + 1 /\ p.seq = disk[s].seq
        /\ p.decision = NewDecision
    BY <1>1, <1>5, <2>1 DEF Pending, Relationship, NoPending
  <2>. HIDE DEF p
  <2>3. disk[s].seq + 1 \in Nat
    BY <1>1 DEF Relationship
  <2>4. rel \in Relationship /\ rel.seq = disk[s].seq + 1 /\ rel.pending = p
    BY <1>1, <2>2, <2>3 DEF Relationship
  <2>5. PendingEvidence(outcome, p, s)
    BY <2>2 DEF PendingEvidence, DecisionShows, NewDecision
  <2>6. Sends(s, rel) /\ psk' = psk
    BY <1>6 DEF StartExchange, p
  <2>7. Initiator # Responder
    BY DEF Initiator, Responder
  <2>. HIDE DEF rel
  <2>. QED  BY <1>3, <1>4, <2>1, <2>2, <2>4, <2>5, <2>6, <2>7, SendsInv
<1>7. CASE AnswerProposal(s)
  <2>. DEFINE p   == [NoPending EXCEPT !.xid = view[s].xid, !.seq = view[s].seq,
                                       !.decision = Advanced(NewDecision, "Ready", s),
                                       !.last = "Ready"]
              rel == [disk[s] EXCEPT !.pending = p]
  <2>1. /\ Advanced(NewDecision, "Ready", s) \in Decision
        /\ Advanced(NewDecision, "Ready", s).phase = "Ready"
        /\ Advanced(NewDecision, "Ready", s).installed = {}
    BY DecisionType DEF Kind, Advanced, NewDecision
  <2>2. /\ p \in Pending /\ p.xid = view[s].xid /\ p.seq = view[s].seq
        /\ p.decision = Advanced(NewDecision, "Ready", s)
    BY <1>1, <1>5, <2>1 DEF Pending, Record, NoPending, Kind
  <2>. HIDE DEF p
  <2>3. rel \in Relationship /\ rel.pending = p
    BY <1>1, <2>2 DEF Relationship
  <2>4. PendingEvidence(outcome, p, s)
    BY <2>1, <2>2 DEF PendingEvidence, DecisionShows
  <2>5. Sends(s, rel) /\ psk' = psk /\ fresh' = fresh /\ s = Responder
    BY <1>7 DEF AnswerProposal, Answerable, p
  <2>6. Initiator # Responder
    BY DEF Initiator, Responder
  <2>. HIDE DEF rel
  <2>. QED  BY <1>3, <1>4, <2>2, <2>3, <2>4, <2>5, <2>6, RefsMembers, SendsInv
<1>8. CASE NothingPending(s)
  BY <1>1, <1>2, <1>8, RefsMembers, SettlesInv DEF NothingPending
<1>9. ASSUME NEW p \in Pending
      PROVE  /\ [disk[s] EXCEPT !.pending = p] \in Relationship
             /\ [disk[s] EXCEPT !.pending = p].pending = p
             /\ [disk[s] EXCEPT !.pending = p].seq = disk[s].seq
  BY <1>1 DEF Relationship
<1>10. CASE Resend(s)
  <2>. DEFINE rel == [disk[s] EXCEPT !.pending = Observed(s)]
  <2>1. rel \in Relationship /\ rel.pending = Observed(s) /\ rel.seq = disk[s].seq
    BY <1>1, <1>9
  <2>2. Sends(s, rel) /\ psk' = psk /\ fresh' = fresh
    BY <1>10 DEF Resend
  <2>3. Continues(rel, disk[s]) /\ <<rel.pending.xid, rel.pending.seq>> \in Refs
    BY <1>1, <2>1, RefsMembers DEF Continues
  <2>. HIDE DEF rel
  <2>. QED  BY <1>2, <1>3, <1>4, <2>1, <2>2, <2>3, SendsInv
<1>11. CASE DropAborted(s)
  <2>. DEFINE rel == [disk[s] EXCEPT !.pending = NoPending]
  <2>1. rel \in Relationship /\ rel.pending = NoPending /\ rel.seq = disk[s].seq
    BY <1>5, <1>9
  <2>2. Settles(s, rel)
    BY <1>11 DEF DropAborted
  <2>. HIDE DEF rel
  <2>. QED  BY <1>5, <2>1, <2>2, RefsMembers, SettlesInv
<1>12. CASE SendCommit(s)
  <2>. DEFINE q   == Push(Observed(s), "Commit")
              p   == [q EXCEPT !.decision = Advanced(@, "Commit", s)]
              rel == [disk[s] EXCEPT !.pending = p]
  <2>1. /\ q \in Pending /\ q.xid = Observed(s).xid /\ q.seq = Observed(s).seq
        /\ q.decision = Observed(s).decision
    BY <1>1, RelationshipType DEF Kind
  <2>2. Advanced(q.decision, "Commit", s) \in Decision
    BY <2>1, DecisionType DEF Pending, Kind
  <2>3. /\ p \in Pending /\ p.xid = Observed(s).xid /\ p.seq = Observed(s).seq
        /\ p.decision = Advanced(Observed(s).decision, "Commit", s)
    BY <2>1, <2>2 DEF Pending
  <2>4. Sends(s, rel) /\ psk' = psk /\ fresh' = fresh /\ s = Initiator
    BY <1>12 DEF SendCommit
  <2>. HIDE DEF p
  <2>5. /\ rel \in Relationship /\ PendingEvidence(outcome, rel.pending, s)
        /\ <<rel.pending.xid, rel.pending.seq>> \in Refs /\ Continues(rel, disk[s])
    BY <2>3, <2>4, PushInv
  <2>. HIDE DEF rel
  <2>. QED  BY <1>3, <1>4, <2>4, <2>5, SendsInv
<1>13. CASE InstallCandidate(s)
  <2>. DEFINE q   == Push(Observed(s), "Installed")
              p   == [q EXCEPT !.installed = TRUE, !.decision = Advanced(@, "Installed", s)]
              rel == [disk[s] EXCEPT !.pending = p]
  <2>1. /\ q \in Pending /\ q.xid = Observed(s).xid /\ q.seq = Observed(s).seq
        /\ q.decision = Observed(s).decision
    BY <1>1, RelationshipType DEF Kind
  <2>2. Advanced(q.decision, "Installed", s) \in Decision
    BY <2>1, DecisionType DEF Pending, Kind
  <2>3. /\ p \in Pending /\ p.xid = Observed(s).xid /\ p.seq = Observed(s).seq
        /\ p.decision = Advanced(Observed(s).decision, "Installed", s)
    BY <2>1, <2>2 DEF Pending
  <2>4. /\ Sends(s, rel) /\ fresh' = fresh
        /\ Observed(s).decision.phase = "Committed" /\ Observed(s).xid # 0
    BY <1>1, <1>13 DEF InstallCandidate, Matching
  <2>. HIDE DEF p
  <2>5. /\ rel \in Relationship /\ PendingEvidence(outcome, rel.pending, s)
        /\ <<rel.pending.xid, rel.pending.seq>> \in Refs /\ Continues(rel, disk[s])
    BY <2>3, <2>4, PushInv
  <2>. HIDE DEF rel
  <2>6. Decided(outcome, Observed(s).xid)
    BY <1>2, <1>13, <2>4 DEF PendingEvidence, DecisionShows, InstallCandidate, MayInstall
  <2>7. psk \in [Side -> IdOrNone] /\ psk' = [psk EXCEPT ![s] = Observed(s).xid]
    BY <1>13 DEF InstallCandidate, IInv, TypeOK
  <2>8. \A t \in Side : psk'[t] \in {0, psk[t]} \/ Decided(outcome, psk'[t])
    BY <2>6, <2>7
  <2>9. InstalledOnlyCommitted'
    BY <1>4, <2>4, <2>8, InstalledKept
  <2>. QED  BY <2>4, <2>5, <2>9, SendsInv
<1>14. CASE ConfirmHandshake(s)
  <2>. DEFINE q   == Push(Observed(s), "Confirmed")
              p   == [q EXCEPT !.confirmed = TRUE, !.decision = Advanced(@, "Confirmed", s)]
              rel == [disk[s] EXCEPT !.pending = p]
  <2>1. /\ q \in Pending /\ q.xid = Observed(s).xid /\ q.seq = Observed(s).seq
        /\ q.decision = Observed(s).decision
    BY <1>1, RelationshipType DEF Kind
  <2>2. Advanced(q.decision, "Confirmed", s) \in Decision
    BY <2>1, DecisionType DEF Pending, Kind
  <2>3. /\ p \in Pending /\ p.xid = Observed(s).xid /\ p.seq = Observed(s).seq
        /\ p.decision = Advanced(Observed(s).decision, "Confirmed", s)
    BY <2>1, <2>2 DEF Pending
  <2>4. /\ Sends(s, rel) /\ psk' = psk /\ fresh' = fresh
        /\ Observed(s).decision.phase = "Committed"
    BY <1>14 DEF ConfirmHandshake, Matching
  <2>. HIDE DEF p
  <2>5. /\ rel \in Relationship /\ PendingEvidence(outcome, rel.pending, s)
        /\ <<rel.pending.xid, rel.pending.seq>> \in Refs /\ Continues(rel, disk[s])
    BY <2>3, <2>4, PushInv
  <2>. HIDE DEF rel
  <2>. QED  BY <1>3, <1>4, <2>4, <2>5, SendsInv
<1>15. CASE FinishExchange(s)
  <2>. DEFINE rel == [disk[s] EXCEPT !.confirmed = disk[s].pending.xid, !.pending = NoPending]
  <2>1. rel \in Relationship /\ rel.pending = NoPending /\ rel.seq = disk[s].seq
    BY <1>1, <1>5 DEF Relationship, Pending
  <2>2. Settles(s, rel)
    BY <1>15 DEF FinishExchange
  <2>. HIDE DEF rel
  <2>. QED  BY <1>5, <2>1, <2>2, RefsMembers, SettlesInv
<1>16. CASE Wait(s)
  <2>. DEFINE rel == [disk[s] EXCEPT !.pending = Observed(s)]
  <2>1. rel \in Relationship /\ rel.pending = Observed(s) /\ rel.seq = disk[s].seq
    BY <1>1, <1>9
  <2>2. Settles(s, rel)
    BY <1>16 DEF Wait
  <2>. HIDE DEF rel
  <2>. QED  BY <1>1, <1>2, <2>1, <2>2, RefsMembers, SettlesInv
<1>. QED
  BY <1>6, <1>7, <1>8, <1>10, <1>11, <1>12, <1>13, <1>14, <1>15, <1>16 DEF Reconcile
-----------------------------------------------------------------------------
(* Every step preserves the inductive invariant *)

\* Relationships that differ at most in the retry clock and local flags.
SamePending(new, old) == Continues(new, old) /\ new.pending.decision = old.pending.decision

\* A step with one server transaction in it.
LEMMA TransactionInv ==
  ASSUME IInv, TInv', NEW q \in Record, Write(q), Moved(q),
         fresh' = fresh, psk' = psk, net' \subseteq net, mem' = mem,
         \A t \in Side : view'[t] \in {view[t], Answer(record')},
         \A t \in Side : SamePending(disk'[t], disk[t]),
         pc'[Initiator] = "save" =>
           pc[Initiator] = "save" /\ disk'[Initiator] = disk[Initiator]
  PROVE  IInv' /\ DecisionsStay /\ CommitsInTime
<1>1. /\ RowIsLatest' /\ RowEvidence(outcome', record')
      /\ \A x : Decided(outcome, x) => Decided(outcome', x)
      /\ DecisionsStay /\ CommitsInTime
      /\ <<record'.xid, record'.seq>> \in Refs
  BY WriteMoves
<1>2. /\ fresh \in Nat /\ disk[Initiator].seq \in Nat /\ Initiator \in Side
  BY ConstantsAssumption DEF IInv, TypeOK, IdOrNone, Relationship, Side
<1>3. Refs' \subseteq Refs
  <2>1. \A t \in Side : <<disk'[t].pending.xid, disk'[t].pending.seq>> \in Refs
    BY RefsMembers DEF SamePending, Continues
  <2>2. \A t \in Side : <<view'[t].xid, view'[t].seq>> \in Refs
    BY <1>1, AnswerSays, RefsMembers DEF TInv, TypeOK
  <2>. QED  BY <1>1, <2>1, <2>2, RefsMembers, RefsWithin
<1>4. RefsOrdered' /\ RefsBounded'
  BY <1>2, <1>3, RefsKept DEF TInv, SamePending, Continues
<1>5. Unsaved'
  BY <1>3, UnsavedKept
<1>6. Evidence'
  <2>1. \A t \in Side : PendingEvidence(outcome, disk'[t].pending, t)
    BY DEF IInv, Evidence, PendingEvidence, SamePending, Continues
  <2>2. \A t \in Side : PendingEvidence(outcome, mem'[t].pending, t)
    BY DEF IInv, Evidence
  <2>. QED  BY <1>1, <2>1, <2>2, EvidenceKept
<1>7. InstalledOnlyCommitted'
  BY <1>1, InstalledKept
<1>. QED  BY <1>1, <1>4, <1>5, <1>6, <1>7 DEF IInv, TInv

\* A step without one, that names no new exchange.
LEMMA QuietInv ==
  ASSUME IInv, TInv', outcome' = outcome, fresh' = fresh,
         record'.xid = record.xid, record'.seq = record.seq,
         record'.decision = record.decision, record'.messages = record.messages,
         \A m \in net' : <<m.xid, m.seq>> \in Refs,
         \A t \in Side : psk'[t] \in {0, psk[t]},
         \A t \in Side : view'[t] \in {view[t], NoRecord},
         \A t \in Side : mem'[t] \in {mem[t], NewRelationship},
         \A t \in Side : /\ Continues(disk'[t], disk[t])
                         /\ PendingEvidence(outcome, disk'[t].pending, t),
         pc'[Initiator] = "save" => /\ pc[Initiator] = "save"
                                    /\ mem'[Initiator] = mem[Initiator]
                                    /\ disk'[Initiator] = disk[Initiator]
  PROVE  IInv'
<1>1. /\ fresh \in Nat /\ disk[Initiator].seq \in Nat
      /\ Initiator \in Side /\ Responder \in Side
  BY ConstantsAssumption DEF IInv, TypeOK, IdOrNone, Relationship, Side
<1>2. NewRelationship.pending.xid = 0 /\ NewRelationship.pending.seq = 0
  BY DEF NewRelationship, NoPending
<1>3. Refs' \subseteq Refs
  <2>1. \A t \in Side : <<disk'[t].pending.xid, disk'[t].pending.seq>> \in Refs
    BY RefsMembers DEF Continues
  <2>2. \A t \in Side : <<view'[t].xid, view'[t].seq>> \in Refs
    BY RefsMembers DEF NoRecord
  <2>3. <<mem'[Responder].pending.xid, mem'[Responder].pending.seq>> \in Refs
    BY <1>1, <1>2, RefsMembers
  <2>. QED  BY <2>1, <2>2, <2>3, RefsMembers, RefsWithin
<1>4. RefsOrdered' /\ RefsBounded'
  BY <1>1, <1>3, RefsKept DEF TInv, Continues
<1>5. Unsaved'
  BY <1>3, UnsavedKept
<1>6. RowIsLatest'
  BY DEF IInv, RowIsLatest
<1>7. Evidence'
  <2>1. RowEvidence(outcome', record')
    BY DEF IInv, Evidence, RowEvidence, RowShows
  <2>2. \A t \in Side : \/ PendingEvidence(outcome, mem'[t].pending, t)
                        \/ mem'[t].pending.xid = 0
    BY <1>2 DEF IInv, Evidence
  <2>. QED  BY <2>1, <2>2, EvidenceKept
<1>8. InstalledOnlyCommitted'
  BY InstalledKept
<1>. QED  BY <1>4, <1>5, <1>6, <1>7, <1>8 DEF IInv, TInv

\* Saving is where the initiator's new exchange gets its name.
LEMMA SaveInv ==
  ASSUME IInv, TInv', NEW s \in Side, Save(s)
  PROVE  IInv'
<1>1. /\ disk \in [Side -> Relationship] /\ mem \in [Side -> Relationship]
      /\ pc \in [Side -> PC] /\ fresh \in Nat /\ disk[Initiator].seq \in Nat
      /\ Initiator \in Side /\ Responder \in Side /\ Initiator # Responder
      /\ Side = {Initiator, Responder}
  BY ConstantsAssumption
     DEF IInv, TypeOK, IdOrNone, Relationship, Side, Initiator, Responder
<1>2. /\ record' = record /\ outcome' = outcome /\ net' = net /\ view' = view
      /\ psk' = psk /\ fresh' = fresh
      /\ disk' = [disk EXCEPT ![s] = mem[s]]
      /\ mem' = [mem EXCEPT ![s] = NewRelationship]
      /\ pc' = [pc EXCEPT ![s] = "send"] /\ pc[s] = "save"
  BY DEF Save, serverVars, kernelVars
<1>3. NewRelationship.pending.xid = 0 /\ NewRelationship.pending.seq = 0
  BY DEF NewRelationship, NoPending
<1>4. <<mem'[Responder].pending.xid, mem'[Responder].pending.seq>> \in Refs
  BY <1>1, <1>2, <1>3, RefsMembers
<1>5. RowIsLatest' /\ InstalledOnlyCommitted'
  BY <1>2, InstalledKept DEF IInv, RowIsLatest
<1>6. Evidence'
  <2>1. \A t \in Side : PendingEvidence(outcome, disk'[t].pending, t)
    BY <1>1, <1>2 DEF IInv, Evidence
  <2>2. \A t \in Side : \/ PendingEvidence(outcome, mem'[t].pending, t)
                        \/ mem'[t].pending.xid = 0
    BY <1>1, <1>2, <1>3 DEF IInv, Evidence
  <2>3. RowEvidence(outcome', record') /\ \A t \in Side : view'[t] \in {view[t], Answer(record'), NoRecord}
    BY <1>2 DEF IInv, Evidence
  <2>. QED  BY <1>2, <2>1, <2>2, <2>3, EvidenceKept
<1>7. CASE s = Responder \/ Continues(mem[Initiator], disk[Initiator])
  <2>1. \A t \in Side : <<disk'[t].pending.xid, disk'[t].pending.seq>> \in Refs
    BY <1>1, <1>2, <1>7, RefsMembers DEF Continues
  <2>2. Refs' \subseteq Refs
    BY <1>2, <1>4, <2>1, RefsMembers, RefsWithin
  <2>3. disk'[Initiator].seq = disk[Initiator].seq
    BY <1>1, <1>2, <1>7 DEF Continues
  <2>4. RefsOrdered' /\ RefsBounded'
    BY <1>1, <1>2, <2>2, <2>3, RefsKept DEF TInv
  <2>5. Unsaved'
    BY <1>1, <1>2, <2>2, UnsavedKept
  <2>. QED  BY <1>5, <1>6, <2>4, <2>5 DEF IInv, TInv
<1>8. CASE /\ s = Initiator
           /\ mem[s].seq = disk[s].seq + 1
           /\ mem[s].pending.seq = disk[s].seq
           /\ mem[s].pending.xid = fresh
           /\ \A a \in Refs : a[1] < fresh
  <2>. DEFINE n == <<fresh, disk[Initiator].seq>>
  <2>1. Refs' \subseteq Refs \cup {n}
    <3>1. \A t \in Side :
            <<disk'[t].pending.xid, disk'[t].pending.seq>> \in Refs \cup {n}
      BY <1>1, <1>2, <1>8, RefsMembers
    <3>. HIDE DEF n
    <3>2. \A a \in Refs' :
            \/ a \in Refs
            \/ a \in {<<disk'[t].pending.xid, disk'[t].pending.seq>> : t \in Side}
      BY <1>2, <1>4, RefsMembers DEF Refs
    <3>. QED  BY <3>1, <3>2
  <2>2. \A a \in Refs : a[1] \in Nat /\ a[2] \in Nat /\ a[2] < disk[Initiator].seq
    BY RefsNat DEF IInv, RefsBounded
  <2>3. n[1] = fresh /\ n[2] = disk[Initiator].seq
    OBVIOUS
  <2>. HIDE DEF n
  <2>4. RefsOrdered'
    <3>. SUFFICES ASSUME NEW a \in Refs \cup {n}, NEW b \in Refs \cup {n}
                  PROVE  a[1] < b[1] <=> a[2] < b[2]
      BY <2>1 DEF RefsOrdered
    <3>1. CASE a \in Refs /\ b \in Refs
      BY <3>1 DEF IInv, RefsOrdered
    <3>2. CASE a = n /\ b \in Refs
      BY <1>1, <1>8, <2>2, <2>3, <3>2
    <3>3. CASE a \in Refs /\ b = n
      BY <1>1, <1>8, <2>2, <2>3, <3>3
    <3>4. CASE a = n /\ b = n
      BY <1>1, <2>3, <3>4
    <3>. QED  BY <3>1, <3>2, <3>3, <3>4
  <2>5. disk'[Initiator].seq = disk[Initiator].seq + 1
    BY <1>1, <1>2, <1>8
  <2>6. RefsBounded'
    <3>. SUFFICES ASSUME NEW a \in Refs \cup {n}
                  PROVE  a[1] <= fresh /\ a[2] < disk[Initiator].seq + 1
      BY <1>2, <2>1, <2>5 DEF RefsBounded
    <3>. QED  BY <1>1, <1>8, <2>2, <2>3
  <2>7. Unsaved'
    BY <1>1, <1>2, <1>8 DEF Unsaved
  <2>. QED  BY <1>5, <1>6, <2>4, <2>6, <2>7 DEF IInv, TInv
<1>. QED  BY <1>1, <1>2, <1>7, <1>8 DEF IInv, Unsaved
\* One step per action; the action properties come with the transactions.
LEMMA StepInv ==
  ASSUME IInv, [Next]_vars
  PROVE  IInv' /\ DecisionsStay /\ CommitsInTime
<1>1. TInv /\ TInv'
  BY StepType DEF IInv, TInv
<1>2. ASSUME outcome' = outcome PROVE DecisionsStay /\ CommitsInTime
  BY <1>2 DEF DecisionsStay, CommitsInTime
<1>3. /\ record \in Record /\ Sweep(record) \in Record
      /\ \A m \in Message : Submit(Sweep(record), m) \in Record
  BY RowType DEF IInv, TypeOK
<1>4. /\ Side = {Initiator, Responder} /\ Initiator # Responder
      /\ disk \in [Side -> Relationship] /\ pc \in [Side -> PC]
      /\ view \in [Side -> Record] /\ mem \in [Side -> Relationship]
      /\ psk \in [Side -> IdOrNone]
  BY DEF IInv, TypeOK, Side, Initiator, Responder
<1>5. \A t \in Side : /\ PendingEvidence(outcome, disk[t].pending, t)
                      /\ PendingEvidence(outcome, Observed(t), t)
  BY ObservedEvidence DEF IInv, Evidence
<1>6. \A r : SamePending(r, r) /\ Continues(r, r)
  BY DEF SamePending, Continues
<1>7. \A m \in net : m \in Message /\ <<m.xid, m.seq>> \in Refs
  BY RefsMembers DEF IInv, TypeOK
<1>8. ASSUME NEW s \in Side, pc[s] = "send"
      PROVE  /\ Outgoing(s) \in Message
             /\ <<Outgoing(s).xid, Outgoing(s).seq>> \in Refs
  BY <1>1, <1>8, OutgoingType, RefsMembers DEF Outgoing
<1>9. ASSUME NEW s \in Side, NEW b \in BOOLEAN,
             disk' = [disk EXCEPT ![s].pending.backoff = b]
      PROVE  /\ \A t \in Side : SamePending(disk'[t], disk[t])
             /\ \A t \in Side : t # s => disk'[t] = disk[t]
  <2>1. \A t \in Side : disk[t] \in Relationship /\ disk[t].pending \in Pending
    BY ObservedType DEF IInv
  <2>2. disk'[s] = [disk[s] EXCEPT !.pending = [@ EXCEPT !.backoff = b]]
    BY <1>4, <1>9
  <2>3. SamePending(disk'[s], disk[s])
    BY <2>1, <2>2 DEF SamePending, Continues, Relationship, Pending
  <2>. QED  BY <1>4, <1>6, <1>9, <2>3
<1>10. \A t \in Side : SamePending(disk'[t], disk[t]) =>
          Continues(disk'[t], disk[t]) /\ PendingEvidence(outcome, disk'[t].pending, t)
  BY <1>5 DEF SamePending, Continues, PendingEvidence
<1>11. CASE Lapse
  <2>1. /\ record'.xid = record.xid /\ record'.seq = record.seq
        /\ record'.decision = record.decision /\ record'.messages = record.messages
    BY <1>3, <1>11 DEF Lapse, Record
  <2>. QED
    BY <1>1, <1>2, <1>5, <1>6, <1>7, <1>11, <2>1, QuietInv DEF Lapse, clientVars, kernelVars
<1>12. CASE SweepRow
  <2>1. Write(Sweep(record)) /\ Moved(Sweep(record))
    BY <1>12, TransactionMoves DEF SweepRow
  <2>. QED
    BY <1>1, <1>3, <1>6, <1>12, <2>1, TransactionInv DEF SweepRow, clientVars, kernelVars
<1>13. CASE DeliverLate
  <2>1. PICK m \in net : /\ Write(Submit(Sweep(record), m))
                         /\ net' = net \ {m}
                         /\ UNCHANGED <<clientVars, kernelVars, fresh, calm>>
    BY <1>13 DEF DeliverLate
  <2>2. Moved(Submit(Sweep(record), m)) /\ Submit(Sweep(record), m) \in Record
    BY <1>3, <1>7, TransactionMoves
  <2>. QED
    BY <1>1, <1>6, <2>1, <2>2, TransactionInv DEF clientVars, kernelVars
<1>14. CASE Handshake
  BY <1>1, <1>2, <1>5, <1>6, <1>7, <1>14, QuietInv DEF Handshake, clientVars, serverVars
<1>15. CASE CalmDown
  BY <1>1, <1>2, <1>5, <1>6, <1>7, <1>15, QuietInv
     DEF CalmDown, clientVars, serverVars, kernelVars
<1>16. ASSUME NEW s \in Side, Fetch(s) PROVE IInv' /\ DecisionsStay /\ CommitsInTime
  <2>1. Write(Sweep(record)) /\ Moved(Sweep(record)) /\ record' = Sweep(record)
    BY <1>16, TransactionMoves DEF Fetch, Write
  <2>2. /\ \A t \in Side : view'[t] \in {view[t], Answer(record')}
        /\ pc'[Initiator] = "save" => pc[Initiator] = "save"
    BY <1>4, <1>16, <2>1 DEF Fetch
  <2>. QED
    BY <1>1, <1>3, <1>6, <1>16, <2>1, <2>2, TransactionInv DEF Fetch, kernelVars
<1>17. ASSUME NEW s \in Side, Reconcile(s) PROVE IInv' /\ DecisionsStay /\ CommitsInTime
  <2>1. outcome' = outcome
    BY <1>17 DEF Reconcile, StartExchange, AnswerProposal, NothingPending, Resend,
                 DropAborted, SendCommit, InstallCandidate, ConfirmHandshake,
                 FinishExchange, Wait, Sends, Settles, serverVars
  <2>. QED  BY <1>1, <1>2, <1>17, <2>1, ReconcileInv
<1>18. ASSUME NEW s \in Side, Save(s) PROVE IInv' /\ DecisionsStay /\ CommitsInTime
  BY <1>1, <1>2, <1>18, SaveInv DEF Save, serverVars
<1>19. ASSUME NEW s \in Side, Put(s) PROVE IInv' /\ DecisionsStay /\ CommitsInTime
  <2>. DEFINE q == Submit(Sweep(record), Outgoing(s))
  <2>1. Write(q) /\ Moved(q) /\ q \in Record
    BY <1>3, <1>8, <1>19, TransactionMoves DEF Put
  <2>2. \/ disk' = disk
        \/ disk' = [disk EXCEPT ![s].pending.backoff = TRUE]
    BY <1>19 DEF Put, NoteSendFailure
  <2>3. /\ \A t \in Side : SamePending(disk'[t], disk[t])
        /\ \A t \in Side : t # s => disk'[t] = disk[t]
    BY <1>6, <1>9, <2>2
  <2>4. pc'[Initiator] = "save" => pc[Initiator] = "save" /\ disk'[Initiator] = disk[Initiator]
    BY <1>4, <1>19, <2>3 DEF Put
  <2>. HIDE DEF q
  <2>. QED
    BY <1>1, <1>19, <2>1, <2>3, <2>4, TransactionInv DEF Put, kernelVars
<1>20. ASSUME NEW s \in Side, PutLost(s) PROVE IInv' /\ DecisionsStay /\ CommitsInTime
  <2>1. \A m \in net' : <<m.xid, m.seq>> \in Refs
    BY <1>7, <1>8, <1>20 DEF PutLost, Unanswered
  <2>2. /\ \A t \in Side : SamePending(disk'[t], disk[t])
        /\ \A t \in Side : t # s => disk'[t] = disk[t]
    BY <1>9, <1>20 DEF PutLost, NoteSendFailure
  <2>3. pc'[Initiator] = "save" => pc[Initiator] = "save" /\ disk'[Initiator] = disk[Initiator]
    BY <1>4, <1>20, <2>2 DEF PutLost
  <2>. QED
    BY <1>1, <1>2, <1>10, <1>20, <2>1, <2>2, <2>3, QuietInv
       DEF PutLost, kernelVars, serverVars
<1>21. ASSUME NEW s \in Side, BackoffElapses(s)
       PROVE  IInv' /\ DecisionsStay /\ CommitsInTime
  <2>1. /\ \A t \in Side : SamePending(disk'[t], disk[t])
        /\ \A t \in Side : t # s => disk'[t] = disk[t]
    BY <1>9, <1>21 DEF BackoffElapses
  <2>2. pc'[Initiator] = "save" => pc[Initiator] = "save" /\ disk'[Initiator] = disk[Initiator]
    BY <1>4, <1>21, <2>1 DEF BackoffElapses
  <2>. QED
    BY <1>1, <1>2, <1>7, <1>10, <1>21, <2>1, <2>2, QuietInv
       DEF BackoffElapses, kernelVars, serverVars
<1>22. ASSUME NEW s \in Side, InstallFails(s)
       PROVE  IInv' /\ DecisionsStay /\ CommitsInTime
  <2>1. /\ disk[s] \in Relationship
        /\ Observed(s).xid = disk[s].pending.xid /\ Observed(s).seq = disk[s].pending.seq
    BY ObservedType DEF IInv
  <2>2. disk' = disk \/ disk' = [disk EXCEPT ![s] = [@ EXCEPT !.pending = Observed(s)]]
    BY <1>22 DEF InstallFails
  <2>3. /\ \A t \in Side : t # s => disk'[t] = disk[t]
        /\ \/ disk'[s] = disk[s]
           \/ disk'[s] = [disk[s] EXCEPT !.pending = Observed(s)]
    BY <1>4, <2>2
  <2>4. /\ Continues(disk'[s], disk[s])
        /\ PendingEvidence(outcome, disk'[s].pending, s)
    BY <1>5, <1>6, <2>1, <2>3 DEF Continues, Relationship
  <2>5. \A t \in Side : /\ Continues(disk'[t], disk[t])
                        /\ PendingEvidence(outcome, disk'[t].pending, t)
    BY <1>5, <1>6, <2>3, <2>4
  <2>6. /\ \A t \in Side : psk'[t] \in {0, psk[t]}
        /\ \A t \in Side : view'[t] \in {view[t], NoRecord}
        /\ pc'[Initiator] = "save" =>
              pc[Initiator] = "save" /\ disk'[Initiator] = disk[Initiator]
    BY <1>4, <1>22, <2>3 DEF InstallFails
  <2>. QED
    BY <1>1, <1>2, <1>7, <1>22, <2>5, <2>6, QuietInv DEF InstallFails, serverVars
<1>23. ASSUME NEW s \in Side, Crash(s) PROVE IInv' /\ DecisionsStay /\ CommitsInTime
  <2>1. \A m \in net' : <<m.xid, m.seq>> \in Refs
    BY <1>7, <1>8, <1>23 DEF Crash, Unanswered
  <2>2. /\ \A t \in Side : view'[t] \in {view[t], NoRecord}
        /\ \A t \in Side : mem'[t] \in {mem[t], NewRelationship}
        /\ pc'[Initiator] = "save" =>
              pc[Initiator] = "save" /\ mem'[Initiator] = mem[Initiator]
    BY <1>4, <1>23 DEF Crash
  <2>. QED
    BY <1>1, <1>2, <1>5, <1>6, <1>23, <2>1, <2>2, QuietInv DEF Crash, kernelVars, serverVars
<1>24. ASSUME NEW s \in Side, Reboot(s) PROVE IInv' /\ DecisionsStay /\ CommitsInTime
  <2>1. /\ \A t \in Side : view'[t] \in {view[t], NoRecord}
        /\ \A t \in Side : mem'[t] \in {mem[t], NewRelationship}
        /\ \A t \in Side : psk'[t] \in {0, psk[t]}
        /\ pc'[Initiator] = "save" =>
              pc[Initiator] = "save" /\ mem'[Initiator] = mem[Initiator]
    BY <1>4, <1>24 DEF Reboot
  <2>. QED
    BY <1>1, <1>2, <1>5, <1>6, <1>7, <1>24, <2>1, QuietInv DEF Reboot, serverVars
<1>25. CASE UNCHANGED vars
  BY <1>1, <1>2, <1>5, <1>6, <1>7, <1>25, QuietInv
     DEF vars, clientVars, serverVars, kernelVars
<1>. QED
  BY <1>11, <1>12, <1>13, <1>14, <1>15, <1>16, <1>17, <1>18, <1>19, <1>20, <1>21,
     <1>22, <1>23, <1>24, <1>25
     DEF Next, Cycle, Fault

\* The inductive invariant holds in every reachable state.
THEOREM Inductive == Spec => []IInv
<1>1. Init => IInv
  <2>. SUFFICES ASSUME Init PROVE IInv
    OBVIOUS
  <2>1. TypeOK /\ SendsPending
    <3>1. 0 \in IdOrNone
      BY ConstantsAssumption DEF IdOrNone
    <3>2. TypeOK
      BY <3>1, RelationshipType DEF Init, TypeOK, PC
    <3>3. SendsPending
      BY DEF Init, SendsPending
    <3>. QED  BY <3>2, <3>3
  <2>2. Initiator \in Side /\ Responder \in Side
    BY DEF Side
  <2>3. Refs = {<<0, 0>>}
    BY <2>2 DEF Init, Refs, NoRecord, NewRelationship, NoPending
  <2>4. RefsOrdered
    BY <2>3 DEF RefsOrdered
  <2>5. RefsBounded
    BY <2>2, <2>3 DEF RefsBounded, Init, NewRelationship
  <2>6. Unsaved /\ RowIsLatest
    BY <2>2 DEF Unsaved, RowIsLatest, Init, NoRecord
  <2>7. Evidence
    BY DEF Evidence, RowEvidence, PendingEvidence, Init, NoRecord, NewRelationship, NoPending
  <2>8. InstalledOnlyCommitted
    BY DEF InstalledOnlyCommitted, Init
  <2>. QED  BY <2>1, <2>4, <2>5, <2>6, <2>7, <2>8 DEF IInv
<1>2. IInv /\ [Next]_vars => IInv'
  BY StepInv
<1>. QED  BY <1>1, <1>2, PTL DEF Spec

\* No kernel ever runs a key whose exchange the server could still abort.
THEOREM OnlyCommittedInstalled == Spec => []InstalledOnlyCommitted
<1>1. IInv => InstalledOnlyCommitted
  BY DEF IInv
<1>. QED  BY <1>1, Inductive, PTL

\* No request in flight can be taken for one about another exchange.
THEOREM SequencesNameExchanges == Spec => []SequenceNamesExchange
<1>1. IInv => SequenceNamesExchange
  <2>. SUFFICES ASSUME IInv,
                       NEW m \in net \cup {Outgoing(s) : s \in {t \in Side : pc[t] = "send"}},
                       m.seq = record.seq
                PROVE  m.xid = record.xid
    BY DEF SequenceNamesExchange
  <2>1. <<m.xid, m.seq>> \in Refs
    BY RefsMembers DEF Outgoing
  <2>2. <<record.xid, record.seq>> \in Refs
    BY RefsMembers
  <2>. DEFINE a == <<m.xid, m.seq>>
              b == <<record.xid, record.seq>>
  <2>3. a[1] \in Nat /\ b[1] \in Nat /\ a[2] \in Nat /\ b[2] \in Nat
    BY <2>1, <2>2, RefsNat DEF IInv
  <2>4. (a[1] < b[1] <=> a[2] < b[2]) /\ (b[1] < a[1] <=> b[2] < a[2])
    BY <2>1, <2>2 DEF IInv, RefsOrdered
  <2>. QED  BY <2>3, <2>4
<1>. QED  BY <1>1, Inductive, PTL

\* What the server decided is never taken back.
THEOREM DecisionsAreFinal == Spec => OutcomeIsFinal
<1>1. IInv /\ [Next]_vars => [DecisionsStay]_vars
  BY StepInv
<1>. QED  BY <1>1, Inductive, PTL DEF Spec, OutcomeIsFinal

\* No transaction commits an exchange whose preparation has expired.
THEOREM ExpiredNeverCommits == Spec => NoCommitAfterLapse
<1>1. IInv /\ [Next]_vars => [CommitsInTime]_vars
  BY StepInv
<1>. QED  BY <1>1, Inductive, PTL DEF Spec, NoCommitAfterLapse
=============================================================================
