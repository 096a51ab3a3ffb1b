------------------------ MODULE ManagementLinkProofs ------------------------
(***************************************************************************)
(* Proofs about ManagementLink: the two ends of a managed link always have *)
(* a secret in common, agree when neither retains an old one, and no live  *)
(* entry is rebuilt without its preshared key.                             *)
(***************************************************************************)
EXTENDS ManagementLink, FiniteSetTheorems, TLAPS

\* What the two ends know of each other, s the server's link and c the
\* client's state: they agree, or one end has moved (forward, or back) and
\* the other still has what it moved from.
InStep(s, c) == s.active.psk = c.active.psk

ServerMoved(s, c) ==
  /\ s.previous # NoCand /\ c.previous = NoCand
  /\ s.previous.psk = c.active.psk
  /\ s.verified => c.staged = NoCand

ClientMoved(s, c) ==
  /\ s.previous = NoCand /\ c.previous # NoCand
  /\ c.previous.psk = s.active.psk

\* An end that retains a secret has no candidate.
OneAtATime(l) == l.previous # NoCand => l.staged = NoCand

Rel(s, c) ==
  /\ OneAtATime(s) /\ OneAtATime(c)
  /\ InStep(s, c) \/ ServerMoved(s, c) \/ ClientMoved(s, c)

\* An end that has anything has an active secret.
LinkOK(l) == l = NoLink \/ l.active \in Candidate
StateOK(c) == c = NoState \/ c.active \in Candidate

\* A peer before its client is managed.
Joining(inv, s, c) ==
  IF inv \in Candidate
  THEN /\ s.active = inv /\ s.staged = NoCand /\ s.previous = NoCand
       /\ c = NoState \/ c = [active |-> inv, staged |-> NoCand, previous |-> NoCand]
  ELSE c = NoState

PeerOK(p) ==
  /\ LinkOK(link[p]) /\ StateOK(cstate[p])
  /\ IF config[p] = "managed"
     THEN link[p].active \in Candidate /\ cstate[p].active \in Candidate /\ Rel(link[p], cstate[p])
     ELSE Joining(invite[p], link[p], cstate[p])
  /\ row[p] = "none" => link[p] = NoLink /\ invite[p] = NoFile /\ config[p] = "none" /\ psks[p] = 0
  /\ p \in joining => /\ config[p] = "none" /\ invite[p] # NoFile
                      /\ invite[p] \in Candidate => cstate[p].active = invite[p]

\* The inductive invariant.
MInv ==
  /\ TypeOK
  /\ ~ serving => psks = [p \in Peers |-> 0]
  /\ \A p \in Peers : PeerOK(p)

-----------------------------------------------------------------------------
(* Records *)

LEMMA Secrets ==
  /\ MaxSecret \in Nat /\ Secret \subseteq Nat \ {0} /\ 0 \notin Secret
  /\ -1 \notin Secret /\ -2 \notin Secret
BY ManagementAssumption DEF Secret

\* A candidate has a secret; none has the secret 0.
LEMMA Candidates ==
  /\ NoCand \notin Candidate /\ NoFile \notin Candidate /\ NoFile # NoCand
  /\ \A k \in Candidate : k.psk \in Secret /\ k # NoCand
  /\ NoCand.psk = 0
  /\ NoCand \in CandOrNone /\ Candidate \subseteq CandOrNone
  /\ \A k \in CandOrNone : k # NoCand => k \in Candidate
  /\ \A k \in CandOrNone : k.psk \in Secret \cup {0}
BY Secrets DEF Candidate, NoCand, NoFile, CandOrNone

\* `Candidate::generate`, or `adopt` of a secret that was carried over.
LEMMA Generated ==
  ASSUME NEW n \in 1 .. MaxSecret, NEW adopted \in Secret \cup {0}
  PROVE  Generate(n, adopted) \in Candidate
BY ManagementAssumption DEF Generate, Candidate, Secret

\* The parts of a server link.
LEMMA LinkFields ==
  ASSUME NEW l \in Link
  PROVE  /\ l.active \in CandOrNone /\ l.staged \in CandOrNone /\ l.previous \in CandOrNone
         /\ l.verified \in BOOLEAN
BY DEF Link

\* The parts of a client state.
LEMMA StateFields ==
  ASSUME NEW c \in State
  PROVE  c.active \in CandOrNone /\ c.staged \in CandOrNone /\ c.previous \in CandOrNone
BY DEF State

\* The secrets of a link by name.
Has(l, a, st, pr) == l \in Link /\ l.active = a /\ l.staged = st /\ l.previous = pr

\* The operations on a link, field by field.
LEMMA LinkOps ==
  ASSUME NEW l \in Link
  PROVE  /\ Has(ApplyRotation(l), l.staged, NoCand, l.active) /\ ~ ApplyRotation(l).verified
         /\ Has(Verified(l), l.active, l.staged, l.previous)
         /\ Has(ConfirmRotation(l), l.active, l.staged, NoCand)
         /\ Has(RollbackRotation(l), l.previous, NoCand, NoCand)
         /\ \A k \in CandOrNone :
              /\ Has([l EXCEPT !.staged = k], l.active, k, l.previous)
              /\ [l EXCEPT !.staged = k].verified = l.verified
<1>0. NoCand \in CandOrNone
  BY Candidates
<1>1. Has(ApplyRotation(l), l.staged, NoCand, l.active) /\ ~ ApplyRotation(l).verified
  BY <1>0 DEF ApplyRotation, Has, Link
<1>2. Has(Verified(l), l.active, l.staged, l.previous)
  BY DEF Verified, Has, Link
<1>3. Has(ConfirmRotation(l), l.active, l.staged, NoCand)
  BY <1>0 DEF ConfirmRotation, Has, Link
<1>4. Has(RollbackRotation(l), l.previous, NoCand, NoCand)
  BY <1>0 DEF RollbackRotation, Has, Link
<1>5. ASSUME NEW k \in CandOrNone
      PROVE  /\ Has([l EXCEPT !.staged = k], l.active, k, l.previous)
             /\ [l EXCEPT !.staged = k].verified = l.verified
  BY DEF Has, Link
<1>. QED  BY <1>1, <1>2, <1>3, <1>4, <1>5

\* `ManagementLink::new`: active, and nothing else.
LEMMA FreshLink ==
  ASSUME NEW k \in Candidate
  PROVE  /\ Has(Fresh(k), k, NoCand, NoCand)
         /\ Fresh(k) # NoLink /\ LinkOK(Fresh(k))
<1>1. Has(Fresh(k), k, NoCand, NoCand)
  BY Candidates DEF Fresh, NoLink, Has, Link
<1>2. NoLink.active = NoCand
  BY DEF NoLink
<1>. QED  BY <1>1, <1>2, Candidates DEF LinkOK, Has

\* The absent link has no part.
LEMMA NoLinkParts == Has(NoLink, NoCand, NoCand, NoCand)
BY Candidates DEF NoLink, Has, Link

\* The absent state has no part.
LEMMA NoStateParts ==
  /\ NoState \in State
  /\ NoState.active = NoCand /\ NoState.staged = NoCand /\ NoState.previous = NoCand
BY Candidates DEF NoState, State

-----------------------------------------------------------------------------
(* The pair of both ends, operation by operation: s and c before, t the      *)
(* server's link after.                                                      *)

LEMMA RelServerStage ==
  ASSUME NEW s \in Link, NEW c \in State, Rel(s, c), NEW k, NEW t, Has(t, s.active, k, s.previous),
         s.previous = NoCand, s.active.psk = c.active.psk
  PROVE  Rel(t, c)
BY DEF Rel, OneAtATime, InStep, Has

\* The server moves to a candidate that the client has, and keeps the old one.
LEMMA RelServerApply ==
  ASSUME NEW s \in Link, NEW c \in State, Rel(s, c), s.staged # NoCand, s.active # NoCand,
         c.staged = s.staged \/ c.active = s.staged,
         NEW t, Has(t, s.staged, NoCand, s.active), ~ t.verified
  PROVE  Rel(t, c)
BY DEF Rel, OneAtATime, InStep, ServerMoved, ClientMoved, Has

\* The client moves to a candidate that the server has, and keeps the old one.
LEMMA RelClientApply ==
  ASSUME NEW s \in Link, NEW c \in State, Rel(s, c), c.staged # NoCand, c.active # NoCand,
         s.staged = c.staged \/ s.active = c.staged
  PROVE  Rel(s, [active |-> c.staged, staged |-> NoCand, previous |-> c.active])
BY DEF Rel, OneAtATime, InStep, ServerMoved, ClientMoved

\* A mark on the link moves no secret.
LEMMA RelVerified ==
  ASSUME NEW s \in Link, NEW c \in State, Rel(s, c), s.active.psk = c.active.psk,
         NEW t, Has(t, s.active, s.staged, s.previous)
  PROVE  Rel(t, c)
BY DEF Rel, OneAtATime, InStep, Has

\* The server drops the old secret when the client does not use it.
LEMMA RelServerConfirm ==
  ASSUME NEW s \in Link, NEW c \in State, Rel(s, c), MayConfirm(s), ~ WentBack(c, s),
         NEW t, Has(t, s.active, s.staged, NoCand)
  PROVE  Rel(t, c)
BY DEF Rel, OneAtATime, InStep, ServerMoved, ClientMoved, MayConfirm, WentBack, Has

\* The client drops the old secret when the server does not use it.
LEMMA RelClientConfirm ==
  ASSUME NEW s \in Link, NEW c \in State, Rel(s, c), c.previous # NoCand, s.staged = NoCand,
         ~ WentBack(s, c)
  PROVE  Rel(s, [c EXCEPT !.previous = NoCand])
BY DEF Rel, OneAtATime, InStep, ServerMoved, ClientMoved, WentBack, State

\* The server goes back to a secret that the client uses or keeps.
LEMMA RelServerRollback ==
  ASSUME NEW s \in Link, NEW c \in State, Rel(s, c), s.previous # NoCand,
         s.previous.psk \in {c.active.psk, c.previous.psk},
         NEW t, Has(t, s.previous, NoCand, NoCand)
  PROVE  Rel(t, c)
<1>1. s.previous.psk # 0 /\ NoCand.psk = 0
  BY LinkFields, Candidates, Secrets
<1>. QED  BY <1>1 DEF Rel, OneAtATime, InStep, ServerMoved, ClientMoved, Has

\* The client goes back to a secret that the server uses or keeps.
LEMMA RelClientRollback ==
  ASSUME NEW s \in Link, NEW c \in State, Rel(s, c), c.previous # NoCand,
         c.previous.psk \in {s.active.psk, s.previous.psk}
  PROVE  Rel(s, [active |-> c.previous, staged |-> NoCand, previous |-> NoCand])
<1>1. c.previous.psk # 0 /\ NoCand.psk = 0
  BY StateFields, Candidates, Secrets
<1>. QED  BY <1>1 DEF Rel, OneAtATime, InStep, ServerMoved, ClientMoved

\* `repair` gives the server the secret that the client uses.
LEMMA RelRepair ==
  ASSUME NEW s \in Link, NEW c \in State, Rel(s, c), NEW k, k.psk = c.active.psk,
         NEW t, Has(t, k, NoCand, NoCand)
  PROVE  Rel(t, c)
BY DEF Rel, OneAtATime, InStep, Has

\* The client stages what the server has staged.
LEMMA RelClientStage ==
  ASSUME NEW s \in Link, NEW c \in State, Rel(s, c), NEW k, k # NoCand,
         s.staged = k, c.previous = NoCand
  PROVE  Rel(s, [c EXCEPT !.staged = k])
BY DEF Rel, OneAtATime, InStep, ServerMoved, ClientMoved, State

-----------------------------------------------------------------------------
(* Steps that concern one end of one link *)

\* Nothing that PeerOK looks at changes for q.
Same(q) ==
  /\ link'[q] = link[q] /\ cstate'[q] = cstate[q] /\ config'[q] = config[q]
  /\ invite'[q] = invite[q] /\ row'[q] = row[q] /\ psks'[q] = psks[q]
  /\ q \in joining' => q \in joining

\* A peer none of whose variables change stays in order.
LEMMA SameOK ==
  ASSUME NEW q, PeerOK(q), Same(q)
  PROVE  PeerOK(q)'
BY DEF PeerOK, Same, LinkOK, StateOK, Rel, Joining, OneAtATime, InStep, ServerMoved, ClientMoved

\* The count of faults stays within its bound.
LEMMA FaultTyped ==
  ASSUME TypeOK, Fault \/ faults' = faults \/ \E cut \in Cut : CutBy(cut)
  PROVE  faults' \in 0 .. MaxFaults
BY ManagementAssumption DEF TypeOK, Fault, CutBy

\* The server's link of p becomes t.
LEMMA LinkStep ==
  ASSUME MInv, NEW p \in Peers, NEW t \in Link, t.active \in Candidate, row[p] # "none",
         link' = [link EXCEPT ![p] = t],
         config[p] = "managed" => Rel(t, cstate[p]),
         config[p] # "managed" => Joining(invite[p], t, cstate[p]),
         UNCHANGED <<required, prepared, ready, row, disabled, prov, up, serving, psks, pending, clientVars>>,
         artifact' \in [Peers -> CandOrNone], entry' \in [Peers -> Secret \cup {Missing, Open}],
         swapped' \subseteq Peers, drawn' \in 0 .. MaxSecret, faults' \in 0 .. MaxFaults
  PROVE  MInv'
<1>1. TypeOK'
  BY DEF MInv, TypeOK, clientVars
<1>2. ASSUME NEW q \in Peers PROVE PeerOK(q)'
  <2>1. CASE q # p
    BY <2>1, SameOK DEF MInv, TypeOK, Same, clientVars
  <2>2. CASE q = p
    <3>1. link'[p] = t /\ UNCHANGED <<row, psks, invite, cstate, config, joining>>
      BY DEF MInv, TypeOK, clientVars
    <3>2. PeerOK(p)
      BY DEF MInv
    <3>. QED  BY <2>2, <3>1, <3>2 DEF PeerOK, LinkOK, StateOK, Rel, Joining, OneAtATime, InStep, ServerMoved, ClientMoved
  <2>. QED  BY <2>1, <2>2
<1>. QED  BY <1>1, <1>2 DEF MInv

\* The client's state of p becomes c.
LEMMA StateStep ==
  ASSUME MInv, NEW p \in Peers, NEW c \in State, c.active \in Candidate,
         config[p] = "managed", Rel(link[p], c),
         cstate' = [cstate EXCEPT ![p] = c],
         UNCHANGED <<serverDisk, serverLive, invite, config, joining, drawn>>,
         tunnel' \in [Peers -> Secret \cup {Down, Missing, Open}], faults' \in 0 .. MaxFaults
  PROVE  MInv'
<1>1. TypeOK'
  BY DEF MInv, TypeOK, serverDisk, serverLive
<1>2. ASSUME NEW q \in Peers PROVE PeerOK(q)'
  <2>1. CASE q # p
    BY <2>1, SameOK DEF MInv, TypeOK, Same, serverDisk, serverLive
  <2>2. CASE q = p
    <3>1. cstate'[p] = c /\ UNCHANGED <<row, psks, invite, link, config, joining>>
      BY DEF MInv, TypeOK, serverDisk, serverLive
    <3>2. PeerOK(p)
      BY DEF MInv
    <3>. QED  BY <2>2, <3>1, <3>2 DEF PeerOK, LinkOK, StateOK, Rel, OneAtATime, InStep, ServerMoved, ClientMoved
  <2>. QED  BY <2>1, <2>2
<1>. QED  BY <1>1, <1>2 DEF MInv, serverLive

\* A step that changes neither.
LEMMA OtherStep ==
  ASSUME MInv, TypeOK', UNCHANGED <<link, cstate, config, invite, row, psks, serving>>,
         joining' \subseteq joining
  PROVE  MInv'
BY SameOK DEF MInv, Same

\* The facts about one peer.
LEMMA PeerFacts ==
  ASSUME MInv, NEW p \in Peers
  PROVE  /\ link[p] \in Link /\ cstate[p] \in State /\ PeerOK(p)
         /\ Linked(p) => link[p].active \in Candidate
         /\ Enrolled(p) => cstate[p].active \in Candidate
         /\ entry[p] \in Secret \cup {Missing, Open} /\ tunnel[p] \in Secret \cup {Down, Missing, Open}
         /\ artifact[p] \in CandOrNone
BY DEF MInv, TypeOK, PeerOK, LinkOK, StateOK, Linked, Enrolled

\* A server's push.
LEMMA PushStep ==
  ASSUME MInv, NEW p \in Peers, NEW t \in Link, t.active \in Candidate, row[p] # "none",
         config[p] = "managed" => Rel(t, cstate[p]),
         config[p] # "managed" => Joining(invite[p], t, cstate[p]),
         NEW cut \in Cut, ServerPush(p, t, cut), drawn' \in 0 .. MaxSecret
  PROVE  MInv'
<1>1. entry' \in [Peers -> Secret \cup {Missing, Open}]
  <2>1. t.active.psk \in Secret
    BY Candidates
  <2>2. Pushed(entry[p], up, cut, Built(p, t.active.psk)) \in Secret \cup {Missing, Open}
    BY <2>1, PeerFacts DEF Pushed, Built
  <2>. QED  BY <2>2 DEF ServerPush, MInv, TypeOK
<1>2. faults' \in 0 .. MaxFaults
  BY FaultTyped DEF MInv, ServerPush
<1>3. swapped' \subseteq Peers /\ artifact' \in [Peers -> CandOrNone]
  BY DEF ServerPush, MInv, TypeOK
<1>. QED  BY <1>1, <1>2, <1>3, LinkStep DEF ServerPush, Rotate

\* A client's push.
LEMMA ClientPushStep ==
  ASSUME MInv, NEW p \in Peers, NEW c \in State, c.active \in Candidate,
         config[p] = "managed", Rel(link[p], c), NEW cut \in Cut, ClientPush(p, c, cut)
  PROVE  MInv'
<1>1. tunnel' \in [Peers -> Secret \cup {Down, Missing, Open}]
  <2>1. c.active.psk \in Secret
    BY Candidates
  <2>2. Pushed(tunnel[p], tunnel[p] # Down, cut, c.active.psk) \in Secret \cup {Down, Missing, Open}
    BY <2>1, PeerFacts DEF Pushed
  <2>. QED  BY <2>2 DEF ClientPush, MInv, TypeOK
<1>2. faults' \in 0 .. MaxFaults
  BY FaultTyped DEF MInv, ClientPush
<1>. QED  BY <1>1, <1>2, StateStep DEF ClientPush, UpdateState

-----------------------------------------------------------------------------
(* The procedure *)

LEMMA SpareDraw ==
  ASSUME MInv, Spare
  PROVE  drawn + 1 \in 1 .. MaxSecret
<1>1. IsFiniteSet({p \in Peers : ~ Linked(p)})
  BY FS_Subset, ManagementAssumption
<1>2. Cardinality({p \in Peers : ~ Linked(p)}) \in Nat
  BY <1>1, FS_CardinalityType
<1>. QED  BY <1>2, ManagementAssumption DEF MInv, TypeOK, Spare

\* `stage` on the server, when both ends agree and nothing is retained.
LEMMA StageStep ==
  ASSUME MInv, NEW p \in Peers, config[p] = "managed", link[p].previous = NoCand, Agree(p),
         NEW adopted \in {0} \cup Trusted, ServerStage(p, adopted)
  PROVE  MInv'
<1>. DEFINE l == link[p]
            cand == IF l.staged = NoCand THEN Generate(drawn + 1, adopted) ELSE l.staged
            t == [l EXCEPT !.staged = cand]
<1>1. l \in Link /\ cstate[p] \in State /\ Rel(l, cstate[p]) /\ l.active \in Candidate
  BY PeerFacts DEF PeerOK
<1>2. row[p] # "none"
  BY DEF ServerStage, Manageable
<1>3. cand \in CandOrNone /\ drawn' \in 0 .. MaxSecret
  <2>1. CASE l.staged = NoCand
    <3>1. drawn + 1 \in 1 .. MaxSecret /\ drawn' = drawn + 1
      BY <2>1, SpareDraw DEF ServerStage
    <3>2. adopted \in Secret \cup {0}
      BY DEF Secret
    <3>. QED  BY <2>1, <3>1, <3>2, Generated, Candidates
  <2>2. CASE l.staged # NoCand
    BY <1>1, <2>2, LinkFields DEF ServerStage, MInv, TypeOK
  <2>. QED  BY <2>1, <2>2
<1>4. artifact' \in [Peers -> CandOrNone]
  BY <1>3 DEF ServerStage, ExportStaged, MInv, TypeOK
<1>5. link' = [link EXCEPT ![p] = t]
  BY DEF ServerStage, Rotate
<1>6. UNCHANGED <<required, prepared, ready, row, disabled, prov, serverLive, clientVars, faults>>
  BY DEF ServerStage
<1>7. Has(t, l.active, cand, l.previous)
  <2>. HIDE DEF cand
  <2>. QED  BY <1>1, <1>3, LinkOps
<1>8. Rel(t, cstate[p]) /\ t \in Link /\ t.active \in Candidate
  <2>. HIDE DEF t, cand
  <2>1. Rel(t, cstate[p])
    BY <1>1, <1>7, RelServerStage DEF Agree
  <2>. QED  BY <1>1, <1>7, <2>1 DEF Has
<1>. HIDE DEF t
<1>. QED  BY <1>2, <1>3, <1>4, <1>5, <1>6, <1>8, LinkStep DEF serverLive, MInv, TypeOK

\* `apply` on the server, cut anywhere.
LEMMA ApplyStep ==
  ASSUME MInv, NEW p \in Peers, cstate[p].staged = link[p].staged \/ cstate[p].active = link[p].staged,
         NEW cut \in Cut, ServerApply(p, cut)
  PROVE  MInv'
<1>. DEFINE l == link[p]
            t == ApplyRotation(l)
<1>0. l \in Link /\ cstate[p] \in State /\ PeerOK(p) /\ l.staged # NoCand /\ row[p] # "none"
  BY PeerFacts DEF ServerApply, Manageable
<1>1. config[p] = "managed"
  BY <1>0, NoStateParts DEF PeerOK, Joining
<1>2. Rel(l, cstate[p]) /\ l.active \in Candidate /\ l.staged \in Candidate
  BY <1>0, <1>1, LinkFields, Candidates DEF PeerOK
<1>3. Has(t, l.staged, NoCand, l.active) /\ ~ t.verified
  BY <1>0, LinkOps
<1>4. ServerPush(p, t, cut) /\ drawn' \in 0 .. MaxSecret
  BY DEF ServerApply, MInv, TypeOK
<1>. HIDE DEF t
<1>5. Rel(t, cstate[p])
  BY <1>0, <1>2, <1>3, Candidates, RelServerApply
<1>6. t \in Link /\ t.active \in Candidate
  BY <1>2, <1>3 DEF Has
<1>. QED  BY <1>0, <1>1, <1>4, <1>5, <1>6, PushStep

\* `verify` after a handshake under the active secret.
LEMMA VerifyStep ==
  ASSUME MInv, NEW p \in Peers, Reaches(p), entry[p] = link[p].active.psk,
         tunnel[p] = cstate[p].active.psk, MarkVerified(p)
  PROVE  MInv'
<1>. DEFINE l == link[p]
            t == Verified(l)
<1>0. l \in Link /\ cstate[p] \in State /\ PeerOK(p) /\ row[p] # "none" /\ l.active \in Candidate
  BY PeerFacts DEF MarkVerified, Manageable
<1>1. Has(t, l.active, l.staged, l.previous)
  BY <1>0, LinkOps
<1>2. l.active.psk = cstate[p].active.psk
  BY DEF Reaches
<1>3. link' = [link EXCEPT ![p] = t]
  BY DEF MarkVerified
<1>. HIDE DEF t
<1>4. config[p] = "managed" => Rel(t, cstate[p])
  BY <1>0, <1>1, <1>2, RelVerified DEF PeerOK
<1>5. config[p] # "managed" => Joining(invite[p], t, cstate[p])
  BY <1>0, <1>1 DEF PeerOK, Joining, Has
<1>6. t \in Link /\ t.active \in Candidate
  BY <1>0, <1>1 DEF Has
<1>. QED  BY <1>0, <1>3, <1>4, <1>5, <1>6, LinkStep DEF MarkVerified, serverLive, MInv, TypeOK

\* `confirm` on the server.
LEMMA ConfirmStep ==
  ASSUME MInv, NEW p \in Peers, ~ RollingBack(p), ServerConfirm(p)
  PROVE  MInv'
<1>. DEFINE l == link[p]
            t == ConfirmRotation(l)
<1>0. l \in Link /\ cstate[p] \in State /\ PeerOK(p) /\ row[p] # "none" /\ l.active \in Candidate
  BY PeerFacts DEF ServerConfirm, Manageable
<1>1. Has(t, l.active, l.staged, NoCand)
  BY <1>0, LinkOps
<1>2. MayConfirm(l) /\ ~ WentBack(cstate[p], l)
  BY DEF ServerConfirm, RollingBack
<1>3. link' = [link EXCEPT ![p] = t]
  BY DEF ServerConfirm, Rotate
<1>. HIDE DEF t
<1>4. config[p] = "managed" => Rel(t, cstate[p])
  BY <1>0, <1>1, <1>2, RelServerConfirm DEF PeerOK
<1>5. config[p] # "managed" => Joining(invite[p], t, cstate[p])
  BY <1>0, <1>1 DEF PeerOK, Joining, Has
<1>6. t \in Link /\ t.active \in Candidate
  BY <1>0, <1>1 DEF Has
<1>. QED  BY <1>0, <1>3, <1>4, <1>5, <1>6, LinkStep DEF ServerConfirm, serverLive, MInv, TypeOK

\* `rollback` on the server, cut anywhere.
LEMMA RollbackStep ==
  ASSUME MInv, NEW p \in Peers, link[p].previous.psk \in {cstate[p].active.psk, cstate[p].previous.psk},
         NEW cut \in Cut, ServerRollback(p, cut)
  PROVE  MInv'
<1>. DEFINE l == link[p]
            t == RollbackRotation(l)
<1>0. l \in Link /\ cstate[p] \in State /\ PeerOK(p) /\ row[p] # "none" /\ l.previous # NoCand
  BY PeerFacts DEF ServerRollback, Manageable
<1>1. Has(t, l.previous, NoCand, NoCand)
  BY <1>0, LinkOps
<1>2. l.previous \in Candidate /\ l.previous.psk # 0
  BY <1>0, LinkFields, Candidates, Secrets
<1>3. config[p] = "managed"
  BY <1>0, <1>2, NoStateParts, Candidates DEF PeerOK, Joining
<1>4. ServerPush(p, t, cut) /\ drawn' \in 0 .. MaxSecret
  BY DEF ServerRollback, MInv, TypeOK
<1>. HIDE DEF t
<1>5. Rel(t, cstate[p])
  BY <1>0, <1>1, <1>3, RelServerRollback DEF PeerOK
<1>6. t \in Link /\ t.active \in Candidate
  BY <1>1, <1>2 DEF Has
<1>. QED  BY <1>0, <1>3, <1>4, <1>5, <1>6, PushStep

\* `repair` on the server, cut anywhere.
LEMMA RepairStep ==
  ASSUME MInv, NEW p \in Peers, Enrolled(p), ~ Agree(p), NEW cut \in Cut,
         Repair(p, cstate[p].active.psk, cut)
  PROVE  MInv'
<1>. DEFINE l == link[p]
            k == Generate(drawn + 1, cstate[p].active.psk)
            t == Fresh(k)
<1>0. /\ l \in Link /\ cstate[p] \in State /\ PeerOK(p) /\ row[p] # "none"
      /\ cstate[p].active \in Candidate /\ drawn + 1 \in 1 .. MaxSecret
  BY PeerFacts, SpareDraw DEF Repair, Manageable
<1>1. config[p] = "managed"
  BY <1>0 DEF PeerOK, Joining, Agree, Enrolled
<1>2. cstate[p].active.psk \in Secret
  BY <1>0, Candidates
<1>3. k \in Candidate /\ k.psk = cstate[p].active.psk
  BY <1>0, <1>2, Generated, Secrets DEF Generate
<1>4. ServerPush(p, t, cut) /\ drawn' \in 0 .. MaxSecret
  BY <1>0, ManagementAssumption DEF Repair, ForceActive
<1>. HIDE DEF k
<1>5. Has(t, k, NoCand, NoCand)
  BY <1>3, FreshLink
<1>. HIDE DEF t
<1>6. Rel(t, cstate[p])
  BY <1>0, <1>1, <1>3, <1>5, RelRepair DEF PeerOK
<1>7. t \in Link /\ t.active \in Candidate
  BY <1>3, <1>5 DEF Has
<1>. QED  BY <1>0, <1>1, <1>4, <1>6, <1>7, PushStep

\* The same four commands on the client.
LEMMA ClientRotates ==
  ASSUME MInv, NEW p \in Peers, NEW cut \in Cut,
         \/ link[p].staged = artifact[p] /\ cstate[p].previous = NoCand /\ ClientStage(p)
         \/ /\ link[p].staged = cstate[p].staged \/ link[p].active = cstate[p].staged
            /\ ClientApply(p, cut)
         \/ link[p].staged = NoCand /\ ~ RollingBack(p) /\ ClientConfirm(p)
         \/ /\ cstate[p].previous.psk \in {link[p].active.psk, link[p].previous.psk}
            /\ ClientRollback(p, cut)
  PROVE  MInv'
<1>. DEFINE l == link[p]
            c == cstate[p]
<1>0. l \in Link /\ c \in State /\ PeerOK(p) /\ artifact[p] \in CandOrNone
  BY PeerFacts
<1>1. c # NoState /\ c.active \in Candidate
  BY PeerFacts DEF ClientStage, ClientApply, ClientConfirm, ClientRollback, ClientPush, UpdateState, Enrolled
<1>2. config[p] = "managed"
  BY <1>0, <1>1 DEF PeerOK, Joining, ClientStage, ClientApply, ClientConfirm, ClientRollback
<1>3. Rel(l, c)
  BY <1>0, <1>2 DEF PeerOK
<1>4. c.staged \in CandOrNone /\ c.previous \in CandOrNone /\ c.active \in CandOrNone /\ NoCand \in CandOrNone
  BY <1>0, StateFields, Candidates
<1>5. CASE link[p].staged = artifact[p] /\ cstate[p].previous = NoCand /\ ClientStage(p)
  <2>. DEFINE d == [c EXCEPT !.staged = artifact[p]]
  <2>1. d \in State /\ d.active \in Candidate
    BY <1>0, <1>1 DEF State
  <2>2. Rel(l, d)
    BY <1>0, <1>3, <1>5, RelClientStage DEF ClientStage
  <2>3. cstate' = [cstate EXCEPT ![p] = d]
    BY <1>5 DEF ClientStage, UpdateState
  <2>. HIDE DEF d
  <2>. QED  BY <1>2, <1>5, <2>1, <2>2, <2>3, StateStep DEF ClientStage, MInv, TypeOK
<1>6. CASE /\ link[p].staged = cstate[p].staged \/ link[p].active = cstate[p].staged
           /\ ClientApply(p, cut)
  <2>. DEFINE d == [active |-> c.staged, staged |-> NoCand, previous |-> c.active]
  <2>1. d \in State /\ d.active \in Candidate
    BY <1>4, <1>6, Candidates DEF State, ClientApply
  <2>2. Rel(l, d)
    BY <1>0, <1>1, <1>3, <1>6, Candidates, RelClientApply DEF ClientApply
  <2>3. ClientPush(p, d, cut)
    BY <1>6 DEF ClientApply
  <2>. HIDE DEF d
  <2>. QED  BY <1>2, <2>1, <2>2, <2>3, ClientPushStep
<1>7. CASE link[p].staged = NoCand /\ ~ RollingBack(p) /\ ClientConfirm(p)
  <2>. DEFINE d == [c EXCEPT !.previous = NoCand]
  <2>1. d \in State /\ d.active \in Candidate
    BY <1>0, <1>1, <1>4 DEF State
  <2>2. Rel(l, d)
    BY <1>0, <1>3, <1>7, RelClientConfirm DEF ClientConfirm, RollingBack
  <2>3. cstate' = [cstate EXCEPT ![p] = d]
    BY <1>7 DEF ClientConfirm, UpdateState
  <2>. HIDE DEF d
  <2>. QED  BY <1>2, <1>7, <2>1, <2>2, <2>3, StateStep DEF ClientConfirm, MInv, TypeOK
<1>8. CASE /\ cstate[p].previous.psk \in {link[p].active.psk, link[p].previous.psk}
           /\ ClientRollback(p, cut)
  <2>. DEFINE d == [active |-> c.previous, staged |-> NoCand, previous |-> NoCand]
  <2>1. d \in State /\ d.active \in Candidate
    BY <1>4, <1>8, Candidates DEF State, ClientRollback
  <2>2. Rel(l, d)
    BY <1>0, <1>3, <1>8, RelClientRollback DEF ClientRollback
  <2>3. ClientPush(p, d, cut)
    BY <1>8 DEF ClientRollback
  <2>. HIDE DEF d
  <2>. QED  BY <1>2, <2>1, <2>2, <2>3, ClientPushStep
<1>. QED  BY <1>5, <1>6, <1>7, <1>8

\* The rotation as the operator runs it keeps the invariant.
LEMMA ProcedureStep ==
  ASSUME MInv, NEW p \in Peers, Procedure(p)
  PROVE  MInv'
<1>1. CASE /\ artifact[p] # NoCand
           /\ artifact' = [artifact EXCEPT ![p] = NoCand]
           /\ UNCHANGED <<required, prepared, ready, row, disabled, link, prov, serverLive,
                          clientVars, drawn, faults>>
  <2>1. TypeOK'
    BY <1>1, Candidates DEF MInv, TypeOK, serverLive, clientVars
  <2>. QED  BY <1>1, <2>1, OtherStep DEF serverLive, clientVars
<1>. QED
  BY <1>1, StageStep, ApplyStep, VerifyStep, ConfirmStep, RollbackStep, RepairStep, ClientRotates
  DEF Procedure, Cut

-----------------------------------------------------------------------------
(* Enrollment *)

\* The draws of `prepare` are in range and each peer's is its own number.
LEMMA NthInRange ==
  ASSUME NEW q \in Unlinked
  PROVE  /\ Cardinality(Unlinked) \in Nat
         /\ Nth(q) \in 1 .. Cardinality(Unlinked)
<1>. DEFINE S == {r \in Unlinked : r =< q}
<1>1. IsFiniteSet(Unlinked)
  BY FS_Subset, ManagementAssumption DEF Unlinked
<1>2. S \subseteq Unlinked
  OBVIOUS
<1>3. IsFiniteSet(S) /\ Cardinality(S) =< Cardinality(Unlinked)
  BY <1>1, <1>2, FS_Subset
<1>4. Cardinality(S) \in Nat /\ Cardinality(Unlinked) \in Nat
  BY <1>1, <1>3, FS_CardinalityType
<1>5. S # {}
  <2>1. q \in Nat
    BY ManagementAssumption DEF Unlinked
  <2>. QED  BY <2>1
<1>6. Cardinality(S) # 0
  BY <1>3, <1>5, FS_EmptySet
<1>. QED  BY <1>3, <1>4, <1>6 DEF Nth

\* `require-management`, cut anywhere.
LEMMA PrepareStep ==
  ASSUME MInv, NEW p \in Peers, NEW adopted \in {0} \cup Trusted, NEW cut \in Cut, Prepare(p, adopted, cut)
  PROVE  MInv'
<1>. DEFINE cand(q) == Generate(drawn + Nth(q), IF q = p THEN adopted ELSE 0)
            links == [q \in Peers |-> IF q \in Unlinked THEN Fresh(cand(q)) ELSE link[q]]
<1>0. TypeOK /\ \A q \in Peers : PeerOK(q)
  BY DEF MInv
<1>1. ASSUME NEW q \in Unlinked PROVE cand(q) \in Candidate
  <2>1. drawn + Nth(q) \in 1 .. MaxSecret
    BY <1>0, NthInRange, ManagementAssumption DEF Prepare, TypeOK
  <2>2. (IF q = p THEN adopted ELSE 0) \in Secret \cup {0}
    BY DEF Secret
  <2>. QED  BY <2>1, <2>2, Generated
<1>2. PrepareSaves(links, cut) /\ UNCHANGED <<ready, row, disabled, artifact, serverLive, clientVars>>
  BY DEF Prepare
<1>3. drawn' \in 0 .. MaxSecret
  <2>1. Cardinality(Unlinked) \in Nat
    BY FS_Subset, FS_CardinalityType, ManagementAssumption DEF Unlinked
  <2>. QED  BY <1>0, <2>1, ManagementAssumption DEF Prepare, TypeOK
<1>4. faults' \in 0 .. MaxFaults
  BY <1>0, FaultTyped DEF Prepare
<1>. HIDE DEF cand
<1>5. ASSUME NEW q \in Peers
      PROVE  /\ links[q] \in Link /\ links[q].active \in CandOrNone
             /\ q \in Unlinked => links[q].active \in Candidate
             /\ q \notin Unlinked => links[q] = link[q]
  <2>1. CASE q \in Unlinked
    BY <1>1, <2>1, FreshLink, Candidates DEF Has
  <2>2. CASE q \notin Unlinked
    BY <1>0, <2>2, LinkFields DEF TypeOK
  <2>. QED  BY <2>1, <2>2
<1>6. links \in [Peers -> Link]
  BY <1>5
<1>. HIDE DEF links
<1>7. link' = links /\ prepared' = TRUE /\ required' \in BOOLEAN /\ prov' \in [Peers -> CandOrNone]
  BY <1>0, <1>2, <1>5 DEF PrepareSaves, Exported, TypeOK
<1>8. TypeOK'
  BY <1>0, <1>2, <1>3, <1>4, <1>6, <1>7 DEF TypeOK, serverLive, clientVars
<1>9. ASSUME NEW q \in Peers PROVE PeerOK(q)'
  <2>0. PeerOK(q) /\ UNCHANGED <<row, psks, invite, cstate, config, joining>>
    BY <1>0, <1>2 DEF serverLive, clientVars
  <2>1. CASE q \notin Unlinked
    BY <1>5, <1>7, <2>0, <2>1, SameOK DEF Same
  <2>2. CASE q \in Unlinked
    <3>1. link[q] = NoLink /\ row[q] # "none" /\ link[q].active = NoCand
      BY <2>2, NoLinkParts DEF Unlinked, Linked, Enabled, Has
    <3>2. config[q] # "managed" /\ invite[q] \notin Candidate
      BY <2>0, <3>1, Candidates DEF PeerOK, Joining
    <3>3. link'[q].active \in Candidate
      BY <1>5, <1>7, <2>2
    <3>. QED  BY <2>0, <3>1, <3>2, <3>3 DEF PeerOK, Joining, LinkOK, StateOK
  <2>. QED  BY <2>1, <2>2
<1>. QED  BY <1>2, <1>8, <1>9 DEF MInv, serverLive

\* A row, and perhaps a link and an invitation with its secret.
LEMMA NewPeerStep ==
  ASSUME MInv, NEW p \in Peers, row[p] = "none", row' = [row EXCEPT ![p] = "invited"],
         NEW t \in Link, LinkOK(t), link' = [link EXCEPT ![p] = t],
         NEW k, k \in {NoFile, NoCand} \/ (k \in Candidate /\ Has(t, k, NoCand, NoCand)),
         invite' = [invite EXCEPT ![p] = k],
         entry' \in [Peers -> Secret \cup {Missing, Open}],
         ready' \in BOOLEAN, drawn' \in 0 .. MaxSecret, faults' \in 0 .. MaxFaults,
         UNCHANGED <<required, prepared, disabled, prov, artifact, up, serving, psks, swapped,
                     pending, cstate, config, tunnel, joining>>
  PROVE  MInv'
<1>0. TypeOK /\ \A q \in Peers : PeerOK(q)
  BY DEF MInv
<1>1. k \in CandOrNone \cup {NoFile}
  BY Candidates
<1>2. TypeOK'
  BY <1>0, <1>1 DEF TypeOK
<1>3. ASSUME NEW q \in Peers PROVE PeerOK(q)'
  <2>1. CASE q # p
    BY <1>0, <2>1, SameOK DEF TypeOK, Same
  <2>2. CASE q = p
    <3>1. link'[p] = t /\ invite'[p] = k /\ row'[p] = "invited" /\ UNCHANGED <<psks, cstate, config, joining>>
      BY <1>0 DEF TypeOK
    <3>2. PeerOK(p) /\ config[p] = "none" /\ invite[p] = NoFile /\ p \notin joining
      BY <1>0 DEF PeerOK
    <3>3. cstate[p] = NoState
      BY <3>2, Candidates DEF PeerOK, Joining
    <3>. QED  BY <2>2, <3>1, <3>2, <3>3, Candidates DEF PeerOK, Joining, LinkOK, StateOK, Has
  <2>. QED  BY <2>1, <2>2
<1>. QED  BY <1>2, <1>3 DEF MInv

\* `add-peer` on the server, as far as it got.
LEMMA AddPeerStep ==
  ASSUME MInv, NEW p \in Peers, NEW upto \in 1 .. 4, AddPeer(p, upto)
  PROVE  MInv'
<1>. DEFINE cand == Generate(drawn + 1, 0)
            t == IF required /\ upto >= 2 THEN Fresh(cand) ELSE link[p]
            k == IF upto = 4 THEN IF required THEN cand ELSE NoCand ELSE invite[p]
<1>0. TypeOK /\ PeerOK(p) /\ row[p] = "none" /\ row' = [row EXCEPT ![p] = "invited"]
  BY DEF MInv, AddPeer
<1>1. link[p] = NoLink /\ invite[p] = NoFile
  BY <1>0 DEF PeerOK
<1>2. required /\ upto >= 2 => cand \in Candidate /\ drawn' \in 0 .. MaxSecret
  <2>1. required /\ upto >= 2 => drawn + 1 \in 1 .. MaxSecret /\ drawn' = drawn + 1
    BY <1>0, ManagementAssumption DEF AddPeer, TypeOK
  <2>. QED  BY <2>1, Generated
<1>3. drawn' \in 0 .. MaxSecret
  BY <1>0, <1>2 DEF AddPeer, TypeOK
<1>4. faults' \in 0 .. MaxFaults
  BY <1>0, FaultTyped DEF AddPeer
<1>5. ready' \in BOOLEAN
  BY <1>0 DEF AddPeer, ProvisionNewPeer, TypeOK
<1>6. link' = [link EXCEPT ![p] = t]
  BY <1>0 DEF AddPeer, ProvisionNewPeer, TypeOK
<1>7. invite' = [invite EXCEPT ![p] = k]
  BY <1>0 DEF AddPeer, TypeOK
<1>8. UNCHANGED <<required, prepared, disabled, prov, artifact, up, serving, psks, swapped,
                  pending, cstate, config, tunnel, joining>>
  BY DEF AddPeer
<1>9. entry' \in [Peers -> Secret \cup {Missing, Open}]
  <2>1. CASE up /\ upto >= 3
    <3>1. (IF required THEN cand.psk ELSE Open) \in Secret \cup {Missing, Open}
      BY <1>2, <2>1, Candidates
    <3>2. entry' = [entry EXCEPT ![p] = IF required THEN cand.psk ELSE Open]
      BY <2>1 DEF AddPeer
    <3>. HIDE DEF cand
    <3>. QED  BY <1>0, <3>1, <3>2 DEF TypeOK
  <2>2. CASE ~ (up /\ upto >= 3)
    BY <1>0, <2>2 DEF AddPeer, TypeOK
  <2>. QED  BY <2>1, <2>2
<1>. HIDE DEF cand
<1>10. t \in Link /\ LinkOK(t)
  BY <1>1, <1>2, FreshLink, NoLinkParts DEF Has, LinkOK
<1>11. k \in {NoFile, NoCand} \/ (k \in Candidate /\ Has(t, k, NoCand, NoCand))
  BY <1>1, <1>2, FreshLink
<1>. HIDE DEF t, k
<1>. QED  BY <1>0, <1>3, <1>4, <1>5, <1>6, <1>7, <1>8, <1>9, <1>10, <1>11, NewPeerStep

\* An administrator adds a peer through the API.
LEMMA AdminCreateStep ==
  ASSUME MInv, NEW p \in Peers, AdminCreate(p)
  PROVE  MInv'
<1>0. TypeOK /\ PeerOK(p) /\ row[p] = "none"
  BY DEF MInv, AdminCreate
<1>1. link[p] = NoLink
  BY <1>0 DEF PeerOK
<1>2. link' = [link EXCEPT ![p] = NoLink]
  BY <1>0, <1>1 DEF AdminCreate, TypeOK
<1>3. NoLink \in Link /\ LinkOK(NoLink)
  BY NoLinkParts DEF Has, LinkOK
<1>4. entry' \in [Peers -> Secret \cup {Missing, Open}]
  BY <1>0 DEF AdminCreate, TypeOK
<1>. QED  BY <1>0, <1>2, <1>3, <1>4, NewPeerStep DEF AdminCreate, TypeOK

\* Disabling and enabling a peer removes and rebuilds its entry.
LEMMA SwitchStep ==
  ASSUME MInv, NEW p \in Peers, Disable(p) \/ Enable(p) \/ AdminSwitch(p)
  PROVE  MInv'
<1>0. TypeOK /\ PeerOK(p) /\ (Linked(p) => link[p].active.psk \in Secret) /\ entry[p] \in Secret \cup {Missing, Open}
  BY PeerFacts, Candidates DEF MInv
<1>1. entry' \in [Peers -> Secret \cup {Missing, Open}]
  <2>1. CASE Disable(p)
    BY <1>0, <2>1 DEF Disable, TypeOK
  <2>2. CASE Enable(p)
    <3>. DEFINE e == IF required THEN link[p].active.psk ELSE Merged(p, Open)
    <3>1. required /\ Linked(p) => e \in Secret \cup {Missing, Open}
      BY <1>0
    <3>2. ~ required => e \in Secret \cup {Missing, Open}
      BY <1>0 DEF Merged
    <3>3. entry' = entry \/ (entry' = [entry EXCEPT ![p] = e] /\ (required => Linked(p)))
      BY <2>2 DEF Enable
    <3>. HIDE DEF e
    <3>. QED  BY <1>0, <3>1, <3>2, <3>3 DEF TypeOK
  <2>3. CASE AdminSwitch(p)
    BY <1>0, <2>3 DEF AdminSwitch, serverLive, TypeOK
  <2>. QED  BY <2>1, <2>2, <2>3
<1>2. disabled' \subseteq Peers /\ swapped' \subseteq Peers
  BY <1>0 DEF Disable, Enable, AdminSwitch, serverLive, TypeOK
<1>3. UNCHANGED <<required, prepared, ready, row, link, prov, artifact, up, serving, psks,
                  pending, clientVars, drawn, faults>>
  BY DEF Disable, Enable, AdminSwitch, serverLive
<1>4. TypeOK'
  BY <1>0, <1>1, <1>2, <1>3 DEF TypeOK, clientVars
<1>. QED  BY <1>3, <1>4, OtherStep DEF clientVars

\* The serving process starts and stops.
LEMMA ServeStep ==
  ASSUME MInv, Serve \/ \E reboot \in BOOLEAN : ServerStops(reboot)
  PROVE  MInv'
<1>0. TypeOK /\ \A q \in Peers : PeerOK(q) /\ link[q] \in Link /\ entry[q] \in Secret \cup {Missing, Open}
  BY PeerFacts DEF MInv
<1>1. \A q \in Peers : link[q].active.psk \in Secret \cup {0}
  BY <1>0, LinkFields, Candidates
<1>2. psks' \in [Peers -> Secret \cup {0}]
  BY <1>1 DEF Serve, ServerStops
<1>3. entry' \in [Peers -> Secret \cup {Missing, Open}]
  <2>1. CASE Serve
    BY <1>0, <1>1, <2>1 DEF Serve, Merged, Open
  <2>2. CASE \E reboot \in BOOLEAN : ServerStops(reboot)
    BY <1>0, <2>2 DEF ServerStops, TypeOK
  <2>. QED  BY <2>1, <2>2
<1>4. /\ serving' \in BOOLEAN /\ up' \in BOOLEAN /\ swapped' \subseteq Peers /\ pending' \subseteq Peers
      /\ UNCHANGED <<serverDisk, clientVars, drawn>>
      /\ ~ serving' => psks' = [q \in Peers |-> 0]
  BY <1>0 DEF Serve, ServerStops, TypeOK
<1>5. faults' \in 0 .. MaxFaults
  BY <1>0, FaultTyped DEF Serve, ServerStops
<1>6. TypeOK'
  BY <1>0, <1>2, <1>3, <1>4, <1>5 DEF TypeOK, serverDisk, clientVars
<1>7. ASSUME NEW q \in Peers PROVE PeerOK(q)'
  <2>1. PeerOK(q) /\ UNCHANGED <<link, cstate, config, invite, row, joining>>
    BY <1>0, <1>4 DEF serverDisk, clientVars
  <2>2. row[q] = "none" => psks'[q] = 0
    <3>1. row[q] = "none" => link[q].active.psk = 0
      BY <2>1, NoLinkParts, Candidates DEF PeerOK, Has
    <3>. QED  BY <3>1 DEF Serve, ServerStops
  <2>. QED  BY <2>1, <2>2 DEF PeerOK, LinkOK, StateOK, Rel, Joining, OneAtATime, InStep, ServerMoved, ClientMoved
<1>. QED  BY <1>4, <1>6, <1>7 DEF MInv

-----------------------------------------------------------------------------
(* Redemption, and the client between commands *)

LEMMA RedeemStartStep ==
  ASSUME MInv, NEW p \in Peers, RedeemStart(p)
  PROVE  MInv'
<1>. DEFINE c == IF invite[p] = NoCand THEN cstate[p]
                 ELSE [active |-> invite[p], staged |-> NoCand, previous |-> NoCand]
<1>0. /\ TypeOK /\ PeerOK(p) /\ config[p] = "none" /\ invite[p] # NoFile
      /\ invite[p] \in CandOrNone /\ cstate[p] \in State
  BY DEF MInv, RedeemStart, MayInstall, TypeOK
<1>1. cstate' = [cstate EXCEPT ![p] = c]
  BY <1>0 DEF RedeemStart, Adopt, TypeOK, NoState
<1>2. c \in State
  BY <1>0, Candidates DEF State
<1>3. tunnel' = [tunnel EXCEPT ![p] = invite[p].psk] /\ invite[p].psk \in Secret \cup {0}
  BY <1>0, Candidates DEF RedeemStart
<1>4. joining' = joining \cup {p} /\ UNCHANGED <<serverDisk, serverLive, invite, config, drawn, faults>>
  BY DEF RedeemStart
<1>5. invite[p] = NoCand => c = NoState
  BY <1>0, Candidates DEF PeerOK, Joining
<1>6. invite[p] # NoCand => /\ invite[p] \in Candidate /\ c.active = invite[p]
                            /\ c = [active |-> invite[p], staged |-> NoCand, previous |-> NoCand]
  BY <1>0, Candidates
<1>. HIDE DEF c
<1>7. TypeOK'
  BY <1>0, <1>1, <1>2, <1>3, <1>4 DEF TypeOK, serverDisk, serverLive, Open
<1>8. ASSUME NEW q \in Peers PROVE PeerOK(q)'
  <2>1. CASE q # p
    BY <1>0, <1>1, <1>4, <2>1, SameOK DEF MInv, TypeOK, Same, serverDisk, serverLive
  <2>2. CASE q = p
    <3>1. cstate'[p] = c /\ UNCHANGED <<row, psks, invite, link, config>>
      BY <1>0, <1>1, <1>4 DEF TypeOK, serverDisk, serverLive
    <3>2. invite[p] = NoCand => invite[p] \notin Candidate
      BY Candidates
    <3>. QED  BY <1>0, <1>5, <1>6, <2>2, <3>1, <3>2 DEF PeerOK, Joining, LinkOK, StateOK
  <2>. QED  BY <2>1, <2>2
<1>. QED  BY <1>4, <1>7, <1>8 DEF MInv, serverLive

\* The redemption, its answer lost or not.
LEMMA RedeemStep ==
  ASSUME MInv, NEW p \in Peers, NEW answered \in BOOLEAN, Redeem(p, answered)
  PROVE  MInv'
<1>0. TypeOK /\ PeerOK(p) /\ p \in joining /\ invite[p] \in CandOrNone /\ row[p] # "none"
  BY DEF MInv, Redeem, PeerOK, TypeOK
<1>1. /\ row' = [row EXCEPT ![p] = "redeemed"] /\ pending' = pending \cup {p} /\ joining' = joining \ {p}
      /\ UNCHANGED <<required, prepared, ready, disabled, link, prov, artifact, up, serving, psks,
                     entry, swapped, invite, cstate, drawn>>
  BY DEF Redeem
<1>2. \/ config' = config
      \/ config' = [config EXCEPT ![p] = IF invite[p] = NoCand THEN "plain" ELSE "managed"]
  BY DEF Redeem
<1>3. tunnel' \in [Peers -> Secret \cup {Down, Missing, Open}] /\ faults' \in 0 .. MaxFaults
  BY <1>0, FaultTyped DEF Redeem, TypeOK
<1>4. TypeOK'
  BY <1>0, <1>1, <1>2, <1>3 DEF TypeOK
<1>5. ASSUME NEW q \in Peers PROVE PeerOK(q)'
  <2>1. CASE q # p
    BY <1>0, <1>1, <1>2, <2>1, SameOK DEF MInv, TypeOK, Same
  <2>2. CASE q = p
    <3>1. /\ row'[p] = "redeemed" /\ p \notin joining' /\ UNCHANGED <<psks, invite, link, cstate>>
          /\ config'[p] = config[p] \/ config'[p] = IF invite[p] = NoCand THEN "plain" ELSE "managed"
      BY <1>0, <1>1, <1>2 DEF TypeOK
    <3>2. config[p] = "none" /\ Joining(invite[p], link[p], cstate[p]) /\ LinkOK(link[p]) /\ StateOK(cstate[p])
      BY <1>0 DEF PeerOK
    <3>3. CASE config'[p] # "managed"
      BY <2>2, <3>1, <3>2, <3>3 DEF PeerOK, Joining, LinkOK, StateOK
    <3>4. CASE config'[p] = "managed"
      <4>1. invite[p] \in Candidate /\ cstate[p].active = invite[p]
        BY <1>0, <3>1, <3>2, <3>4, Candidates DEF PeerOK
      <4>2. /\ link[p].active = invite[p] /\ link[p].previous = NoCand
            /\ cstate[p] = [active |-> invite[p], staged |-> NoCand, previous |-> NoCand]
        BY <3>2, <4>1, NoStateParts, Candidates DEF Joining
      <4>3. Rel(link[p], cstate[p])
        BY <4>2 DEF Rel, OneAtATime, InStep
      <4>. QED  BY <2>2, <3>1, <3>2, <3>4, <4>1, <4>2, <4>3 DEF PeerOK, LinkOK, StateOK, Rel, OneAtATime, InStep, ServerMoved, ClientMoved
    <3>. QED  BY <3>3, <3>4
  <2>. QED  BY <2>1, <2>2
<1>. QED  BY <1>1, <1>4, <1>5 DEF MInv

\* The client brings its interface up, fetches, or loses it.
LEMMA TunnelStep ==
  ASSUME MInv, NEW p \in Peers,
         RedeemFails(p) \/ ClientUp(p) \/ ClientFetch(p) \/ ClientReboot(p)
  PROVE  MInv'
<1>0. /\ TypeOK /\ cstate[p].active.psk \in Secret \cup {0}
      /\ tunnel[p] \in Secret \cup {Down, Missing, Open}
  BY PeerFacts, StateFields, Candidates DEF MInv
<1>1. \E e \in Secret \cup {Down, Missing, Open} : tunnel' = [tunnel EXCEPT ![p] = e]
  BY <1>0 DEF RedeemFails, ClientUp, ClientFetch, ClientReboot, Refetched, Open
<1>2. UNCHANGED <<serverDisk, serverLive, invite, cstate, config, drawn>> /\ joining' \subseteq joining
  BY DEF RedeemFails, ClientUp, ClientFetch, ClientReboot
<1>3. faults' \in 0 .. MaxFaults
  BY <1>0, FaultTyped DEF RedeemFails, ClientUp, ClientFetch, ClientReboot
<1>4. TypeOK'
  BY <1>0, <1>1, <1>2, <1>3 DEF TypeOK, serverDisk, serverLive
<1>. QED  BY <1>2, <1>4, OtherStep DEF serverDisk, serverLive

\* The server takes the redeemed key over.
LEMMA SettlesStep ==
  ASSUME MInv, NEW p \in Peers, RedeemSettles(p)
  PROVE  MInv'
<1>0. TypeOK /\ psks[p] \in Secret \cup {0} /\ entry[p] \in Secret \cup {Missing, Open}
  BY PeerFacts DEF MInv, TypeOK
<1>1. RedeemedEntry(p) \in Secret \cup {Missing, Open}
  BY <1>0 DEF RedeemedEntry, Merged
<1>2. TypeOK'
  BY <1>0, <1>1 DEF RedeemSettles, TypeOK, serverDisk, clientVars
<1>. QED  BY <1>2, OtherStep DEF RedeemSettles, serverDisk, clientVars

-----------------------------------------------------------------------------
(* The theorems *)

LEMMA MInvInit == Init => MInv
<1>. SUFFICES ASSUME Init PROVE MInv
  OBVIOUS
<1>1. PICK old \in SUBSET Peers :
        /\ row = [p \in Peers |-> IF p \in old THEN "redeemed" ELSE "none"]
        /\ entry = [p \in Peers |-> IF p \in old THEN Open ELSE Missing]
        /\ config = [p \in Peers |-> IF p \in old THEN "plain" ELSE "none"]
        /\ tunnel = [p \in Peers |-> IF p \in old THEN Open ELSE Down]
        /\ swapped = old
  BY DEF Init
<1>2. /\ required = FALSE /\ prepared = FALSE /\ ready = FALSE /\ up = TRUE /\ serving = TRUE
      /\ disabled = {} /\ pending = {} /\ joining = {}
      /\ link = [p \in Peers |-> NoLink] /\ cstate = [p \in Peers |-> NoState]
      /\ prov = [p \in Peers |-> NoCand] /\ artifact = [p \in Peers |-> NoCand]
      /\ psks = [p \in Peers |-> 0] /\ invite = [p \in Peers |-> NoFile]
      /\ drawn = 0 /\ faults = 0
  BY DEF Init
<1>3. TypeOK
  <2>1. /\ required \in BOOLEAN /\ prepared \in BOOLEAN /\ ready \in BOOLEAN
        /\ up \in BOOLEAN /\ serving \in BOOLEAN
    BY <1>2
  <2>2. link \in [Peers -> Link] /\ cstate \in [Peers -> State]
    BY <1>2, NoLinkParts, NoStateParts DEF Has
  <2>3. /\ prov \in [Peers -> CandOrNone] /\ artifact \in [Peers -> CandOrNone]
        /\ invite \in [Peers -> CandOrNone \cup {NoFile}]
    BY <1>2, Candidates
  <2>4. /\ disabled \subseteq Peers /\ swapped \subseteq Peers
        /\ pending \subseteq Peers /\ joining \subseteq Peers
        /\ drawn \in 0 .. MaxSecret /\ faults \in 0 .. MaxFaults
    BY <1>1, <1>2, ManagementAssumption
  <2>5. /\ psks \in [Peers -> Secret \cup {0}]
        /\ entry \in [Peers -> Secret \cup {Missing, Open}]
        /\ tunnel \in [Peers -> Secret \cup {Down, Missing, Open}]
    BY <1>1, <1>2
  <2>6. /\ row \in [Peers -> {"none", "invited", "redeemed"}]
        /\ config \in [Peers -> {"none", "plain", "managed"}]
    BY <1>1
  <2>. QED  BY <2>1, <2>2, <2>3, <2>4, <2>5, <2>6 DEF TypeOK
<1>4. ASSUME NEW p \in Peers PROVE PeerOK(p)
  BY <1>1, <1>2, Candidates DEF PeerOK, LinkOK, StateOK, Joining
<1>. QED  BY <1>2, <1>3, <1>4 DEF MInv

\* The step of the induction.
LEMMA MInvStep == MInv /\ [Next]_vars => MInv'
<1>. SUFFICES ASSUME MInv, [Next]_vars PROVE MInv'
  OBVIOUS
<1>1. CASE UNCHANGED vars
  <2>1. TypeOK'
    BY <1>1 DEF MInv, TypeOK, vars, serverDisk, serverLive, clientVars
  <2>. QED  BY <1>1, <2>1, OtherStep DEF vars, serverDisk, serverLive, clientVars
<1>. QED
  BY <1>1, ServeStep, PrepareStep, AddPeerStep, AdminCreateStep, RedeemStartStep, TunnelStep,
     SettlesStep, RedeemStep, SwitchStep, ProcedureStep, ManagementAssumption DEF Next

\* The inductive invariant: the two ends agree, or one has moved and the other
\* still has what it moved from; an end that retains a secret stages nothing.
THEOREM LinksInductive == Spec => []MInv
BY MInvInit, MInvStep, PTL DEF Spec

\* Both disks of a managed link always have a secret in common, so that a
\* confirmation or a rollback brings the link back (docs/design.md 5.10),
\* whatever is cut short in server/src/management.rs and
\* client-core/src/management.rs.
THEOREM SecretInCommon == Spec => []CommonSecret
<1>1. MInv => CommonSecret
  <2>. SUFFICES ASSUME MInv, NEW p \in Peers, config[p] = "managed"
                PROVE  {link[p].active.psk, link[p].previous.psk} \cap
                       {cstate[p].active.psk, cstate[p].previous.psk} \cap Secret # {}
    BY DEF CommonSecret
  <2>1. /\ link[p].active \in Candidate /\ cstate[p].active \in Candidate /\ Rel(link[p], cstate[p])
    BY DEF MInv, PeerOK
  <2>2. link[p].active.psk \in Secret /\ cstate[p].active.psk \in Secret
    BY <2>1, Candidates
  <2>. QED  BY <2>1, <2>2 DEF Rel, InStep, ServerMoved, ClientMoved
<1>. QED  BY <1>1, LinksInductive, PTL

\* When neither end retains a superseded secret both have the same one, so
\* that a restart of both ends restores the link.
THEOREM SettledEndsAgree == Spec => []SettledAgree
<1>1. MInv => SettledAgree
  BY DEF MInv, PeerOK, SettledAgree, Rel, InStep, ServerMoved, ClientMoved, Agree
<1>. QED  BY <1>1, LinksInductive, PTL

\* What a step leaves of the kernel entries of p.
Kept(p) ==
  /\ tunnel[p] \in Secret => tunnel'[p] # Open
  /\ required /\ psks[p] # 0 /\ entry[p] \in Secret => entry'[p] # Open

\* No secret is taken for an entry without one.
LEMMA OpenIsNoSecret == Open \notin Secret /\ Missing \notin Secret /\ Down \notin Secret
                        /\ Missing # Open /\ Down # Open
BY Secrets DEF Open, Missing, Down

\* A push puts in a secret, or for a moment nothing.
LEMMA PushedNotOpen ==
  ASSUME NEW kernel, kernel # Open, NEW there, NEW cut, NEW psk, psk # Open
  PROVE  Pushed(kernel, there, cut, psk) # Open
BY OpenIsNoSecret DEF Pushed

\* An entry that the server pushes has a secret.
LEMMA ServerPushKeeps ==
  ASSUME MInv, NEW p \in Peers, NEW t, t.active \in Candidate, NEW cut, ServerPush(p, t, cut), NEW q \in Peers
  PROVE  Kept(q)
<1>1. tunnel' = tunnel /\ entry' = [entry EXCEPT ![p] = Pushed(entry[p], up, cut, Built(p, t.active.psk))]
  BY DEF ServerPush, clientVars
<1>2. Built(p, t.active.psk) # Open
  BY Candidates, OpenIsNoSecret DEF Built
<1>3. entry[q] \in Secret => entry'[q] # Open
  <2>1. CASE q # p
    BY <1>1, <2>1, OpenIsNoSecret DEF MInv, TypeOK
  <2>2. CASE q = p
    BY <1>1, <1>2, <2>2, OpenIsNoSecret, PushedNotOpen DEF MInv, TypeOK
  <2>. QED  BY <2>1, <2>2
<1>. QED  BY <1>1, <1>3, OpenIsNoSecret DEF Kept

\* A tunnel that the client pushes has a secret.
LEMMA ClientPushKeeps ==
  ASSUME MInv, NEW p \in Peers, NEW c, c.active \in Candidate, NEW cut, ClientPush(p, c, cut), NEW q \in Peers
  PROVE  Kept(q)
<1>1. /\ entry' = entry
      /\ tunnel' = [tunnel EXCEPT ![p] = Pushed(tunnel[p], tunnel[p] # Down, cut, c.active.psk)]
  BY DEF ClientPush, serverLive
<1>2. c.active.psk # Open
  BY Candidates, OpenIsNoSecret
<1>3. tunnel[q] \in Secret => tunnel'[q] # Open
  <2>1. CASE q # p
    BY <1>1, <2>1, OpenIsNoSecret DEF MInv, TypeOK
  <2>2. CASE q = p
    BY <1>1, <1>2, <2>2, OpenIsNoSecret, PushedNotOpen DEF MInv, TypeOK
  <2>. QED  BY <2>1, <2>2
<1>. QED  BY <1>1, <1>3, OpenIsNoSecret DEF Kept

\* A step that touches neither kernel strips nothing.
LEMMA StillKept ==
  ASSUME UNCHANGED <<entry, tunnel>>, NEW q
  PROVE  Kept(q)
BY OpenIsNoSecret DEF Kept

\* No command of the rotation strips an entry.
LEMMA ProcedureKeeps ==
  ASSUME MInv, NEW p \in Peers, Procedure(p), NEW q \in Peers
  PROVE  Kept(q)
<1>0. link[p] \in Link /\ cstate[p] \in State /\ (Enrolled(p) => cstate[p].active \in Candidate)
  BY PeerFacts
<1>1. ASSUME NEW cut \in Cut, ServerApply(p, cut) PROVE Kept(q)
  <2>1. ApplyRotation(link[p]).active \in Candidate
    BY <1>0, <1>1, LinkOps, LinkFields, Candidates DEF Has, ServerApply
  <2>. QED  BY <1>1, <2>1, ServerPushKeeps DEF ServerApply
<1>2. ASSUME NEW cut \in Cut, ServerRollback(p, cut) PROVE Kept(q)
  <2>1. RollbackRotation(link[p]).active \in Candidate
    BY <1>0, <1>2, LinkOps, LinkFields, Candidates DEF Has, ServerRollback
  <2>. QED  BY <1>2, <2>1, ServerPushKeeps DEF ServerRollback
<1>3. ASSUME Enrolled(p), NEW cut \in Cut, Repair(p, cstate[p].active.psk, cut) PROVE Kept(q)
  <2>. DEFINE k == Generate(drawn + 1, cstate[p].active.psk)
  <2>1. drawn + 1 \in 1 .. MaxSecret /\ cstate[p].active.psk \in Secret
    BY <1>0, <1>3, SpareDraw, Candidates DEF Repair
  <2>2. k \in Candidate
    BY <2>1, Generated
  <2>3. ServerPush(p, Fresh(k), cut)
    BY <1>3 DEF Repair, ForceActive
  <2>. HIDE DEF k
  <2>4. Fresh(k).active \in Candidate
    BY <2>2, FreshLink DEF Has
  <2>. QED  BY <2>3, <2>4, ServerPushKeeps
<1>4. ASSUME NEW cut \in Cut, ClientApply(p, cut) PROVE Kept(q)
  <2>. DEFINE d == [active |-> cstate[p].staged, staged |-> NoCand, previous |-> cstate[p].active]
  <2>1. d.active \in Candidate /\ ClientPush(p, d, cut)
    BY <1>0, <1>4, StateFields, Candidates DEF ClientApply
  <2>. HIDE DEF d
  <2>. QED  BY <2>1, ClientPushKeeps
<1>5. ASSUME NEW cut \in Cut, ClientRollback(p, cut) PROVE Kept(q)
  <2>. DEFINE d == [active |-> cstate[p].previous, staged |-> NoCand, previous |-> NoCand]
  <2>1. d.active \in Candidate /\ ClientPush(p, d, cut)
    BY <1>0, <1>5, StateFields, Candidates DEF ClientRollback
  <2>. HIDE DEF d
  <2>. QED  BY <2>1, ClientPushKeeps
<1>6. CASE UNCHANGED <<entry, tunnel>>
  BY <1>6, StillKept
<1>. QED
  BY <1>1, <1>2, <1>3, <1>4, <1>5, <1>6
  DEF Procedure, ServerStage, ClientStage, MarkVerified, ServerConfirm, ClientConfirm, serverLive, clientVars

\* No other step of the server does.
LEMMA ServerKeeps ==
  ASSUME MInv, NEW q \in Peers,
         \/ Serve \/ \E reboot \in BOOLEAN : ServerStops(reboot)
         \/ \E p \in Peers : \/ \E adopted \in {0} \cup Trusted, cut \in Cut : Prepare(p, adopted, cut)
                             \/ \E upto \in 1 .. 4 : AddPeer(p, upto)
                             \/ AdminCreate(p) \/ RedeemSettles(p)
                             \/ Disable(p) \/ Enable(p) \/ AdminSwitch(p)
  PROVE  Kept(q)
<1>0. TypeOK /\ PeerOK(q) /\ (~ serving => psks[q] = 0) /\ (Linked(q) => link[q].active.psk # Open)
  BY PeerFacts, Candidates, OpenIsNoSecret DEF MInv
<1>1. tunnel' = tunnel \/ \E p \in Peers, upto \in 1 .. 4 : AddPeer(p, upto)
  BY DEF Serve, ServerStops, Prepare, AdminCreate, RedeemSettles, Disable, Enable, AdminSwitch, clientVars
<1>2. tunnel[q] \in Secret => tunnel'[q] # Open
  BY <1>1, OpenIsNoSecret DEF AddPeer
<1>3. ASSUME required, psks[q] # 0, entry[q] \in Secret PROVE entry'[q] # Open
  <2>0. row[q] # "none" /\ serving /\ entry[q] # Open
    BY <1>0, <1>3, OpenIsNoSecret DEF PeerOK
  <2>1. CASE Serve
    BY <2>0, <2>1 DEF Serve
  <2>2. ASSUME NEW reboot \in BOOLEAN, ServerStops(reboot) PROVE entry'[q] # Open
    BY <2>0, <2>2, OpenIsNoSecret DEF ServerStops
  <2>3. ASSUME NEW p \in Peers, NEW adopted, NEW cut, Prepare(p, adopted, cut) PROVE entry'[q] # Open
    BY <2>0, <2>3 DEF Prepare, serverLive
  <2>4. ASSUME NEW p \in Peers, NEW upto, AddPeer(p, upto) \/ AdminCreate(p) PROVE entry'[q] # Open
    <3>1. p # q
      BY <2>0, <2>4 DEF AddPeer, AdminCreate
    <3>2. entry'[q] = entry[q]
      BY <1>0, <2>4, <3>1 DEF AddPeer, AdminCreate, TypeOK
    <3>. QED  BY <2>0, <3>2
  <2>5. ASSUME NEW p \in Peers, RedeemSettles(p) PROVE entry'[q] # Open
    <3>1. entry' = [entry EXCEPT ![p] = RedeemedEntry(p)]
      BY <2>5 DEF RedeemSettles
    <3>2. psks[q] # Open
      BY <1>3 DEF Open
    <3>. QED  BY <1>0, <1>3, <2>0, <3>1, <3>2 DEF TypeOK, RedeemedEntry
  <2>6. ASSUME NEW p \in Peers, Disable(p) \/ AdminSwitch(p) PROVE entry'[q] # Open
    BY <1>0, <2>0, <2>6, OpenIsNoSecret DEF Disable, AdminSwitch, serverLive, TypeOK
  <2>7. ASSUME NEW p \in Peers, Enable(p) PROVE entry'[q] # Open
    <3>1. entry' = entry \/ (Linked(p) /\ entry' = [entry EXCEPT ![p] = link[p].active.psk])
      BY <1>3, <2>7 DEF Enable
    <3>. QED  BY <1>0, <2>0, <3>1 DEF TypeOK
  <2>. QED  BY <2>1, <2>2, <2>3, <2>4, <2>5, <2>6, <2>7
<1>. QED  BY <1>2, <1>3 DEF Kept

\* Nor does a step of the client.
LEMMA ClientKeeps ==
  ASSUME MInv, NEW q \in Peers, NEW p \in Peers,
         \/ RedeemStart(p) \/ RedeemFails(p) \/ ClientUp(p) \/ ClientFetch(p) \/ ClientReboot(p)
         \/ \E answered \in BOOLEAN : Redeem(p, answered)
  PROVE  Kept(q)
<1>0. TypeOK /\ (Enrolled(p) => cstate[p].active.psk # Open) /\ tunnel \in [Peers -> Secret \cup {Down, Missing, Open}]
  BY PeerFacts, Candidates, OpenIsNoSecret DEF MInv, TypeOK
<1>1. entry' = entry
  BY DEF RedeemStart, RedeemFails, ClientUp, ClientFetch, ClientReboot, Redeem, serverLive
<1>2. ASSUME tunnel[q] \in Secret PROVE tunnel'[q] # Open
  <2>0. tunnel[q] # Open /\ tunnel[q] # Down /\ tunnel[q] # Missing
    BY <1>2, OpenIsNoSecret
  <2>1. CASE RedeemFails(p) \/ ClientReboot(p) \/ \E answered \in BOOLEAN : Redeem(p, answered)
    <3>1. tunnel' = tunnel \/ tunnel' = [tunnel EXCEPT ![p] = Down]
      BY <2>1 DEF RedeemFails, ClientReboot, Redeem
    <3>. QED  BY <1>0, <2>0, <3>1, OpenIsNoSecret
  <2>2. CASE RedeemStart(p) \/ ClientUp(p)
    <3>1. tunnel[p] = Down /\ \E e : tunnel' = [tunnel EXCEPT ![p] = e]
      BY <2>2 DEF RedeemStart, MayInstall, ClientUp
    <3>. QED  BY <1>0, <2>0, <3>1
  <2>3. CASE ClientFetch(p)
    <3>1. tunnel' = [tunnel EXCEPT ![p] = Refetched(p)]
      BY <2>3 DEF ClientFetch
    <3>. QED  BY <1>0, <2>0, <3>1 DEF Refetched
  <2>. QED  BY <2>1, <2>2, <2>3
<1>. QED  BY <1>1, <1>2, OpenIsNoSecret DEF Kept

\* No live entry loses its preshared key: not when `fetch` rebuilds the
\* client's (interface.rs:423), and on a network that requires management not
\* when a redemption, enable-peer or a rotation rebuilds the server's.
THEOREM NoKeyStripped == Spec => PskNeverStripped
<1>1. ASSUME MInv, [Next]_vars, NEW q \in Peers PROVE Kept(q)
  <2>1. CASE UNCHANGED vars
    BY <2>1, StillKept DEF vars, serverLive, clientVars
  <2>. QED  BY <1>1, <2>1, ServerKeeps, ClientKeeps, ProcedureKeeps DEF Next
<1>2. MInv /\ [Next]_vars =>
        [\A p \in Peers :
           /\ tunnel[p] \in Secret => tunnel'[p] # Open
           /\ required /\ psks[p] # 0 /\ entry[p] \in Secret => entry'[p] # Open]_vars
  BY <1>1 DEF Kept
<1>. QED  BY <1>2, MInvInit, MInvStep, PTL DEF Spec, PskNeverStripped
=============================================================================
