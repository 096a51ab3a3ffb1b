----------------------------- MODULE Directory -----------------------------
(***************************************************************************)
(* The coordination server's database and the part of the PQ mailbox that  *)
(* depends on it: CIDRs, associations, peers and invitations (server/src/  *)
(* db/{cidr,association,peer}.rs with their admin and user handlers and    *)
(* CLI commands), the visibility revision its triggers maintain, bundles   *)
(* and exchange records (db/pq.rs), and the paged walk of a client over    *)
(* all of it (api/pq.rs, client-core/src/pq_sync.rs `fetch_state`).        *)
(*                                                                         *)
(* Every handler holds the one connection for one transaction, so it is    *)
(* one step; a walk is one step per page.  PqExchange has the messages of  *)
(* an exchange in full; here a record is preparing (it can expire),        *)
(* decided or done.  A CIDR is the set of its addresses.                   *)
(***************************************************************************)
EXTENDS Integers, FiniteSets, FiniteSetsExt

CONSTANTS
  Ranges,       \* the address sets that a CIDR can have; any two are nested
                \* or disjoint
  MaxCidr,      \* bound: CIDR ids
  MaxPeer,      \* bound: peer ids
  NewAddrs,     \* bound: the addresses that a new peer may be given
  MaxRevision,  \* bound: changes of the database
  MaxExchange,  \* bound: exchanges proposed
  PageLimit,    \* objects on one page (32 in the code)
  ShortPage,    \* bound: objects on a page that is cut at its size in bytes
  PeerActive,   \* `Limits.peer_active`
  GlobalActive, \* `Limits.global_active`
  Walker        \* the peer whose client walks

ASSUME DirectoryAssumption ==
  /\ \A r, s \in Ranges : r \cap s = {} \/ r \subseteq s \/ s \subseteq r
  /\ {} \notin Ranges
  /\ {{1}, {2, 3, 4}, {5, 6}} \subseteq Ranges \* those of Init
  /\ MaxCidr \in 4 .. 99 /\ MaxPeer \in 4 .. 99
  /\ PeerActive \in Nat \ {0} /\ GlobalActive \in Nat \ {0} \* `Limits::validate`
  /\ PageLimit \in Nat \ {0} /\ ShortPage \in 1 .. PageLimit

VARIABLES
  cidr,      \* cidrs: per id its range and parent, {} for no row
  assoc,     \* associations: sets of two CIDR ids; the order is never used
  peer,      \* peers: per id its CIDR (0: no row), address, flags
  maxId,     \* pq_network.max_peer_id
  revision,  \* pq_network.visibility_revision
  swept,     \* pq_network.swept_visibility_revision
  bundle,    \* pq_bundles: per peer the id (0: none) and whether it is enabled
  drawn,     \* bundle ids drawn; all of them are in pq_bundle_history
  mail,      \* pq_exchanges
  opened,    \* exchanges proposed so far
  walk       \* the walker's `fetch_state`

tree == <<cidr, assoc, peer, maxId>>
box  == <<bundle, drawn, mail, opened>>
vars == <<tree, revision, swept, box, walk>>

Server == 1  \* the peer with the is_server flag
Infra  == 2  \* the CIDR that everyone sees

NoCidr   == [range |-> {}, parent |-> 0]
NoPeer   == [cidr |-> 0, ip |-> 0, disabled |-> FALSE, redeemed |-> FALSE]
NoBundle == [id |-> 0, enabled |-> FALSE]
NoWalk   == [at |-> 0, rev |-> 0, peers |-> {}, mail |-> {}, phase |-> "idle"]

Cidrs == {c \in 1 .. MaxCidr : cidr[c] # NoCidr}
Rows  == {p \in 1 .. MaxPeer : peer[p] # NoPeer}

\* The root, the server's CIDR and two more.
FirstCidrs ==
  [c \in 1 .. MaxCidr |->
    CASE c = 1 -> [range |-> UNION Ranges, parent |-> 0]
      [] c = 2 -> [range |-> {1}, parent |-> 1]
      [] c = 3 -> [range |-> {2, 3, 4}, parent |-> 1]
      [] c = 4 -> [range |-> {5, 6}, parent |-> 1]
      [] OTHER -> NoCidr]

\* A small network: the first CIDRs, two of them associated; three redeemed
\* peers besides the server, two of them registered.
Init ==
  /\ cidr = FirstCidrs
  /\ assoc = {{3, 4}}
  /\ peer = [p \in 1 .. MaxPeer |->
              CASE p = 1 -> [cidr |-> 2, ip |-> 1, disabled |-> FALSE, redeemed |-> TRUE]
                [] p = 2 -> [cidr |-> 3, ip |-> 2, disabled |-> FALSE, redeemed |-> TRUE]
                [] p = 3 -> [cidr |-> 3, ip |-> 3, disabled |-> FALSE, redeemed |-> TRUE]
                [] p = 4 -> [cidr |-> 4, ip |-> 5, disabled |-> FALSE, redeemed |-> TRUE]
                [] OTHER -> NoPeer]
  /\ maxId = 4 /\ revision = 1 /\ swept = 1
  /\ bundle = [p \in 1 .. MaxPeer |->
                CASE p = 2 -> [id |-> 1, enabled |-> TRUE]
                  [] p = 4 -> [id |-> 2, enabled |-> TRUE]
                  [] OTHER -> NoBundle]
  /\ drawn = 2 /\ mail = {} /\ opened = 0
  /\ walk = NoWalk

-----------------------------------------------------------------------------
(* Who sees whom: `get_all_allowed_peers` and `pair_allowed` *)

\* The query's three tables, each the least set closed under its recursive
\* step: a CIDR and those above it, what these are associated with, and
\* everything below.  Something is above c if every set of CIDRs that has c
\* and is closed under parents has it, and below a set if every such set that
\* has it meets the set.
Upward == {u \in SUBSET Cidrs : \A d \in u : cidr[d].parent \in u \cup {0}}

ParentOf(c) == {d \in Cidrs : \A u \in Upward : c \in u => d \in u}

Associated(c) ==
  LET above == ParentOf(c)
  IN UNION {{d \in a : \E e \in a \ {d} : e \in above} : a \in assoc}

AssociatedSubcidrs(c) ==
  LET seeds == {c, Infra} \cup Associated(c)
  IN {d \in Cidrs : \A u \in Upward : d \in u => u \cap seeds # {}}

Allowed(p) ==
  LET seen == AssociatedSubcidrs(peer[p].cidr)
  IN {q \in Rows : ~ peer[q].disabled /\ peer[q].redeemed /\ peer[q].cidr \in seen}

PairAllowed(p, q) ==
  /\ p # q /\ Server \notin {p, q}
  /\ p \in Rows /\ q \in Rows
  /\ q \in Allowed(p) /\ p \in Allowed(q)

\* `ready`: the feature is on and the server's own row is in force.
Ready == ~ peer[Server].disabled /\ peer[Server].redeemed

\* `caller`: the row is read again in the transaction of the write.
Caller(p) == p \in Rows /\ ~ peer[p].disabled /\ peer[p].redeemed

-----------------------------------------------------------------------------
(* The mailbox: sweeping *)

Active(box1) == {m \in box1 : m.status # "done"}
Of(p, box1)  == {m \in box1 : p \in {m.a, m.b}}

Ended(box1, those) ==
  {IF m \in those THEN [m EXCEPT !.status = "done"] ELSE m : m \in box1}

\* `terminate_peer`
TerminatePeer(p, box1) == Ended(box1, Active(Of(p, box1)))

\* `sweep_inner`: due preparations end; when visibility changed since the
\* last sweep, so does every exchange of a pair that may no longer talk.
SweepInner(due) ==
  Ended(mail, {m \in Active(mail) :
                 \/ m.x \in due
                 \/ revision # swept /\ ~ PairAllowed(m.a, m.b)})

Due == SUBSET {m.x : m \in {o \in mail : o.status = "preparing"}}

-----------------------------------------------------------------------------
(* Changes of the directory *)

\* Every change of a row fires a trigger on pq_network.
Bump == revision < MaxRevision /\ revision' = revision + 1

\* `DatabaseCidr::create`
Closest(r) ==
  {c \in Cidrs : r \subseteq cidr[c].range
                 /\ \A d \in Cidrs : r \subseteq cidr[d].range => cidr[c].range \subseteq cidr[d].range}

\* Mutant of Overlaps: an existing range inside the new one goes unnoticed.
OverlapsOutside(r, s) == r # s /\ r \subseteq s

Overlaps(r, s) == r \cap s # {}

CreateCidr(r, parent) ==
  /\ parent = 0 \/ parent \in Cidrs
  /\ \A p \in Rows : peer[p].cidr # parent
  /\ parent # 0 => parent \in Closest(r)
  /\ \A s \in Cidrs : cidr[s].parent = parent => ~ Overlaps(r, cidr[s].range)
  /\ \A s \in Cidrs : cidr[s].range # r
  /\ LET id == Max(Cidrs) + 1
     IN id =< MaxCidr /\ cidr' = [cidr EXCEPT ![id] = [range |-> r, parent |-> parent]]
  /\ Bump
  /\ UNCHANGED <<assoc, peer, maxId, swept, box, walk>>

\* `DatabaseCidr::delete`: foreign keys protect what is referred to.
DeleteCidr(c) ==
  /\ c \in Cidrs
  /\ \A d \in Cidrs : cidr[d].parent # c
  /\ \A p \in Rows : peer[p].cidr # c
  /\ \A a \in assoc : c \notin a
  /\ cidr' = [cidr EXCEPT ![c] = NoCidr]
  /\ Bump
  /\ UNCHANGED <<assoc, peer, maxId, swept, box, walk>>

CreateAssociation(c, d) ==
  /\ {c, d} \notin assoc
  /\ c # d /\ {c, d} \subseteq Cidrs
  /\ assoc' = assoc \cup {{c, d}}
  /\ Bump
  /\ UNCHANGED <<cidr, peer, maxId, swept, box, walk>>

\* The mailbox as `DatabaseAssociation::delete` leaves it: swept in the same
\* transaction, at time 0, so that nothing expires.
\* Mutant of SweptWithout: the sweep is left to the next request.
SweptWithoutLater(a) == swept' = swept /\ mail' = mail

SweptWithout(a) ==
  /\ swept' = revision + 1
  /\ mail' = Ended(mail, {m \in Active(mail) : ~ PairAllowed(m.a, m.b)'})

DeleteAssociation(a) ==
  /\ a \in assoc
  /\ assoc' = assoc \ {a}
  /\ Bump
  /\ UNCHANGED <<cidr, peer, maxId>>
  /\ SweptWithout(a)
  /\ UNCHANGED <<bundle, drawn, opened, walk>>

\* The id of a new row is one that no row ever had.
\* Mutant of NewId: it is what SQLite would choose by itself.
NewIdReused == Max(Rows) + 1

NewId == maxId + 1

\* `DatabasePeer::create`, from add-peer or POST /admin/peers.
CreatePeer(c, ip) ==
  /\ c \in Cidrs /\ ip \in cidr[c].range
  /\ \A q \in Rows : peer[q].ip # ip
  /\ NewId =< MaxPeer /\ maxId' = NewId
  /\ peer' = [peer EXCEPT ![NewId] =
                [cidr |-> c, ip |-> ip, disabled |-> FALSE, redeemed |-> FALSE]]
  /\ Bump
  /\ UNCHANGED <<cidr, assoc, swept, box, walk>>

\* `DatabasePeer::update` and `disable`: the whole contents are written, as
\* the administrator last saw them, with the change he made.
DisabledMail(p, disabled) == IF disabled THEN TerminatePeer(p, mail) ELSE mail

UpdatePeer(p, disabled) ==
  /\ p \in Rows
  /\ peer' = [peer EXCEPT ![p].disabled = disabled]
  /\ mail' = DisabledMail(p, disabled)
  /\ Bump
  /\ UNCHANGED <<cidr, assoc, maxId, swept, bundle, drawn, opened, walk>>

\* The row may have been disabled since the session was checked.
RedeemPeer(p) ==
  /\ p \in Rows /\ ~ peer[p].redeemed
  /\ peer' = [peer EXCEPT ![p].redeemed = TRUE]
  /\ Bump
  /\ UNCHANGED <<cidr, assoc, maxId, swept, box, walk>>

\* `delete_expired_invites`; the id is not given out again.
DeleteExpiredInvite(p) ==
  /\ p \in Rows /\ ~ peer[p].redeemed
  /\ peer' = [peer EXCEPT ![p] = NoPeer]
  /\ Bump
  /\ UNCHANGED <<cidr, assoc, maxId, swept, box, walk>>

\* PUT /user/candidates, PUT /user/endpoint, the renames of CIDRs: rows
\* change in ways that nothing here looks at, and the triggers fire.
Touch ==
  /\ Bump
  /\ UNCHANGED <<tree, swept, box, walk>>

-----------------------------------------------------------------------------
(* The mailbox: registrations and exchanges *)

\* `write` sweeps first, then does the operation in the same transaction; a
\* refused operation leaves the sweep, which is a Sweep.

\* `register_inner`.  The finished records of the peer are deleted.
\* Mutant of Kept: they stay.
KeptAll(p, box1) == box1

Kept(p, box1) == box1 \ {m \in Of(p, box1) : m.status = "done"}

Register(p, due) ==
  /\ Ready /\ Caller(p) /\ p # Server
  /\ LET now == SweepInner(due)
     IN Active(Of(p, now)) = {} /\ mail' = Kept(p, now)
  /\ drawn' = drawn + 1
  /\ bundle' = [bundle EXCEPT ![p] = [id |-> drawn + 1, enabled |-> TRUE]]
  /\ Bump /\ swept' = revision
  /\ UNCHANGED <<tree, opened, walk>>

Retire(p, due, emergency) ==
  /\ Ready /\ Caller(p) /\ p # Server
  /\ bundle[p].enabled
  /\ LET now == SweepInner(due)
     IN /\ emergency \/ Active(Of(p, now)) = {}
        /\ mail' = Kept(p, TerminatePeer(p, now))
  /\ bundle' = [bundle EXCEPT ![p].enabled = FALSE]
  /\ Bump /\ swept' = revision
  /\ UNCHANGED <<tree, drawn, opened, walk>>

\* `submit_inner` for a proposal: both bundles enabled, no exchange of the
\* pair under way, and room for one more at both peers and at the server.
\* Mutant of Admitted: the limit of the other peer is not looked at.
AdmittedCallerOnly(p, q, box1) ==
  /\ Cardinality(Active(Of(p, box1))) < PeerActive
  /\ Cardinality(Active(box1)) < GlobalActive

Admitted(p, q, box1) ==
  /\ \A r \in {p, q} : Cardinality(Active(Of(r, box1))) < PeerActive
  /\ Cardinality(Active(box1)) < GlobalActive

\* Either of the two sends it.
Propose(p, q, due) ==
  /\ p < q /\ opened < MaxExchange /\ opened' = opened + 1
  /\ bundle[p].enabled /\ bundle[q].enabled
  /\ LET now  == SweepInner(due)
         pair == Of(p, now) \cap Of(q, now)
         same == {m \in pair : m.ba = bundle[p].id /\ m.bb = bundle[q].id}
     IN /\ Active(pair) = {} /\ Admitted(p, q, now)
        /\ Ready /\ PairAllowed(p, q)
        /\ mail' = (now \ same) \cup
                    {[x |-> opened + 1, a |-> p, b |-> q, ba |-> bundle[p].id,
                      bb |-> bundle[q].id, status |-> "preparing"]}
  /\ swept' = revision
  /\ UNCHANGED <<tree, revision, bundle, drawn, walk>>

\* Any later message of either side that the decision accepts.
Advance(m, due, next) ==
  /\ Ready /\ PairAllowed(m.a, m.b)
  /\ bundle[m.a] = [id |-> m.ba, enabled |-> TRUE]
  /\ bundle[m.b] = [id |-> m.bb, enabled |-> TRUE]
  /\ m.status = "decided" => next = "done"
  /\ LET now == SweepInner(due)
     IN m \in Active(now) /\ mail' = (now \ {m}) \cup {[m EXCEPT !.status = next]}
  /\ swept' = revision
  /\ UNCHANGED <<tree, revision, bundle, drawn, opened, walk>>

\* The sweeper's tick, or the sweep of a write that is then refused.
Sweep(due) ==
  /\ Active(mail) # {}
  /\ swept' = revision /\ mail' = SweepInner(due)
  /\ UNCHANGED <<tree, revision, bundle, drawn, opened, walk>>

-----------------------------------------------------------------------------
(* The walk: `page` on the server, `fetch_state` on the client *)

\* What the pages hold, in this order: the peers the caller sees, the CIDRs,
\* its exchanges with peers it may talk to.  A number stands for the cursor
\* behind an object: 100 * stage + id.
Objects(p, box1) ==
  LET others == UNION {{m.a, m.b} \ {p} : m \in Of(p, box1)}
  IN Allowed(p)
     \cup {100 + c : c \in Cidrs}
     \cup {200 + q : q \in {r \in others : PairAllowed(p, r)}}

After(s, at) == {o \in s : o > at}

\* The first n of the rest, or all when there are fewer.
Page(rest, n) == {o \in rest : Cardinality({r \in rest : r < o}) < n}

\* What the client keeps of a page.
PeersOn(page) == {[id |-> q, bundle |-> bundle[q]] : q \in page \cap (1 .. 99)}
MailOn(page, p, box1) ==
  {[x |-> m.x, a |-> m.a, b |-> m.b, ba |-> m.ba, bb |-> m.bb] :
     m \in {o \in Of(p, box1) : \E q \in {o.a, o.b} \ {p} : 200 + q \in page}}

\* The cursor is bound to the revision.
\* Mutant of CursorHolds: it is not.
CursorAlways(w) == TRUE

CursorHolds(w) == w.at = 0 \/ w.rev = revision

StartWalk ==
  /\ walk.phase = "idle"
  /\ walk' = [NoWalk EXCEPT !.phase = "walking"]
  /\ UNCHANGED <<tree, revision, swept, box>>

\* One page.  It is shorter than PageLimit when the next object would make
\* it too large.
PageDue == walk.phase = "walking" /\ Ready /\ Caller(Walker) /\ CursorHolds(walk)

WalkPage(due, n) ==
  /\ PageDue
  /\ swept' = revision /\ mail' = SweepInner(due)
  /\ LET now  == SweepInner(due)
         rest == After(Objects(Walker, now), walk.at)
         page == Page(rest, n)
     IN /\ n = PageLimit \/ Cardinality(rest) > n
        /\ walk' = [at    |-> IF page = {} THEN walk.at ELSE Max(page),
                    rev   |-> revision,
                    peers |-> walk.peers \cup PeersOn(page),
                    mail  |-> walk.mail \cup MailOn(page, Walker, now),
                    phase |-> IF Cardinality(rest) < n THEN "done" ELSE "walking"]
  /\ UNCHANGED <<tree, revision, bundle, drawn, opened>>

\* Conflict: from the top, at once.  The sweep is rolled back.
\* Mutant of Restart: the client keeps its cursor.
RestartKeepsCursor(w) == [w EXCEPT !.peers = {}, !.mail = {}]

Restart(w) == [NoWalk EXCEPT !.phase = "walking"]

WalkConflict ==
  /\ walk.phase = "walking" /\ Ready /\ Caller(Walker) /\ ~ CursorHolds(walk)
  /\ walk' = Restart(walk)
  /\ UNCHANGED <<tree, revision, swept, box>>

\* Any other error ends the walk with nothing.
WalkRefused ==
  /\ walk.phase = "walking" /\ ~ (Ready /\ Caller(Walker))
  /\ walk' = NoWalk
  /\ UNCHANGED <<tree, revision, swept, box>>

\* The cycle uses the result and forgets it.
EndWalk ==
  /\ walk.phase = "done"
  /\ walk' = NoWalk
  /\ UNCHANGED <<tree, revision, swept, box>>

-----------------------------------------------------------------------------
Change ==
  \/ \E r \in Ranges, parent \in 0 .. MaxCidr : CreateCidr(r, parent)
  \/ \E c \in 1 .. MaxCidr : DeleteCidr(c)
  \/ \E c \in 1 .. MaxCidr : \E d \in c + 1 .. MaxCidr : CreateAssociation(c, d)
  \/ \E a \in assoc : DeleteAssociation(a)
  \/ \E c \in 1 .. MaxCidr, ip \in NewAddrs : CreatePeer(c, ip)
  \/ \E p \in 1 .. MaxPeer, disabled \in BOOLEAN : UpdatePeer(p, disabled)
  \/ \E p \in 1 .. MaxPeer : RedeemPeer(p) \/ DeleteExpiredInvite(p)
  \/ Touch

Mailbox ==
  \E due \in Due :
    \/ \E p \in 1 .. MaxPeer : Register(p, due)
    \/ \E p \in 1 .. MaxPeer, emergency \in BOOLEAN : Retire(p, due, emergency)
    \/ \E p, q \in 1 .. MaxPeer : Propose(p, q, due)
    \/ \E m \in Active(mail), next \in {"decided", "done"} : Advance(m, due, next)
    \/ Sweep(due)

WalkPages == \E due \in Due, n \in ShortPage .. PageLimit : WalkPage(due, n)

Walking == StartWalk \/ WalkPages \/ WalkConflict \/ WalkRefused \/ EndWalk

Next == Change \/ Mailbox \/ Walking

Spec == Init /\ [][Next]_vars

\* The client sends its next request and gets its answer.  The second conjunct
\* is WF_vars(WalkPages) with PageDue for its ENABLED.
Fairness ==
  /\ WF_vars(WalkConflict) /\ WF_vars(WalkRefused)
  /\ []<>~ PageDue \/ []<><<WalkPages>>_vars

LiveSpec == Spec /\ Fairness

-----------------------------------------------------------------------------
(* Properties *)

Exchanges ==
  [x : Nat, a : 1 .. MaxPeer, b : 1 .. MaxPeer, ba : Nat, bb : Nat,
   status : {"preparing", "decided", "done"}]

\* The tables hold rows of their types, and no peer has an id that was never
\* given out.
TypeOK ==
  /\ cidr \in [1 .. MaxCidr -> [range : SUBSET UNION Ranges, parent : 0 .. MaxCidr]]
  /\ assoc \subseteq SUBSET (1 .. MaxCidr)
  /\ peer \in [1 .. MaxPeer ->
                [cidr : 0 .. MaxCidr, ip : {0} \cup UNION Ranges,
                 disabled : BOOLEAN, redeemed : BOOLEAN]]
  /\ maxId \in Nat /\ Rows \subseteq 1 .. maxId
  /\ bundle \in [1 .. MaxPeer -> [id : Nat, enabled : BOOLEAN]]
  /\ drawn \in Nat /\ opened \in Nat
  /\ mail \subseteq Exchanges /\ IsFiniteSet(mail)
  /\ \A m \in mail : m.a < m.b

\* No exchange is under way between peers that may not talk to each other,
\* whatever took the permission away: a disabled peer, a removed association.
\* So an association that is restored later resurrects no earlier decision
\* (db/association.rs:97).
ActivePairsAllowed == \A m \in Active(mail) : PairAllowed(m.a, m.b)

\* A pair has at most one record, and it names the bundles both peers have
\* now.  The walk depends on it: its cursor passes one record per peer.
RecordsCurrent ==
  \A m \in mail :
    /\ bundle[m.a].id = m.ba /\ bundle[m.b].id = m.bb
    /\ \A o \in mail : {o.a, o.b} = {m.a, m.b} => o = m

\* No peer is in more active exchanges than its limit allows, whichever side
\* proposed them.
QuotaHolds == \A p \in 1 .. MaxPeer : Cardinality(Active(Of(p, mail))) =< PeerActive

\* The CIDRs form a tree of nested ranges with disjoint siblings, and a peer's
\* address is in its CIDR, after any creations and deletions; an association
\* never outlives its CIDRs.
TreeWellFormed ==
  /\ \A a \in assoc : a \subseteq Cidrs
  /\ \A c \in Cidrs :
       cidr[c].parent # 0 =>
         cidr[c].parent \in Cidrs /\ cidr[c].range \subseteq cidr[cidr[c].parent].range
  /\ \A c, d \in Cidrs :
       c # d /\ cidr[c].parent = cidr[d].parent => cidr[c].range \cap cidr[d].range = {}
  /\ \A p \in Rows : peer[p].cidr \in Cidrs /\ peer[p].ip \in cidr[peer[p].cidr].range

\* A completed walk read the pages in several transactions, and yet its peers
\* and bundles are those of one database state, each once, and every exchange
\* it holds is of those bundles.
WalkIsSnapshot ==
  [][walk.phase = "walking" /\ walk'.phase = "done" =>
       /\ walk'.peers = {[id |-> q, bundle |-> bundle[q]] : q \in Allowed(Walker)}
       /\ \A m \in walk'.mail : bundle[m.a].id = m.ba /\ bundle[m.b].id = m.bb
       /\ \A m, o \in walk'.mail : {m.a, m.b} = {o.a, o.b} => m = o]_vars

\* A walk ends once the database stops changing, however often it had to
\* start over before.  Without that it may not: every change restarts it.
WalkEnds == walk.phase = "walking" ~> walk.phase # "walking"
=============================================================================
