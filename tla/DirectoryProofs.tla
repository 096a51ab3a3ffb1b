--------------------------- MODULE DirectoryProofs ---------------------------
(***************************************************************************)
(* Proofs about Directory, for every set of ranges, every number of CIDRs, *)
(* peers, changes and exchanges, and every page size: the tree of CIDRs    *)
(* stays one, a record names the bundles its peers have now and is the     *)
(* only one of its pair, quotas hold on both sides, no exchange is under   *)
(* way between peers that may not talk to each other, and a walk of many   *)
(* transactions returns one state of the directory.                        *)
(*                                                                         *)
(* The last part is about Administration, which extends Directory:         *)
(* whatever the administrators read and however long their requests wait,  *)
(* all this still holds; an invitation is redeemed only by its own         *)
(* holder; and a disabled peer is enabled only by a request that says so.  *)
(***************************************************************************)
EXTENDS Administration, FiniteSetTheorems, WellFoundedInduction, TLAPS

-----------------------------------------------------------------------------
(* Numbers *)

\* A set of natural numbers below a bound has a largest member, and Max is it.
LEMMA MaxOf ==
  ASSUME NEW N \in Nat, NEW T, T \subseteq 0 .. N, T # {}
  PROVE  Max(T) \in T /\ \A y \in T : y =< Max(T)
<1>. DEFINE S == {N - t : t \in T}
<1>1. S \subseteq Nat /\ S # {}
  <2>1. PICK t \in T : TRUE
    OBVIOUS
  <2>2. N - t \in S
    OBVIOUS
  <2>3. \A u \in T : N - u \in Nat
    OBVIOUS
  <2>. QED  BY <2>2, <2>3
<1>2. PICK x \in S : \A y \in S : ~(<<y, x>> \in OpToRel(<, Nat))
  BY <1>1, NatLessThanWellFounded, WFMin
<1>3. PICK t \in T : x = N - t
  BY <1>2
<1>4. ASSUME NEW y \in T PROVE t >= y
  <2>1. N - y \in S /\ N - y \in Nat /\ x \in Nat
    BY <1>1
  <2>2. ~(N - y < x)
    BY <1>2, <2>1 DEF OpToRel
  <2>. QED  BY <1>3, <2>1, <2>2
<1>5. Max(T) \in T /\ \A y \in T : Max(T) >= y
  BY <1>4 DEF Max
<1>6. \A y \in T : y \in Int
  OBVIOUS
<1>. QED  BY <1>5, <1>6

-----------------------------------------------------------------------------
(* The mailbox: what a sweep and a deletion leave in order *)

\* The records B of the mailbox are in order, for the bundles bun: they are
\* finitely many, name current bundles, one per pair, within the quotas.
BoxOK(B, bun) ==
  /\ B \subseteq Exchanges /\ IsFiniteSet(B)
  /\ \A m \in B : m.a < m.b /\ bun[m.a].id = m.ba /\ bun[m.b].id = m.bb
  /\ \A m, o \in B : o.a = m.a /\ o.b = m.b => o = m
  /\ \A p \in 1 .. MaxPeer : Cardinality(Active(Of(p, B))) =< PeerActive

\* A mailbox with fewer active exchanges of p is within the quota as well.
LEMMA FewerHold ==
  ASSUME NEW B, IsFiniteSet(B), NEW C, NEW p \in 1 .. MaxPeer, Active(Of(p, C)) \subseteq Active(Of(p, B)),
         Cardinality(Active(Of(p, B))) =< PeerActive
  PROVE  Cardinality(Active(Of(p, C))) =< PeerActive
<1>1. Active(Of(p, B)) \subseteq B
  BY DEF Active, Of
<1>2. IsFiniteSet(Active(Of(p, B))) /\ IsFiniteSet(Active(Of(p, C)))
  BY <1>1, FS_Subset
<1>3. /\ Cardinality(Active(Of(p, C))) =< Cardinality(Active(Of(p, B)))
      /\ Cardinality(Active(Of(p, C))) \in Nat /\ Cardinality(Active(Of(p, B))) \in Nat
  BY <1>2, FS_Subset, FS_CardinalityType
<1>. QED  BY <1>3, DirectoryAssumption

\* Deleting records.
LEMMA FewerOK ==
  ASSUME NEW B, NEW bun, BoxOK(B, bun), NEW C, C \subseteq B
  PROVE  BoxOK(C, bun)
<1>1. IsFiniteSet(C)
  BY FS_Subset DEF BoxOK
<1>2. ASSUME NEW p \in 1 .. MaxPeer PROVE Cardinality(Active(Of(p, C))) =< PeerActive
  <2>1. Active(Of(p, C)) \subseteq Active(Of(p, B))
    BY DEF Active, Of
  <2>. QED  BY <2>1, FewerHold DEF BoxOK
<1>. QED  BY <1>1, <1>2 DEF BoxOK

\* Ending records.
LEMMA EndedIs ==
  ASSUME NEW B, B \subseteq Exchanges, NEW D
  PROVE  /\ Ended(B, D) \subseteq Exchanges
         /\ \A n \in Ended(B, D) : \E m \in B :
              /\ n.a = m.a /\ n.b = m.b /\ n.ba = m.ba /\ n.bb = m.bb
              /\ n = IF m \in D THEN [m EXCEPT !.status = "done"] ELSE m
         /\ Active(Ended(B, D)) \subseteq Active(B) \ D
<1>1. ASSUME NEW n \in Ended(B, D)
      PROVE  /\ n \in Exchanges
             /\ \E m \in B :
                  /\ n.a = m.a /\ n.b = m.b /\ n.ba = m.ba /\ n.bb = m.bb
                  /\ n = IF m \in D THEN [m EXCEPT !.status = "done"] ELSE m
             /\ n.status # "done" => n \in B \ D
  <2>1. PICK m \in B : n = IF m \in D THEN [m EXCEPT !.status = "done"] ELSE m
    BY DEF Ended
  <2>2. m \in Exchanges
    OBVIOUS
  <2>3. CASE m \in D
    BY <2>1, <2>2, <2>3 DEF Exchanges
  <2>4. CASE m \notin D
    BY <2>1, <2>2, <2>4
  <2>. QED  BY <2>3, <2>4
<1>. QED  BY <1>1 DEF Active

\* Ending exchanges keeps the mailbox in order.
LEMMA EndedOK ==
  ASSUME NEW B, NEW bun, BoxOK(B, bun), NEW D
  PROVE  BoxOK(Ended(B, D), bun) /\ Active(Ended(B, D)) \subseteq Active(B) \ D
<1>1. /\ Ended(B, D) \subseteq Exchanges
      /\ \A n \in Ended(B, D) : \E m \in B :
           /\ n.a = m.a /\ n.b = m.b /\ n.ba = m.ba /\ n.bb = m.bb
           /\ n = IF m \in D THEN [m EXCEPT !.status = "done"] ELSE m
      /\ Active(Ended(B, D)) \subseteq Active(B) \ D
  BY EndedIs DEF BoxOK
<1>2. IsFiniteSet(Ended(B, D))
  <2>. DEFINE f == [m \in B |-> IF m \in D THEN [m EXCEPT !.status = "done"] ELSE m]
  <2>1. f \in Surjection(B, Ended(B, D))
    BY DEF Surjection, Ended
  <2>2. IsFiniteSet(B)
    BY DEF BoxOK
  <2>. HIDE DEF f
  <2>. QED  BY <2>1, <2>2, FS_Surjection
<1>3. ASSUME NEW p \in 1 .. MaxPeer PROVE Cardinality(Active(Of(p, Ended(B, D)))) =< PeerActive
  <2>1. Active(Of(p, Ended(B, D))) \subseteq Active(Of(p, B))
    BY <1>1 DEF Active, Of
  <2>. QED  BY <2>1, FewerHold DEF BoxOK
<1>4. \A m \in Ended(B, D) : m.a < m.b /\ bun[m.a].id = m.ba /\ bun[m.b].id = m.bb
  BY <1>1 DEF BoxOK
<1>5. \A m, o \in Ended(B, D) : o.a = m.a /\ o.b = m.b => o = m
  BY <1>1 DEF BoxOK
<1>. QED  BY <1>1, <1>2, <1>3, <1>4, <1>5 DEF BoxOK

\* One more record, of a pair that has none: the quotas must have room.
LEMMA OneMoreOK ==
  ASSUME NEW B, NEW bun, BoxOK(B, bun), NEW n \in Exchanges,
         n.a < n.b, bun[n.a].id = n.ba, bun[n.b].id = n.bb,
         \A m \in B : ~(m.a = n.a /\ m.b = n.b),
         \A p \in {n.a, n.b} : Cardinality(Active(Of(p, B))) < PeerActive
  PROVE  BoxOK(B \cup {n}, bun)
<1>1. IsFiniteSet(B) /\ IsFiniteSet(B \cup {n})
  BY FS_AddElement DEF BoxOK
<1>2. ASSUME NEW p \in 1 .. MaxPeer PROVE Cardinality(Active(Of(p, B \cup {n}))) =< PeerActive
  <2>. DEFINE A == Active(Of(p, B))
              Z == Active(Of(p, B \cup {n}))
  <2>1. IsFiniteSet(A) /\ Cardinality(A) \in Nat /\ Cardinality(A) =< PeerActive
    <3>1. A \subseteq B
      BY DEF Active, Of
    <3>. QED  BY <1>1, <3>1, FS_Subset, FS_CardinalityType DEF BoxOK
  <2>2. CASE p \in {n.a, n.b}
    <3>1. Cardinality(A) < PeerActive
      BY <2>2
    <3>2. Z \subseteq A \cup {n}
      BY DEF Active, Of
    <3>. HIDE DEF A, Z
    <3>3. IsFiniteSet(A \cup {n}) /\ Cardinality(A \cup {n}) =< Cardinality(A) + 1
      <4>1. /\ IsFiniteSet(A \cup {n})
            /\ Cardinality(A \cup {n}) = IF n \in A THEN Cardinality(A) ELSE Cardinality(A) + 1
        BY <2>1, FS_AddElement
      <4>. QED  BY <2>1, <4>1
    <3>4. Cardinality(Z) =< Cardinality(A \cup {n}) /\ Cardinality(Z) \in Nat /\ Cardinality(A \cup {n}) \in Nat
      BY <3>2, <3>3, FS_Subset, FS_CardinalityType
    <3>5. Cardinality(Z) =< PeerActive
      BY <2>1, <3>1, <3>3, <3>4, DirectoryAssumption
    <3>. QED  BY <3>5 DEF Z
  <2>3. CASE p \notin {n.a, n.b}
    <3>1. Z \subseteq A
      BY <2>3 DEF Active, Of
    <3>. QED  BY <1>1, <3>1, FewerHold DEF BoxOK
  <2>. QED  BY <2>2, <2>3
<1>3. \A m \in B \cup {n} : m.a < m.b /\ bun[m.a].id = m.ba /\ bun[m.b].id = m.bb
  BY DEF BoxOK
<1>4. \A m, o \in B \cup {n} : o.a = m.a /\ o.b = m.b => o = m
  BY DEF BoxOK
<1>. QED  BY <1>1, <1>2, <1>3, <1>4 DEF BoxOK

\* A record that goes on.
LEMMA GoesOnOK ==
  ASSUME NEW B, NEW bun, BoxOK(B, bun), NEW m \in Active(B), NEW n \in Exchanges,
         n.a = m.a, n.b = m.b, n.ba = m.ba, n.bb = m.bb
  PROVE  BoxOK((B \ {m}) \cup {n}, bun)
<1>. DEFINE C == B \ {m}
<1>1. m \in B /\ m.status # "done" /\ m \in Exchanges /\ IsFiniteSet(B) /\ C \subseteq B
  BY DEF Active, BoxOK
<1>2. BoxOK(C, bun)
  BY <1>1, FewerOK
<1>3. \A o \in C : ~(o.a = n.a /\ o.b = n.b)
  BY <1>1 DEF BoxOK
<1>4. ASSUME NEW p \in {n.a, n.b} PROVE Cardinality(Active(Of(p, C))) < PeerActive
  <2>0. p \in 1 .. MaxPeer /\ p \in {m.a, m.b}
    BY DEF Exchanges
  <2>. DEFINE A == Active(Of(p, B))
  <2>1. m \in A /\ Active(Of(p, C)) = A \ {m}
    BY <1>1, <2>0 DEF Active, Of
  <2>2. IsFiniteSet(A) /\ Cardinality(A) \in Nat /\ Cardinality(A) =< PeerActive
    <3>1. A \subseteq B
      BY DEF Active, Of
    <3>. QED  BY <1>1, <2>0, <3>1, FS_Subset, FS_CardinalityType DEF BoxOK
  <2>3. Cardinality(A \ {m}) = Cardinality(A) - 1
    BY <2>1, <2>2, FS_RemoveElement
  <2>4. PeerActive \in Nat /\ Active(Of(p, C)) = A \ {m}
    BY <2>1, DirectoryAssumption
  <2>. HIDE DEF A, C
  <2>. QED  BY <2>2, <2>3, <2>4
<1>5. n.a < n.b /\ bun[n.a].id = n.ba /\ bun[n.b].id = n.bb
  BY <1>1 DEF BoxOK
<1>. QED  BY <1>2, <1>3, <1>4, <1>5, OneMoreOK

-----------------------------------------------------------------------------
(* Who sees whom, when the tree changes *)

\* The server has a redeemed row, which no operation deletes.
ServerRow == Server \in Rows /\ peer[Server].redeemed

\* No line of parents and no association is lost.
Widens ==
  /\ \A u \in Upward' : u \cap Cidrs \in Upward
  /\ \A c \in Cidrs \cap Cidrs' : ParentOf(c) \subseteq Cidrs'
  /\ assoc \subseteq assoc'

\* What a CIDR reaches through associations only grows when the tree widens.
LEMMA SeesMore ==
  ASSUME Widens, NEW c \in Cidrs \cap Cidrs'
  PROVE  AssociatedSubcidrs(c) \cap Cidrs' \subseteq AssociatedSubcidrs(c)'
<1>1. ParentOf(c) \subseteq ParentOf(c)'
  <2>. SUFFICES ASSUME NEW d \in ParentOf(c), NEW u \in Upward', c \in u PROVE d \in Cidrs' /\ d \in u
    BY DEF ParentOf, Widens
  <2>1. d \in Cidrs'
    BY DEF Widens
  <2>2. u \cap Cidrs \in Upward /\ c \in u \cap Cidrs
    BY DEF Widens
  <2>3. d \in u \cap Cidrs
    BY <2>2 DEF ParentOf
  <2>. QED  BY <2>1, <2>3
<1>2. Associated(c) \subseteq Associated(c)'
  BY <1>1 DEF Associated, Widens
<1>. SUFFICES ASSUME NEW d \in AssociatedSubcidrs(c), d \in Cidrs', NEW u \in Upward', d \in u
              PROVE  u \cap ({c, Infra} \cup Associated(c)') # {}
  BY DEF AssociatedSubcidrs
<1>3. u \cap Cidrs \in Upward /\ d \in u \cap Cidrs
  BY DEF Widens, AssociatedSubcidrs
<1>4. (u \cap Cidrs) \cap ({c, Infra} \cup Associated(c)) # {}
  BY <1>3 DEF AssociatedSubcidrs
<1>. QED  BY <1>2, <1>4

\* A pair of peers whose rows stay in force may still talk.
InForce(p) == p \in Rows /\ ~ peer[p].disabled /\ peer[p].redeemed

\* A change that widens the tree takes no pair of its permission.
LEMMA PairKept ==
  ASSUME Widens, NEW p, NEW q, PairAllowed(p, q), InForce(p)', InForce(q)',
         peer'[p].cidr = peer[p].cidr, peer'[q].cidr = peer[q].cidr,
         peer[p].cidr \in Cidrs \cap Cidrs', peer[q].cidr \in Cidrs \cap Cidrs'
  PROVE  PairAllowed(p, q)'
<1>1. q \in Allowed(p)'
  <2>1. peer[q].cidr \in AssociatedSubcidrs(peer[p].cidr)
    BY DEF PairAllowed, Allowed
  <2>2. peer[q].cidr \in AssociatedSubcidrs(peer[p].cidr)'
    BY <2>1, SeesMore
  <2>. QED  BY <2>2 DEF Allowed, InForce
<1>2. p \in Allowed(q)'
  <2>1. peer[p].cidr \in AssociatedSubcidrs(peer[q].cidr)
    BY DEF PairAllowed, Allowed
  <2>2. peer[p].cidr \in AssociatedSubcidrs(peer[q].cidr)'
    BY <2>1, SeesMore
  <2>. QED  BY <2>2 DEF Allowed, InForce
<1>. QED  BY <1>1, <1>2 DEF PairAllowed, InForce

\* With the CIDRs as they are and no association removed the tree widens.
LEMMA SameTreeWidens ==
  ASSUME UNCHANGED cidr, assoc \subseteq assoc'
  PROVE  Widens /\ Cidrs' = Cidrs
<1>1. Cidrs' = Cidrs /\ Upward' = Upward
  BY DEF Cidrs, Upward
<1>2. \A u \in Upward : u \cap Cidrs = u
  BY DEF Upward
<1>. QED  BY <1>1, <1>2 DEF Widens, ParentOf

\* A CIDR comes.
LEMMA NewCidr ==
  ASSUME TypeOK, TreeWellFormed, ServerRow, NEW r \in Ranges, NEW parent, CreateCidr(r, parent)
  PROVE  \E id \in 1 .. MaxCidr \ Cidrs :
           /\ cidr' = [cidr EXCEPT ![id] = [range |-> r, parent |-> parent]]
           /\ Cidrs' = Cidrs \cup {id}
           /\ \A c \in Cidrs : cidr'[c] = cidr[c]
           /\ cidr'[id] = [range |-> r, parent |-> parent]
           /\ parent \in {0} \cup Cidrs
<1>. DEFINE id == Max(Cidrs) + 1
<1>1. Cidrs \subseteq 0 .. MaxCidr /\ Cidrs # {} /\ MaxCidr \in Nat
  BY DirectoryAssumption DEF Cidrs, TreeWellFormed, ServerRow
<1>2. Max(Cidrs) \in Cidrs /\ \A y \in Cidrs : y =< Max(Cidrs)
  BY <1>1, MaxOf
<1>3. /\ id =< MaxCidr /\ cidr' = [cidr EXCEPT ![id] = [range |-> r, parent |-> parent]]
      /\ parent \in {0} \cup Cidrs
  BY DEF CreateCidr
<1>4. Max(Cidrs) \in 1 .. MaxCidr
  BY <1>2 DEF Cidrs
<1>. HIDE DEF id
<1>5. id \in 1 .. MaxCidr /\ id \notin Cidrs
  BY <1>1, <1>2, <1>3, <1>4 DEF id
<1>6. cidr'[id] = [range |-> r, parent |-> parent] /\ \A c \in 1 .. MaxCidr : c # id => cidr'[c] = cidr[c]
  BY <1>3, <1>5 DEF TypeOK
<1>7. [range |-> r, parent |-> parent] # NoCidr
  <2>1. r # {}
    BY DirectoryAssumption
  <2>. QED  BY <2>1 DEF NoCidr
<1>8. Cidrs' = Cidrs \cup {id}
  BY <1>5, <1>6, <1>7 DEF Cidrs, NoCidr
<1>9. \A c \in Cidrs : cidr'[c] = cidr[c]
  BY <1>5, <1>6 DEF Cidrs
<1>. QED  BY <1>3, <1>5, <1>6, <1>8, <1>9

\* `cidr::create`: a leaf is added below its parent.
LEMMA NewCidrWidens ==
  ASSUME TypeOK, TreeWellFormed, NEW id, id \notin Cidrs, Cidrs' = Cidrs \cup {id},
         \A c \in Cidrs : cidr'[c] = cidr[c], UNCHANGED assoc
  PROVE  Widens
<1>1. ASSUME NEW u \in Upward' PROVE u \cap Cidrs \in Upward
  <2>1. ASSUME NEW d \in u \cap Cidrs PROVE cidr[d].parent \in (u \cap Cidrs) \cup {0}
    <3>1. cidr'[d].parent \in u \cup {0}
      BY DEF Upward
    <3>2. cidr[d].parent \in Cidrs \cup {0}
      BY DEF TreeWellFormed
    <3>. QED  BY <3>1, <3>2
  <2>. QED  BY <2>1 DEF Upward
<1>. QED  BY <1>1 DEF Widens, ParentOf

\* A CIDR goes.
LEMMA OldCidr ==
  ASSUME TypeOK, NEW c, DeleteCidr(c)
  PROVE  /\ Cidrs' = Cidrs \ {c}
         /\ \A d \in Cidrs \ {c} : cidr'[d] = cidr[d]
<1>1. c \in Cidrs /\ c \in 1 .. MaxCidr /\ cidr' = [cidr EXCEPT ![c] = NoCidr]
  BY DEF DeleteCidr, Cidrs
<1>2. cidr'[c] = NoCidr /\ \A d \in 1 .. MaxCidr : d # c => cidr'[d] = cidr[d]
  BY <1>1 DEF TypeOK
<1>. QED  BY <1>1, <1>2 DEF Cidrs, NoCidr

\* `cidr::delete`: only a leaf without peers and associations goes.
LEMMA OldCidrWidens ==
  ASSUME TypeOK, TreeWellFormed, NEW c, DeleteCidr(c)
  PROVE  Widens
<1>1. Cidrs' = Cidrs \ {c} /\ \A d \in Cidrs \ {c} : cidr'[d] = cidr[d]
  BY OldCidr
<1>2. \A d \in Cidrs : cidr[d].parent # c
  BY DEF DeleteCidr
<1>3. ASSUME NEW u \in Upward' PROVE u \cap Cidrs \in Upward
  <2>1. u \cap Cidrs = u
    BY <1>1 DEF Upward
  <2>. QED  BY <1>1, <2>1 DEF Upward
<1>4. ASSUME NEW d \in Cidrs', NEW e \in ParentOf(d) PROVE e \in Cidrs'
  <2>1. Cidrs \ {c} \in Upward
    BY <1>2 DEF Upward, TreeWellFormed
  <2>. QED  BY <1>1, <2>1 DEF ParentOf
<1>5. assoc' = assoc
  BY DEF DeleteCidr
<1>. QED  BY <1>3, <1>4, <1>5 DEF Widens

-----------------------------------------------------------------------------
(* The inductive invariant *)

DirInv ==
  /\ TypeOK /\ TreeWellFormed /\ ServerRow
  /\ BoxOK(mail, bundle)
  /\ ActivePairsAllowed

\* The four invariants that the run checks are parts of it.
LEMMA DirInvImplies ==
  ASSUME DirInv
  PROVE  TreeWellFormed /\ RecordsCurrent /\ QuotaHolds /\ ActivePairsAllowed
<1>1. RecordsCurrent
  <2>. SUFFICES ASSUME NEW m \in mail
                PROVE  /\ bundle[m.a].id = m.ba /\ bundle[m.b].id = m.bb
                       /\ \A o \in mail : {o.a, o.b} = {m.a, m.b} => o = m
    BY DEF RecordsCurrent
  <2>1. ASSUME NEW o \in mail, {o.a, o.b} = {m.a, m.b} PROVE o = m
    <3>1. /\ m.a \in Int /\ m.b \in Int /\ o.a \in Int /\ o.b \in Int
          /\ m.a < m.b /\ o.a < o.b
      BY DirectoryAssumption DEF DirInv, TypeOK, Exchanges
    <3>2. o.a = m.a /\ o.b = m.b
      BY <2>1, <3>1
    <3>. QED  BY <3>2 DEF DirInv, BoxOK
  <2>. QED  BY <2>1 DEF DirInv, BoxOK
<1>. QED  BY <1>1 DEF DirInv, BoxOK, QuotaHolds

\* One row of the peers.
PeerRow == [cidr : 0 .. MaxCidr, ip : {0} \cup UNION Ranges, disabled : BOOLEAN, redeemed : BOOLEAN]

\* A row of the first network.
FirstRow(p) ==
  \E redeemed \in BOOLEAN : \E c \in {2, 3, 4} : \E ip \in cidr[c].range :
    peer[p] = [cidr |-> c, ip |-> ip, disabled |-> FALSE, redeemed |-> redeemed]

\* The first network, whichever of its peers there are.
FirstState ==
  /\ cidr = FirstCidrs /\ assoc = {{3, 4}} /\ mail = {}
  /\ drawn \in Nat /\ opened \in Nat /\ maxId \in Nat
  /\ bundle \in [1 .. MaxPeer -> [id : Nat, enabled : BOOLEAN]]
  /\ peer = [p \in 1 .. MaxPeer |-> peer[p]] /\ Rows \subseteq 1 .. maxId
  /\ \A p \in Rows : FirstRow(p)
  /\ ServerRow

\* A first network as Init has it, and as Administration begins with.
LEMMA FirstNetwork ==
  ASSUME FirstState
  PROVE  DirInv
<1>0. /\ MaxCidr \in Nat /\ MaxCidr >= 4 /\ {} \notin Ranges
      /\ {1} \in Ranges /\ {2, 3, 4} \in Ranges /\ {5, 6} \in Ranges
  BY DirectoryAssumption
<1>1. /\ cidr[1] = [range |-> UNION Ranges, parent |-> 0] /\ cidr[2] = [range |-> {1}, parent |-> 1]
      /\ cidr[3] = [range |-> {2, 3, 4}, parent |-> 1] /\ cidr[4] = [range |-> {5, 6}, parent |-> 1]
      /\ \A c \in 1 .. MaxCidr : c \notin 1 .. 4 => cidr[c] = NoCidr
  BY <1>0 DEF FirstCidrs, FirstState
<1>2. {1, 2, 3, 4, 5, 6} \subseteq UNION Ranges
  BY <1>0
<1>3. Cidrs = {1, 2, 3, 4}
  <2>1. cidr[1] # NoCidr /\ cidr[2] # NoCidr /\ cidr[3] # NoCidr /\ cidr[4] # NoCidr
    BY <1>1, <1>2 DEF NoCidr
  <2>. QED  BY <1>0, <1>1, <2>1 DEF Cidrs
<1>4. cidr \in [1 .. MaxCidr -> [range : SUBSET UNION Ranges, parent : 0 .. MaxCidr]]
  <2>1. ASSUME NEW c \in 1 .. MaxCidr
        PROVE  cidr[c] \in [range : SUBSET UNION Ranges, parent : 0 .. MaxCidr]
    <3>1. CASE c \in {1, 2, 3, 4}
      BY <1>0, <1>1, <1>2, <3>1
    <3>2. CASE c \notin {1, 2, 3, 4}
      BY <1>0, <1>1, <3>2 DEF NoCidr
    <3>. QED  BY <3>1, <3>2
  <2>. QED  BY <2>1 DEF FirstCidrs, FirstState
<1>5. ASSUME NEW p \in Rows
      PROVE  peer[p] \in PeerRow /\ peer[p].cidr \in Cidrs /\ peer[p].ip \in cidr[peer[p].cidr].range
  <2>1. PICK redeemed \in BOOLEAN, c \in {2, 3, 4} : \E ip \in cidr[c].range :
          peer[p] = [cidr |-> c, ip |-> ip, disabled |-> FALSE, redeemed |-> redeemed]
    BY DEF FirstRow, FirstState
  <2>2. PICK ip \in cidr[c].range :
          peer[p] = [cidr |-> c, ip |-> ip, disabled |-> FALSE, redeemed |-> redeemed]
    BY <2>1
  <2>3. c \in 0 .. MaxCidr /\ ip \in {0} \cup UNION Ranges
    BY <1>0, <1>4
  <2>4. peer[p] \in PeerRow
    <3>1. [cidr |-> c, ip |-> ip, disabled |-> FALSE, redeemed |-> redeemed] \in PeerRow
      BY <2>3 DEF PeerRow
    <3>. QED  BY <2>2, <3>1, Zenon
  <2>. QED  BY <1>3, <2>2, <2>4
<1>6. peer \in [1 .. MaxPeer -> PeerRow]
  <2>1. NoPeer \in PeerRow
    BY <1>0 DEF NoPeer, PeerRow
  <2>. QED  BY <1>5, <2>1 DEF Rows, FirstState
<1>7. IsFiniteSet(mail)
  BY FS_EmptySet DEF FirstState
<1>8. TypeOK
  BY <1>0, <1>4, <1>6, <1>7 DEF TypeOK, PeerRow, FirstState
<1>9. TreeWellFormed
  <2>1. \A a \in assoc : a \subseteq Cidrs
    BY <1>3 DEF FirstState
  <2>2. ASSUME NEW c \in Cidrs, cidr[c].parent # 0
        PROVE  cidr[c].parent \in Cidrs /\ cidr[c].range \subseteq cidr[cidr[c].parent].range
    BY <1>1, <1>2, <1>3, <2>2
  <2>3. ASSUME NEW c \in Cidrs, NEW d \in Cidrs, c # d, cidr[c].parent = cidr[d].parent
        PROVE  cidr[c].range \cap cidr[d].range = {}
    BY <1>1, <1>3, <2>3
  <2>. QED  BY <1>5, <2>1, <2>2, <2>3 DEF TreeWellFormed
<1>10. BoxOK(mail, bundle)
  <2>1. \A p \in 1 .. MaxPeer : Active(Of(p, mail)) = {}
    BY DEF Active, Of, FirstState
  <2>2. mail = {}
    BY DEF FirstState
  <2>3. PeerActive \in Nat
    BY DirectoryAssumption
  <2>4. \A p \in 1 .. MaxPeer : Cardinality(Active(Of(p, mail))) =< PeerActive
    BY <2>1, <2>3, FS_EmptySet
  <2>. QED  BY <1>7, <2>2, <2>4 DEF BoxOK
<1>11. ActivePairsAllowed
  BY DEF ActivePairsAllowed, Active, FirstState
<1>. QED  BY <1>8, <1>9, <1>10, <1>11 DEF DirInv, FirstState

\* The base of the induction.
LEMMA DirInvInit == Init => DirInv
<1>. SUFFICES ASSUME Init PROVE DirInv
  OBVIOUS
<1>0. /\ MaxCidr \in Nat /\ MaxCidr >= 4 /\ MaxPeer \in Nat /\ MaxPeer >= 4
  BY DirectoryAssumption
<1>1. /\ peer[1] = [cidr |-> 2, ip |-> 1, disabled |-> FALSE, redeemed |-> TRUE]
      /\ peer[2] = [cidr |-> 3, ip |-> 2, disabled |-> FALSE, redeemed |-> TRUE]
      /\ peer[3] = [cidr |-> 3, ip |-> 3, disabled |-> FALSE, redeemed |-> TRUE]
      /\ peer[4] = [cidr |-> 4, ip |-> 5, disabled |-> FALSE, redeemed |-> TRUE]
      /\ \A p \in 1 .. MaxPeer : p \notin 1 .. 4 => peer[p] = NoPeer
  BY <1>0 DEF Init
<1>2. Rows = {1, 2, 3, 4}
  <2>1. peer[1] # NoPeer /\ peer[2] # NoPeer /\ peer[3] # NoPeer /\ peer[4] # NoPeer
    BY <1>1 DEF NoPeer
  <2>. QED  BY <1>0, <1>1, <2>1 DEF Rows
<1>3. 1 \in cidr[2].range /\ 2 \in cidr[3].range /\ 3 \in cidr[3].range /\ 5 \in cidr[4].range
  BY <1>0 DEF Init, FirstCidrs
<1>4. ASSUME NEW p \in Rows
      PROVE  FirstRow(p)
  BY <1>1, <1>2, <1>3, Zenon DEF FirstRow
<1>5. ServerRow
  BY <1>1, <1>2 DEF ServerRow, Server
<1>6. bundle \in [1 .. MaxPeer -> [id : Nat, enabled : BOOLEAN]]
  BY <1>0 DEF Init, NoBundle
<1>7. Rows \subseteq 1 .. maxId /\ maxId \in Nat
  BY <1>2 DEF Init
<1>. QED  BY <1>4, <1>5, <1>6, <1>7, FirstNetwork DEF Init, FirstState

\* A step that leaves the tree alone.
LEMMA PairSame ==
  ASSUME UNCHANGED tree, NEW p, NEW q
  PROVE  PairAllowed(p, q)' <=> PairAllowed(p, q)
BY DEF tree, PairAllowed, Allowed, AssociatedSubcidrs, Associated, ParentOf, Upward, Cidrs, Rows

\* A transaction of the mailbox that keeps it in order and leaves the tables of
\* the directory alone.
LEMMA MailStep ==
  ASSUME DirInv, UNCHANGED tree, bundle' \in [1 .. MaxPeer -> [id : Nat, enabled : BOOLEAN]],
         drawn' \in Nat, opened' \in Nat, BoxOK(mail', bundle'),
         \A m \in Active(mail') : PairAllowed(m.a, m.b)
  PROVE  DirInv'
<1>1. Cidrs' = Cidrs /\ Rows' = Rows
  BY DEF tree, Cidrs, Rows
<1>2. TypeOK'
  BY <1>1 DEF DirInv, TypeOK, tree, BoxOK
<1>3. TreeWellFormed' /\ ServerRow'
  BY <1>1 DEF DirInv, TreeWellFormed, ServerRow, tree
<1>4. BoxOK(mail, bundle)'
  BY DEF BoxOK, Active, Of, Exchanges
<1>5. ActivePairsAllowed'
  <2>1. \A m \in Active(mail') : PairAllowed(m.a, m.b)'
    BY PairSame
  <2>. QED  BY <2>1 DEF ActivePairsAllowed, Active
<1>. QED  BY <1>2, <1>3, <1>4, <1>5 DEF DirInv

\* A step that leaves the mailbox alone, or ends some of its records.
LEMMA TreeStep ==
  ASSUME DirInv, TypeOK', TreeWellFormed', ServerRow', UNCHANGED bundle,
         NEW D, mail' = mail \/ mail' = Ended(mail, D),
         \A m \in Active(mail') : PairAllowed(m.a, m.b)'
  PROVE  DirInv'
<1>1. BoxOK(mail', bundle)
  BY EndedOK DEF DirInv
<1>2. BoxOK(mail, bundle)'
  BY <1>1 DEF BoxOK, Active, Of, Exchanges
<1>3. ActivePairsAllowed'
  BY DEF ActivePairsAllowed, Active
<1>. QED  BY <1>2, <1>3 DEF DirInv

-----------------------------------------------------------------------------
(* Changes of the directory *)

\* The pairs under way, when the rows of both peers stay as they are.
LEMMA PairsStay ==
  ASSUME DirInv, Widens, UNCHANGED <<peer, mail>>, \A p \in Rows : peer[p].cidr \in Cidrs'
  PROVE  \A m \in Active(mail') : PairAllowed(m.a, m.b)'
<1>. SUFFICES ASSUME NEW m \in Active(mail) PROVE PairAllowed(m.a, m.b)'
  OBVIOUS
<1>1. PairAllowed(m.a, m.b)
  BY DEF DirInv, ActivePairsAllowed
<1>2. InForce(m.a) /\ InForce(m.b)
  BY <1>1 DEF PairAllowed, Allowed, InForce
<1>3. InForce(m.a)' /\ InForce(m.b)'
  BY <1>2 DEF InForce, Rows
<1>4. peer[m.a].cidr \in Cidrs \cap Cidrs' /\ peer[m.b].cidr \in Cidrs \cap Cidrs'
  BY <1>2 DEF InForce, DirInv, TreeWellFormed
<1>. QED  BY <1>1, <1>3, <1>4, PairKept

\* `DatabaseCidr::create` keeps the invariant.
LEMMA CreateCidrStep ==
  ASSUME DirInv, NEW r \in Ranges, NEW parent, CreateCidr(r, parent)
  PROVE  DirInv'
<1>0. TypeOK /\ TreeWellFormed /\ ServerRow
  BY DEF DirInv
<1>1. PICK id \in 1 .. MaxCidr \ Cidrs :
           /\ cidr' = [cidr EXCEPT ![id] = [range |-> r, parent |-> parent]]
           /\ Cidrs' = Cidrs \cup {id}
           /\ \A c \in Cidrs : cidr'[c] = cidr[c]
           /\ cidr'[id] = [range |-> r, parent |-> parent]
           /\ parent \in {0} \cup Cidrs
  BY <1>0, NewCidr
<1>2. UNCHANGED <<assoc, peer, maxId, bundle, drawn, mail, opened>> /\ Rows' = Rows
  BY DEF CreateCidr, box, Rows
<1>3. TypeOK'
  <2>1. r \subseteq UNION Ranges /\ parent \in 0 .. MaxCidr
    BY <1>1, DirectoryAssumption DEF Cidrs
  <2>2. [range |-> r, parent |-> parent] \in [range : SUBSET UNION Ranges, parent : 0 .. MaxCidr]
    BY <2>1
  <2>3. cidr' \in [1 .. MaxCidr -> [range : SUBSET UNION Ranges, parent : 0 .. MaxCidr]]
    BY <1>0, <1>1, <2>2 DEF TypeOK
  <2>. QED  BY <1>0, <1>2, <2>3 DEF TypeOK
<1>4. TreeWellFormed'
  <2>1. \A a \in assoc' : a \subseteq Cidrs'
    BY <1>0, <1>1, <1>2 DEF TreeWellFormed
  <2>2. ASSUME NEW c \in Cidrs', cidr'[c].parent # 0
        PROVE  cidr'[c].parent \in Cidrs' /\ cidr'[c].range \subseteq cidr'[cidr'[c].parent].range
    <3>1. CASE c = id
      <4>1. parent # 0 /\ parent \in Cidrs /\ parent \in Closest(r)
        BY <1>1, <2>2, <3>1 DEF CreateCidr
      <4>2. r \subseteq cidr[parent].range
        BY <4>1 DEF Closest
      <4>. QED  BY <1>1, <3>1, <4>1, <4>2
    <3>2. CASE c \in Cidrs
      BY <1>0, <1>1, <2>2, <3>2 DEF TreeWellFormed
    <3>. QED  BY <1>1, <3>1, <3>2
  <2>3. ASSUME NEW c \in Cidrs', NEW d \in Cidrs', c # d, cidr'[c].parent = cidr'[d].parent
        PROVE  cidr'[c].range \cap cidr'[d].range = {}
    <3>1. ASSUME NEW s \in Cidrs, cidr[s].parent = parent PROVE r \cap cidr[s].range = {}
      BY <3>1 DEF CreateCidr, Overlaps
    <3>2. CASE c \in Cidrs /\ d \in Cidrs
      BY <1>0, <1>1, <2>3, <3>2 DEF TreeWellFormed
    <3>3. CASE c = id /\ d \in Cidrs
      BY <1>1, <2>3, <3>1, <3>3
    <3>4. CASE c \in Cidrs /\ d = id
      BY <1>1, <2>3, <3>1, <3>4
    <3>. QED  BY <1>1, <2>3, <3>2, <3>3, <3>4
  <2>4. ASSUME NEW p \in Rows' PROVE peer'[p].cidr \in Cidrs' /\ peer'[p].ip \in cidr'[peer'[p].cidr].range
    BY <1>0, <1>1, <1>2 DEF TreeWellFormed
  <2>. QED  BY <2>1, <2>2, <2>3, <2>4 DEF TreeWellFormed
<1>5. ServerRow'
  BY <1>0, <1>2 DEF ServerRow
<1>6. Widens
  BY <1>0, <1>1, <1>2, NewCidrWidens
<1>7. \A m \in Active(mail') : PairAllowed(m.a, m.b)'
  BY <1>0, <1>1, <1>2, <1>6, PairsStay DEF TreeWellFormed
<1>. QED  BY <1>2, <1>3, <1>4, <1>5, <1>7, TreeStep

\* `DatabaseCidr::delete` keeps the invariant.
LEMMA DeleteCidrStep ==
  ASSUME DirInv, NEW c, DeleteCidr(c)
  PROVE  DirInv'
<1>0. TypeOK /\ TreeWellFormed /\ ServerRow
  BY DEF DirInv
<1>1. /\ Cidrs' = Cidrs \ {c} /\ \A d \in Cidrs \ {c} : cidr'[d] = cidr[d]
      /\ cidr' = [cidr EXCEPT ![c] = NoCidr]
  BY <1>0, OldCidr DEF DeleteCidr
<1>2. UNCHANGED <<assoc, peer, maxId, bundle, drawn, mail, opened>> /\ Rows' = Rows
  BY DEF DeleteCidr, box, Rows
<1>3. /\ \A d \in Cidrs : cidr[d].parent # c
      /\ \A p \in Rows : peer[p].cidr # c
      /\ \A a \in assoc : c \notin a
  BY DEF DeleteCidr
<1>4. TypeOK'
  <2>1. NoCidr \in [range : SUBSET UNION Ranges, parent : 0 .. MaxCidr]
    BY DirectoryAssumption DEF NoCidr
  <2>2. cidr' \in [1 .. MaxCidr -> [range : SUBSET UNION Ranges, parent : 0 .. MaxCidr]]
    BY <1>0, <1>1, <2>1 DEF TypeOK
  <2>. QED  BY <1>0, <1>2, <2>2 DEF TypeOK
<1>5. TreeWellFormed'
  BY <1>0, <1>1, <1>2, <1>3 DEF TreeWellFormed
<1>6. ServerRow'
  BY <1>0, <1>2 DEF ServerRow
<1>7. \A m \in Active(mail') : PairAllowed(m.a, m.b)'
  BY <1>0, <1>1, <1>2, <1>3, OldCidrWidens, PairsStay DEF TreeWellFormed
<1>. QED  BY <1>2, <1>4, <1>5, <1>6, <1>7, TreeStep

\* An association is added, or removed together with the exchanges it allowed.
LEMMA AssociationStep ==
  ASSUME DirInv, \/ \E c, d \in Cidrs : CreateAssociation(c, d)
                 \/ \E a \in assoc : DeleteAssociation(a)
  PROVE  DirInv'
<1>0. TypeOK /\ TreeWellFormed /\ ServerRow
  BY DEF DirInv
<1>1. UNCHANGED <<cidr, peer, maxId, bundle, drawn, opened>> /\ Cidrs' = Cidrs /\ Rows' = Rows
  BY DEF CreateAssociation, DeleteAssociation, box, Cidrs, Rows
<1>2. \A a \in assoc' : a \subseteq Cidrs
  <2>1. \A a \in assoc : a \subseteq Cidrs
    BY <1>0 DEF TreeWellFormed
  <2>2. ASSUME NEW c \in Cidrs, NEW d \in Cidrs, CreateAssociation(c, d) PROVE assoc' = assoc \cup {{c, d}}
    BY <2>2 DEF CreateAssociation
  <2>3. ASSUME NEW a \in assoc, DeleteAssociation(a) PROVE assoc' \subseteq assoc
    BY <2>3 DEF DeleteAssociation
  <2>. QED  BY <2>1, <2>2, <2>3
<1>3. TreeWellFormed' /\ ServerRow'
  BY <1>0, <1>1, <1>2 DEF TreeWellFormed, ServerRow
<1>4. ASSUME mail' \subseteq Exchanges, IsFiniteSet(mail'), \A m \in mail' : m.a < m.b PROVE TypeOK'
  BY <1>0, <1>1, <1>2, <1>4 DEF TypeOK, Cidrs
<1>5. ASSUME NEW c \in Cidrs, NEW d \in Cidrs, CreateAssociation(c, d) PROVE DirInv'
  <2>1. mail' = mail /\ assoc \subseteq assoc'
    BY <1>5 DEF CreateAssociation, box
  <2>2. TypeOK'
    BY <1>0, <1>4, <2>1 DEF TypeOK
  <2>3. \A m \in Active(mail') : PairAllowed(m.a, m.b)'
    BY <1>0, <1>1, <2>1, SameTreeWidens, PairsStay DEF TreeWellFormed
  <2>. QED  BY <1>1, <1>3, <2>1, <2>2, <2>3, TreeStep
<1>6. ASSUME NEW a \in assoc, DeleteAssociation(a) PROVE DirInv'
  <2>. DEFINE D == {m \in Active(mail) : ~ PairAllowed(m.a, m.b)'}
  <2>1. mail' = Ended(mail, D)
    BY <1>6 DEF DeleteAssociation, SweptWithout
  <2>2. BoxOK(Ended(mail, D), bundle) /\ Active(Ended(mail, D)) \subseteq Active(mail) \ D
    BY EndedOK DEF DirInv
  <2>3. TypeOK'
    BY <1>4, <2>1, <2>2 DEF BoxOK
  <2>4. \A m \in Active(mail') : PairAllowed(m.a, m.b)'
    BY <2>1, <2>2
  <2>. HIDE DEF D
  <2>. QED  BY <1>1, <1>3, <2>1, <2>3, <2>4, TreeStep
<1>. QED  BY <1>5, <1>6

\* The row of p comes, changes or goes; q is any other.
LEMMA PeerStep ==
  ASSUME DirInv, NEW p \in 1 .. MaxPeer, NEW row \in PeerRow, peer' = [peer EXCEPT ![p] = row],
         UNCHANGED <<cidr, assoc, bundle, drawn, opened>>,
         maxId' \in Nat, maxId =< maxId', row # NoPeer => p =< maxId',
         row # NoPeer => row.cidr \in Cidrs /\ row.ip \in cidr[row.cidr].range,
         p = Server => row # NoPeer /\ row.redeemed,
         NEW D, mail' = mail \/ mail' = Ended(mail, D),
         \A m \in Active(mail') : p \in {m.a, m.b} =>
           row # NoPeer /\ ~row.disabled /\ row.redeemed /\ row.cidr = peer[p].cidr
  PROVE  DirInv'
<1>0. TypeOK /\ TreeWellFormed /\ ServerRow
  BY DEF DirInv
<1>1. peer'[p] = row /\ \A q \in 1 .. MaxPeer : q # p => peer'[q] = peer[q]
  BY <1>0 DEF TypeOK
<1>2. Cidrs' = Cidrs /\ Widens
  BY SameTreeWidens
<1>3. Rows' = IF row = NoPeer THEN Rows \ {p} ELSE Rows \cup {p}
  BY <1>1 DEF Rows, NoPeer
<1>4. BoxOK(mail', bundle) /\ Active(mail') \subseteq Active(mail)
  BY EndedOK DEF DirInv
<1>5. TypeOK'
  <2>1. peer' \in [1 .. MaxPeer -> PeerRow]
    BY <1>0 DEF TypeOK, PeerRow
  <2>2. Rows' \subseteq 1 .. maxId'
    <3>1. Rows \subseteq 1 .. maxId /\ maxId \in Nat
      BY <1>0 DEF TypeOK
    <3>2. Rows \subseteq 1 .. maxId'
      BY <3>1
    <3>3. CASE row = NoPeer
      BY <1>3, <3>2, <3>3
    <3>4. CASE row # NoPeer
      <4>1. p \in 1 .. maxId'
        BY <3>4, DirectoryAssumption
      <4>. QED  BY <1>3, <3>2, <3>4, <4>1
    <3>. QED  BY <3>3, <3>4
  <2>. QED  BY <1>0, <1>4, <2>1, <2>2 DEF TypeOK, BoxOK, PeerRow
<1>6. TreeWellFormed'
  <2>1. ASSUME NEW q \in Rows' PROVE peer'[q].cidr \in Cidrs /\ peer'[q].ip \in cidr[peer'[q].cidr].range
    <3>1. CASE q = p
      BY <1>1, <1>3, <3>1
    <3>2. CASE q # p
      <4>1. q \in Rows /\ peer'[q] = peer[q]
        BY <1>1, <1>3, <3>2 DEF Rows
      <4>. QED  BY <1>0, <4>1 DEF TreeWellFormed
    <3>. QED  BY <3>1, <3>2
  <2>. QED  BY <1>0, <1>2, <2>1 DEF TreeWellFormed
<1>7. ServerRow'
  BY <1>0, <1>1, <1>3 DEF ServerRow, Rows, Server
<1>8. ASSUME NEW m \in Active(mail') PROVE PairAllowed(m.a, m.b)'
  <2>1. PairAllowed(m.a, m.b) /\ m.a \in 1 .. MaxPeer /\ m.b \in 1 .. MaxPeer
    BY <1>0, <1>4 DEF DirInv, ActivePairsAllowed, Active, TypeOK, Exchanges
  <2>2. InForce(m.a) /\ InForce(m.b)
    BY <2>1 DEF PairAllowed, Allowed, InForce
  <2>3. ASSUME NEW q \in {m.a, m.b} PROVE InForce(q)' /\ peer'[q].cidr = peer[q].cidr
    <3>1. CASE q = p
      BY <1>1, <1>3, <1>8, <2>3, <3>1 DEF InForce
    <3>2. CASE q # p
      BY <1>1, <1>3, <2>1, <2>2, <2>3, <3>2 DEF InForce
    <3>. QED  BY <3>1, <3>2
  <2>4. peer[m.a].cidr \in Cidrs \cap Cidrs' /\ peer[m.b].cidr \in Cidrs \cap Cidrs'
    BY <1>0, <1>2, <2>2 DEF InForce, TreeWellFormed
  <2>. QED  BY <1>2, <2>1, <2>3, <2>4, PairKept
<1>. QED  BY <1>5, <1>6, <1>7, <1>8, TreeStep

\* `DatabasePeer::create` takes an id that no row has.
LEMMA CreatePeerStep ==
  ASSUME DirInv, NEW c, NEW ip, CreatePeer(c, ip)
  PROVE  DirInv' /\ NewId \in 1 .. MaxPeer /\ NewId \notin Rows
<1>. DEFINE row == [cidr |-> c, ip |-> ip, disabled |-> FALSE, redeemed |-> FALSE]
<1>0. TypeOK /\ TreeWellFormed /\ ServerRow /\ maxId \in Nat
  BY DEF DirInv, TypeOK
<1>1. /\ c \in Cidrs /\ ip \in cidr[c].range /\ NewId =< MaxPeer /\ maxId' = NewId
      /\ peer' = [peer EXCEPT ![NewId] = row]
      /\ UNCHANGED <<cidr, assoc, bundle, drawn, opened, mail>>
  BY DEF CreatePeer, box
<1>2. NewId \in 1 .. MaxPeer /\ NewId \notin Rows /\ maxId =< NewId /\ NewId \in Nat
  BY <1>0, <1>1, DirectoryAssumption DEF NewId, TypeOK
<1>3. c \in 0 .. MaxCidr /\ ip \in UNION Ranges /\ c # 0
  <2>1. c \in 1 .. MaxCidr
    BY <1>1 DEF Cidrs
  <2>2. cidr[c].range \subseteq UNION Ranges
    BY <1>0, <2>1 DEF TypeOK
  <2>. QED  BY <1>1, <2>1, <2>2, DirectoryAssumption
<1>4. row \in PeerRow /\ row # NoPeer
  BY <1>3 DEF PeerRow, NoPeer
<1>5. NewId # Server
  BY <1>0, <1>2 DEF ServerRow
<1>6. row.cidr \in Cidrs /\ row.ip \in cidr[row.cidr].range
  BY <1>1
<1>7. ASSUME NEW m \in Active(mail') PROVE NewId \notin {m.a, m.b}
  <2>1. PairAllowed(m.a, m.b)
    BY <1>1, <1>7 DEF DirInv, ActivePairsAllowed
  <2>. QED  BY <1>2, <2>1 DEF PairAllowed
<1>. HIDE DEF row
<1>8. maxId' \in Nat /\ maxId =< maxId' /\ NewId =< maxId'
  BY <1>1, <1>2
<1>9. DirInv'
  BY <1>1, <1>2, <1>4, <1>5, <1>6, <1>7, <1>8, PeerStep
<1>. QED  BY <1>2, <1>9

\* `DatabasePeer::update`: a peer that is disabled loses its exchanges.
LEMMA UpdatePeerStep ==
  ASSUME DirInv, NEW p, NEW disabled \in BOOLEAN, UpdatePeer(p, disabled)
  PROVE  DirInv'
<1>. DEFINE row == [peer[p] EXCEPT !.disabled = disabled]
            D == Active(Of(p, mail))
<1>0. TypeOK /\ TreeWellFormed /\ ServerRow /\ maxId \in Nat
  BY DEF DirInv, TypeOK
<1>1. /\ p \in Rows /\ p \in 1 .. MaxPeer /\ peer' = [peer EXCEPT ![p] = row]
      /\ mail' = (IF disabled THEN Ended(mail, D) ELSE mail)
      /\ UNCHANGED <<cidr, assoc, maxId, bundle, drawn, opened>>
  BY DEF UpdatePeer, DisabledMail, TerminatePeer, Rows
<1>2. peer[p] \in PeerRow /\ p =< maxId /\ peer[p].cidr \in Cidrs /\ peer[p].cidr # 0
      /\ peer[p].ip \in cidr[peer[p].cidr].range
  BY <1>0, <1>1 DEF TypeOK, PeerRow, TreeWellFormed, Cidrs
<1>3. /\ row \in PeerRow /\ row.cidr = peer[p].cidr /\ row.ip = peer[p].ip
      /\ row.redeemed = peer[p].redeemed /\ row.disabled = disabled
  BY <1>2 DEF PeerRow
<1>4. row # NoPeer
  BY <1>2, <1>3 DEF NoPeer
<1>5. p = Server => row.redeemed
  <2>1. p = Server => peer[p].redeemed
    BY <1>0 DEF ServerRow
  <2>. HIDE DEF row
  <2>. QED  BY <1>3, <2>1
<1>6. ASSUME NEW m \in Active(mail'), p \in {m.a, m.b} PROVE ~row.disabled /\ row.redeemed
  <2>1. CASE disabled
    <3>1. Active(Ended(mail, D)) \subseteq Active(mail) \ D
      BY EndedOK DEF DirInv
    <3>. QED  BY <1>1, <1>6, <2>1, <3>1 DEF Active, Of
  <2>2. CASE ~disabled
    <3>1. PairAllowed(m.a, m.b)
      BY <1>1, <1>6, <2>2 DEF DirInv, ActivePairsAllowed
    <3>2. peer[p].redeemed
      BY <1>6, <3>1 DEF PairAllowed, Allowed
    <3>. QED  BY <1>3, <2>2, <3>2
  <2>. QED  BY <2>1, <2>2
<1>. HIDE DEF row, D
<1>7. row.cidr \in Cidrs /\ row.ip \in cidr[row.cidr].range /\ maxId =< maxId
  BY <1>0, <1>2, <1>3
<1>. QED  BY <1>0, <1>1, <1>2, <1>3, <1>4, <1>5, <1>6, <1>7, PeerStep

\* Redemption, and the expiry of an invitation, keep the invariant.
LEMMA InviteStep ==
  ASSUME DirInv, NEW p, RedeemPeer(p) \/ DeleteExpiredInvite(p)
  PROVE  DirInv'
<1>0. TypeOK /\ TreeWellFormed /\ ServerRow /\ maxId \in Nat /\ maxId =< maxId
  BY DEF DirInv, TypeOK
<1>1. /\ p \in Rows /\ p \in 1 .. MaxPeer /\ ~ peer[p].redeemed
      /\ UNCHANGED <<cidr, assoc, maxId, bundle, drawn, opened, mail>>
  BY DEF RedeemPeer, DeleteExpiredInvite, Rows, box
<1>2. peer[p] \in PeerRow /\ p =< maxId /\ peer[p].cidr \in Cidrs /\ peer[p].cidr # 0
      /\ peer[p].ip \in cidr[peer[p].cidr].range
  BY <1>0, <1>1 DEF TypeOK, PeerRow, TreeWellFormed, Cidrs
<1>3. p # Server
  BY <1>0, <1>1 DEF ServerRow
<1>4. ASSUME NEW m \in Active(mail') PROVE p \notin {m.a, m.b}
  <2>1. PairAllowed(m.a, m.b)
    BY <1>1, <1>4 DEF DirInv, ActivePairsAllowed
  <2>. QED  BY <1>1, <2>1 DEF PairAllowed, Allowed
<1>5. CASE RedeemPeer(p)
  <2>. DEFINE row == [peer[p] EXCEPT !.redeemed = TRUE]
  <2>1. peer' = [peer EXCEPT ![p] = row]
    BY <1>5 DEF RedeemPeer
  <2>2. row \in PeerRow /\ row.cidr = peer[p].cidr /\ row.ip = peer[p].ip
    BY <1>2 DEF PeerRow
  <2>. HIDE DEF row
  <2>. QED  BY <1>0, <1>1, <1>2, <1>3, <1>4, <2>1, <2>2, PeerStep
<1>6. CASE DeleteExpiredInvite(p)
  <2>1. peer' = [peer EXCEPT ![p] = NoPeer]
    BY <1>6 DEF DeleteExpiredInvite
  <2>2. NoPeer \in PeerRow
    BY DirectoryAssumption DEF NoPeer, PeerRow
  <2>. QED  BY <1>0, <1>1, <1>2, <1>3, <1>4, <2>1, <2>2, PeerStep
<1>. QED  BY <1>5, <1>6

-----------------------------------------------------------------------------
(* The mailbox *)

\* What is left in order by the sweep that begins every write.
LEMMA SweepOK ==
  ASSUME DirInv, NEW due
  PROVE  /\ BoxOK(SweepInner(due), bundle)
         /\ Active(SweepInner(due)) \subseteq Active(mail)
         /\ \A m \in Active(SweepInner(due)) : PairAllowed(m.a, m.b)
<1>1. /\ BoxOK(SweepInner(due), bundle)
      /\ Active(SweepInner(due)) \subseteq Active(mail)
  BY EndedOK DEF DirInv, SweepInner
<1>. QED  BY <1>1 DEF DirInv, ActivePairsAllowed

\* The sweep alone, as every read begins with it.
LEMMA SweepStep ==
  ASSUME DirInv, NEW due, mail' = SweepInner(due), UNCHANGED <<tree, bundle, drawn, opened>>
  PROVE  DirInv'
<1>1. /\ BoxOK(mail', bundle') /\ \A m \in Active(mail') : PairAllowed(m.a, m.b)
  BY SweepOK
<1>. QED  BY <1>1, MailStep DEF DirInv, TypeOK

\* The records of p are gone when its bundle changes.
LEMMA BundleOK ==
  ASSUME NEW B, BoxOK(B, bundle), NEW p, \A m \in B : p \notin {m.a, m.b},
         NEW b, TypeOK
  PROVE  BoxOK(B, [bundle EXCEPT ![p] = b])
<1>1. \A m \in B : m.a \in 1 .. MaxPeer /\ m.b \in 1 .. MaxPeer
  BY DEF BoxOK, Exchanges
<1>2. \A q \in 1 .. MaxPeer : q # p => [bundle EXCEPT ![p] = b][q] = bundle[q]
  BY DEF TypeOK
<1>. QED  BY <1>1, <1>2 DEF BoxOK

\* A new bundle ends the exchanges of the one before.
LEMMA RegisterStep ==
  ASSUME DirInv, NEW p \in 1 .. MaxPeer, NEW due, Register(p, due)
  PROVE  DirInv'
<1>. DEFINE now == SweepInner(due)
            b == [id |-> drawn + 1, enabled |-> TRUE]
<1>0. TypeOK /\ drawn \in Nat /\ opened \in Nat
  BY DEF DirInv, TypeOK
<1>1. /\ Active(Of(p, now)) = {} /\ mail' = Kept(p, now) /\ drawn' = drawn + 1
      /\ bundle' = [bundle EXCEPT ![p] = b] /\ UNCHANGED <<tree, opened>>
  BY DEF Register
<1>2. /\ BoxOK(now, bundle) /\ \A m \in Active(now) : PairAllowed(m.a, m.b)
  BY SweepOK
<1>. HIDE DEF now
<1>3. mail' \subseteq now /\ \A m \in mail' : p \notin {m.a, m.b}
  BY <1>1 DEF Kept, Of, Active
<1>4. BoxOK(mail', bundle')
  BY <1>0, <1>1, <1>2, <1>3, FewerOK, BundleOK
<1>5. \A m \in Active(mail') : PairAllowed(m.a, m.b)
  BY <1>2, <1>3 DEF Active
<1>6. /\ bundle' \in [1 .. MaxPeer -> [id : Nat, enabled : BOOLEAN]]
      /\ drawn' \in Nat /\ opened' \in Nat
  <2>1. drawn + 1 \in Nat
    BY <1>0
  <2>2. b \in [id : Nat, enabled : BOOLEAN]
    BY <2>1
  <2>. HIDE DEF b
  <2>. QED  BY <1>0, <1>1, <2>1, <2>2 DEF TypeOK
<1>. QED  BY <1>1, <1>4, <1>5, <1>6, MailStep

\* A retirement leaves the peer without an active exchange.
LEMMA RetireStep ==
  ASSUME DirInv, NEW p \in 1 .. MaxPeer, NEW due, NEW emergency \in BOOLEAN, Retire(p, due, emergency)
  PROVE  DirInv'
<1>. DEFINE now == SweepInner(due)
            b == [bundle[p] EXCEPT !.enabled = FALSE]
            ended == Ended(now, Active(Of(p, now)))
<1>0. TypeOK /\ drawn \in Nat /\ opened \in Nat /\ bundle[p] \in [id : Nat, enabled : BOOLEAN]
  BY DEF DirInv, TypeOK
<1>1. /\ mail' = Kept(p, ended)
      /\ bundle' = [bundle EXCEPT ![p] = b] /\ UNCHANGED <<tree, drawn, opened>>
  BY DEF Retire, TerminatePeer
<1>2. /\ BoxOK(now, bundle) /\ \A m \in Active(now) : PairAllowed(m.a, m.b)
  BY SweepOK
<1>. HIDE DEF now
<1>3. BoxOK(ended, bundle) /\ Active(ended) \subseteq Active(now) \ Active(Of(p, now))
  BY <1>2, EndedOK
<1>. HIDE DEF ended
<1>4. mail' \subseteq ended /\ \A m \in mail' : p \notin {m.a, m.b}
  BY <1>1, <1>3 DEF Kept, Of, Active
<1>5. BoxOK(mail', bundle')
  BY <1>0, <1>1, <1>3, <1>4, FewerOK, BundleOK
<1>6. \A m \in Active(mail') : PairAllowed(m.a, m.b)
  BY <1>2, <1>3, <1>4 DEF Active
<1>7. bundle' \in [1 .. MaxPeer -> [id : Nat, enabled : BOOLEAN]]
  <2>1. b \in [id : Nat, enabled : BOOLEAN]
    BY <1>0
  <2>. HIDE DEF b
  <2>. QED  BY <1>0, <1>1, <2>1 DEF TypeOK
<1>. QED  BY <1>0, <1>1, <1>5, <1>6, <1>7, MailStep

\* A proposal passes the checks of both quotas and of the permission.
LEMMA ProposeStep ==
  ASSUME DirInv, NEW p \in 1 .. MaxPeer, NEW q \in 1 .. MaxPeer, NEW due, Propose(p, q, due)
  PROVE  DirInv'
<1>. DEFINE now  == SweepInner(due)
            pair == Of(p, now) \cap Of(q, now)
            same == {m \in pair : m.ba = bundle[p].id /\ m.bb = bundle[q].id}
            n == [x |-> opened + 1, a |-> p, b |-> q, ba |-> bundle[p].id,
                  bb |-> bundle[q].id, status |-> "preparing"]
<1>0. TypeOK /\ opened \in Nat /\ opened + 1 \in Nat /\ bundle[p].id \in Nat /\ bundle[q].id \in Nat
  BY DEF DirInv, TypeOK
<1>1. /\ Active(pair) = {} /\ Admitted(p, q, now) /\ PairAllowed(p, q) /\ p < q
      /\ mail' = (now \ same) \cup {n} /\ opened' = opened + 1
      /\ UNCHANGED <<tree, bundle, drawn>>
  BY DEF Propose
<1>2. /\ BoxOK(now, bundle) /\ \A m \in Active(now) : PairAllowed(m.a, m.b)
  BY SweepOK
<1>. HIDE DEF now
<1>3. n \in Exchanges /\ n.a = p /\ n.b = q /\ n.ba = bundle[p].id /\ n.bb = bundle[q].id
  BY <1>0 DEF Exchanges
<1>4. ASSUME NEW m \in now \ same PROVE ~(m.a = p /\ m.b = q)
  <2>1. bundle[m.a].id = m.ba /\ bundle[m.b].id = m.bb
    BY <1>2 DEF BoxOK
  <2>. QED  BY <2>1 DEF Of
<1>5. BoxOK(now \ same, bundle)
  BY <1>2, FewerOK
<1>6. ASSUME NEW r \in {p, q} PROVE Cardinality(Active(Of(r, now \ same))) < PeerActive
  <2>1. Active(Of(r, now)) = Active(Of(r, now \ same))
    BY <1>1 DEF Active, Of
  <2>. QED  BY <1>1, <2>1 DEF Admitted
<1>. HIDE DEF n, same
<1>7. BoxOK(mail', bundle')
  BY <1>1, <1>3, <1>4, <1>5, <1>6, OneMoreOK
<1>8. \A m \in Active(mail') : PairAllowed(m.a, m.b)
  BY <1>1, <1>2, <1>3 DEF Active
<1>. QED  BY <1>0, <1>1, <1>7, <1>8, MailStep DEF TypeOK

\* An exchange goes on or ends, after the sweep of the same transaction.
LEMMA AdvanceStep ==
  ASSUME DirInv, NEW m \in Active(mail), NEW due, NEW next \in {"decided", "done"}, Advance(m, due, next)
  PROVE  DirInv'
<1>. DEFINE now == SweepInner(due)
            n == [m EXCEPT !.status = next]
<1>0. TypeOK /\ m \in Exchanges
  BY DEF DirInv, TypeOK, Active
<1>1. /\ m \in Active(now) /\ mail' = (now \ {m}) \cup {n} /\ PairAllowed(m.a, m.b)
      /\ UNCHANGED <<tree, bundle, drawn, opened>>
  BY DEF Advance
<1>2. /\ BoxOK(now, bundle) /\ \A o \in Active(now) : PairAllowed(o.a, o.b)
  BY SweepOK
<1>3. n \in Exchanges /\ n.a = m.a /\ n.b = m.b /\ n.ba = m.ba /\ n.bb = m.bb
  BY <1>0 DEF Exchanges
<1>. HIDE DEF now, n
<1>4. BoxOK(mail', bundle')
  BY <1>1, <1>2, <1>3, GoesOnOK
<1>5. \A o \in Active(mail') : PairAllowed(o.a, o.b)
  BY <1>1, <1>2, <1>3 DEF Active
<1>. QED  BY <1>0, <1>1, <1>4, <1>5, MailStep DEF TypeOK

\* Every step keeps the invariant.
LEMMA ChangeStep == DirInv /\ Change => DirInv'
<1>. SUFFICES ASSUME DirInv, Change PROVE DirInv'
  OBVIOUS
<1>1. ASSUME NEW c, NEW d, CreateAssociation(c, d) PROVE DirInv'
  BY <1>1, AssociationStep DEF CreateAssociation
<1>2. CASE Touch
  BY <1>2, MailStep DEF Touch, box, DirInv, TypeOK, ActivePairsAllowed
<1>. QED
  BY <1>1, <1>2, CreateCidrStep, DeleteCidrStep, AssociationStep, CreatePeerStep, UpdatePeerStep, InviteStep
     DEF Change

\* The step of the induction.
LEMMA DirInvStep == DirInv /\ [Next]_vars => DirInv'
<1>. SUFFICES ASSUME DirInv, [Next]_vars PROVE DirInv'
  OBVIOUS
<1>1. CASE Mailbox
  <2>1. PICK due \in Due :
          \/ \E p \in 1 .. MaxPeer : Register(p, due)
          \/ \E p \in 1 .. MaxPeer, emergency \in BOOLEAN : Retire(p, due, emergency)
          \/ \E p, q \in 1 .. MaxPeer : Propose(p, q, due)
          \/ \E m \in Active(mail), next \in {"decided", "done"} : Advance(m, due, next)
          \/ Sweep(due)
    BY <1>1 DEF Mailbox
  <2>2. CASE Sweep(due)
    BY <2>2, SweepStep DEF Sweep
  <2>. QED  BY <2>1, <2>2, RegisterStep, RetireStep, ProposeStep, AdvanceStep
<1>2. ASSUME UNCHANGED <<tree, bundle, drawn, opened, mail>> PROVE DirInv'
  BY <1>2, MailStep DEF DirInv, TypeOK, ActivePairsAllowed
<1>3. CASE Walking
  <2>1. ASSUME NEW due \in Due, NEW n \in ShortPage .. PageLimit, WalkPage(due, n) PROVE DirInv'
    BY <2>1, SweepStep DEF WalkPage
  <2>2. CASE StartWalk \/ WalkConflict \/ WalkRefused \/ EndWalk
    BY <1>2, <2>2 DEF StartWalk, WalkConflict, WalkRefused, EndWalk, box
  <2>. QED  BY <1>3, <2>1, <2>2 DEF Walking, WalkPages
<1>4. CASE UNCHANGED vars
  BY <1>2, <1>4 DEF vars, box
<1>. QED  BY <1>1, <1>3, <1>4, ChangeStep DEF Next

\* What the server holds, after any sequence of requests, sweeps and expiries.
THEOREM DirectoryInductive == Spec => []DirInv
BY DirInvInit, DirInvStep, PTL DEF Spec

\* The CIDRs stay a tree of nested ranges with disjoint siblings, a peer's
\* address stays in its CIDR and an association never outlives its CIDRs
\* (`DatabaseCidr::create` and `delete`, `DatabasePeer::create`).
THEOREM TreeStaysWellFormed == Spec => []TreeWellFormed
BY DirectoryInductive, DirInvImplies, PTL

\* Each record of the mailbox is the only one of its pair and names the
\* bundles that both peers have now (`register_inner`, `retire`,
\* `submit_inner`).
THEOREM RecordsStayCurrent == Spec => []RecordsCurrent
BY DirectoryInductive, DirInvImplies, PTL

\* No peer takes part in more exchanges than `Limits.peer_active`, whichever
\* side proposed them.
THEOREM QuotaAlwaysHolds == Spec => []QuotaHolds
BY DirectoryInductive, DirInvImplies, PTL

\* Whatever takes away the permission of a pair to talk ends its exchange: a
\* disabled peer (`terminate_peer`), a removed association
\* (`DatabaseAssociation::delete`); and nothing else takes it away.
THEOREM OnlyAllowedPairsActive == Spec => []ActivePairsAllowed
BY DirectoryInductive, DirInvImplies, PTL

-----------------------------------------------------------------------------
(* The walk *)

\* What a walk w has gathered so far, when those the walker may see are A and
\* the bundles are bun: the peers up to the cursor, and records of the bundles,
\* of different pairs, up to the cursor.
Gathered(w, A, bun) ==
  /\ w.peers = {[id |-> q, bundle |-> bun[q]] : q \in {r \in A : r =< w.at}}
  /\ \A m \in w.mail :
       /\ bun[m.a].id = m.ba /\ bun[m.b].id = m.bb
       /\ \E q \in 1 .. MaxPeer : {m.a, m.b} = {Walker, q} /\ q # Walker /\ 200 + q =< w.at
  /\ \A m, o \in w.mail : {m.a, m.b} = {o.a, o.b} => m = o

\* As long as its cursor holds, a walk has gathered part of one state.
WalkInv ==
  /\ revision \in Nat
  /\ walk.at \in Nat /\ walk.rev \in Nat /\ walk.rev =< revision
  /\ walk.at = 0 => walk.peers = {} /\ walk.mail = {}
  /\ walk.phase = "walking" /\ CursorHolds(walk) => Gathered(walk, Allowed(Walker), bundle)

\* `get_all_allowed_peers` returns rows of the table.
LEMMA AllowedAre == Allowed(Walker) \subseteq 1 .. MaxPeer
BY DEF Allowed, Rows

\* A walk before its first page has gathered nothing, which is right.
LEMMA NothingGathered ==
  ASSUME NEW w, w.at = 0, w.peers = {}, w.mail = {}, NEW A, A \subseteq 1 .. MaxPeer, NEW bun
  PROVE  Gathered(w, A, bun)
<1>1. \A r \in A : ~(r =< 0)
  BY DirectoryAssumption
<1>2. {r \in A : r =< w.at} = {}
  BY <1>1
<1>. QED  BY <1>2 DEF Gathered

\* The objects of the pages are numbers in the order of the stages.
LEMMA ObjectsAre ==
  ASSUME DirInv, Walker \in Rows, NEW B, B \subseteq Exchanges
  PROVE  /\ Objects(Walker, B) \subseteq 1 .. 299
         /\ Objects(Walker, B) \cap (1 .. 99) = Allowed(Walker)
<1>. DEFINE others == UNION {{m.a, m.b} \ {Walker} : m \in Of(Walker, B)}
<1>1. MaxPeer \in 4 .. 99 /\ MaxCidr \in 4 .. 99
  BY DirectoryAssumption
<1>2. Allowed(Walker) \subseteq 1 .. 99 /\ Allowed(Walker) \subseteq Objects(Walker, B)
  BY <1>1, AllowedAre DEF Objects
<1>3. \A c \in Cidrs : c \in 1 .. 99
  BY <1>1 DEF Cidrs
<1>4. ASSUME NEW q \in others PROVE q \in 1 .. 99
  <2>1. PICK m \in Of(Walker, B) : q \in {m.a, m.b}
    OBVIOUS
  <2>2. m \in Exchanges
    BY DEF Of
  <2>. QED  BY <1>1, <2>1, <2>2 DEF Exchanges
<1>5. ASSUME NEW x \in Objects(Walker, B) PROVE x \in 1 .. 299 /\ (x \in 1 .. 99 => x \in Allowed(Walker))
  <2>1. \/ x \in Allowed(Walker)
        \/ \E c \in Cidrs : x = 100 + c
        \/ \E q \in others : x = 200 + q
    BY DEF Objects
  <2>. HIDE DEF others
  <2>2. ASSUME NEW c \in 1 .. 99, x = 100 + c \/ x = 200 + c PROVE x \in 1 .. 299 /\ x \notin 1 .. 99
    BY <2>2
  <2>3. x \in 1 .. 99 => x \in 1 .. 299
    OBVIOUS
  <2>. QED  BY <1>2, <1>3, <1>4, <2>1, <2>2, <2>3
<1>. QED  BY <1>2, <1>5

\* A page is the beginning of the rest, and all of it when there is less.
LEMMA PageIs ==
  ASSUME NEW rest, rest \subseteq 1 .. 299, NEW n \in Nat
  PROVE  /\ Page(rest, n) \subseteq rest /\ IsFiniteSet(rest) /\ Cardinality(rest) \in Nat
         /\ \A o \in Page(rest, n), r \in rest : r < o => r \in Page(rest, n)
         /\ Cardinality(rest) < n => Page(rest, n) = rest
<1>1. IsFiniteSet(rest)
  <2>0. 1 \in Int /\ 299 \in Int
    OBVIOUS
  <2>1. IsFiniteSet(1 .. 299)
    BY <2>0, FS_Interval, Zenon
  <2>. QED  BY <2>1, FS_Subset
<1>. DEFINE Below(o) == {r \in rest : r < o}
<1>2. \A o : /\ IsFiniteSet(Below(o)) /\ Cardinality(Below(o)) \in Nat
             /\ Cardinality(Below(o)) =< Cardinality(rest) /\ Cardinality(rest) \in Nat
  <2>1. \A o : Below(o) \in SUBSET rest
    OBVIOUS
  <2>. HIDE DEF Below
  <2>. QED  BY <1>1, <2>1, FS_Subset, FS_CardinalityType
<1>3. ASSUME NEW o \in Page(rest, n), NEW r \in rest, r < o PROVE r \in Page(rest, n)
  <2>1. o \in rest /\ Cardinality(Below(o)) < n
    BY DEF Page
  <2>2. \A x \in rest : x \in Int
    OBVIOUS
  <2>3. Below(r) \subseteq Below(o)
    <3>1. \A x \in rest : x < r => x < o
      BY <1>3, <2>1, <2>2
    <3>. QED  BY <3>1
  <2>4. Cardinality(Below(r)) =< Cardinality(Below(o))
    BY <1>2, <2>3, FS_Subset
  <2>5. Cardinality(Below(r)) < n
    BY <1>2, <2>1, <2>4
  <2>. QED  BY <2>5 DEF Page
<1>4. ASSUME Cardinality(rest) < n PROVE Page(rest, n) = rest
  <2>1. \A o \in rest : Cardinality(Below(o)) < n
    BY <1>2, <1>4
  <2>. QED  BY <2>1 DEF Page
<1>5. Page(rest, n) \subseteq rest /\ Cardinality(rest) \in Nat
  BY <1>2 DEF Page
<1>. QED  BY <1>1, <1>3, <1>4, <1>5

\* The cursor after a page: behind the page, before the rest.
LEMMA CursorIs ==
  ASSUME NEW at \in Nat, NEW rest, rest \subseteq 1 .. 299, \A o \in rest : o > at, NEW n \in Nat,
         NEW next, next = IF Page(rest, n) = {} THEN at ELSE Max(Page(rest, n))
  PROVE  /\ next \in Nat /\ at =< next
         /\ \A o \in rest : o =< next <=> o \in Page(rest, n)
<1>. DEFINE page == Page(rest, n)
<1>1. page \subseteq rest /\ \A o \in page, r \in rest : r < o => r \in page
  BY PageIs
<1>. HIDE DEF page
<1>2. CASE page = {}
  <2>1. next = at
    BY <1>2 DEF page
  <2>2. \A o \in rest : ~(o =< at)
    OBVIOUS
  <2>. QED  BY <1>2, <2>1, <2>2 DEF page
<1>3. CASE page # {}
  <2>1. next = Max(page)
    BY <1>3 DEF page
  <2>2. page \subseteq 0 .. 299 /\ 299 \in Nat
    BY <1>1
  <2>3. Max(page) \in page /\ \A y \in page : y =< Max(page)
    BY <1>3, <2>2, MaxOf
  <2>4. next \in Nat /\ next \in page /\ next \in rest
    BY <1>1, <2>1, <2>2, <2>3
  <2>5. \A o \in rest : o \in Int
    OBVIOUS
  <2>6. ASSUME NEW o \in rest PROVE o =< next <=> o \in page
    BY <1>1, <2>1, <2>3, <2>4, <2>5
  <2>. QED  BY <2>4, <2>6 DEF page
<1>. QED  BY <1>2, <1>3

\* One more page: what was gathered goes up to the new cursor, and is complete
\* when the page was the last.
LEMMA PageGathered ==
  ASSUME DirInv, WalkInv, NEW due, NEW n \in Nat, WalkPage(due, n)
  PROVE  /\ walk'.at \in Nat /\ walk'.rev = revision
         /\ walk'.at = 0 => walk'.peers = {} /\ walk'.mail = {}
         /\ Gathered(walk', Allowed(Walker), bundle)
         /\ walk'.phase = "done" =>
              walk'.peers = {[id |-> q, bundle |-> bundle[q]] : q \in Allowed(Walker)}
<1>. DEFINE now  == SweepInner(due)
            rest == After(Objects(Walker, now), walk.at)
            page == Page(rest, n)
            A    == Allowed(Walker)
            Fetched(S) == {[id |-> q, bundle |-> bundle[q]] : q \in S}
            at1  == walk'.at
<1>0. /\ walk.phase = "walking" /\ CursorHolds(walk) /\ Walker \in Rows
      /\ walk.at \in Nat /\ Gathered(walk, A, bundle)
  BY DEF WalkPage, PageDue, Caller, WalkInv
<1>1. /\ walk'.rev = revision
      /\ walk'.at = IF page = {} THEN walk.at ELSE Max(page)
      /\ walk'.peers = walk.peers \cup PeersOn(page)
      /\ walk'.mail = walk.mail \cup MailOn(page, Walker, now)
      /\ walk'.phase = "done" => Cardinality(rest) < n
  BY DEF WalkPage
<1>2. BoxOK(now, bundle)
  BY SweepOK
<1>3. /\ Objects(Walker, now) \subseteq 1 .. 299
      /\ Objects(Walker, now) \cap (1 .. 99) = A
  BY <1>0, <1>2, ObjectsAre DEF BoxOK
<1>. HIDE DEF now
<1>4. rest \subseteq 1 .. 299 /\ \A o \in rest : o > walk.at
  BY <1>3 DEF After
<1>5. \A q \in A : q \in rest <=> ~(q =< walk.at)
  <2>1. \A q \in A : q \in Objects(Walker, now) /\ q \in Nat
    BY <1>3
  <2>. QED  BY <1>0, <2>1 DEF After
<1>6. \A o \in rest : o \in Objects(Walker, now) /\ (o \in 1 .. 99 => o \in A)
  BY <1>3 DEF After
<1>. HIDE DEF rest
<1>7. /\ page \subseteq rest
      /\ Cardinality(rest) < n => page = rest
  BY <1>4, PageIs
<1>8. /\ at1 \in Nat /\ walk.at =< at1
      /\ \A o \in rest : o =< at1 <=> o \in page
  BY <1>0, <1>1, <1>4, CursorIs
<1>. HIDE DEF page, at1, A
<1>9. \A q \in A : q \in Nat /\ q \in 1 .. 99
  BY AllowedAre, DirectoryAssumption DEF A
<1>10. PeersOn(page) = Fetched(page \cap (1 .. 99))
  BY DEF PeersOn
<1>11. walk'.peers = Fetched({r \in A : r =< walk.at} \cup (page \cap (1 .. 99)))
  <2>1. walk.peers = Fetched({r \in A : r =< walk.at})
    BY <1>0 DEF Gathered
  <2>. QED  BY <1>1, <1>10, <2>1
<1>12. {r \in A : r =< walk.at} \cup (page \cap (1 .. 99)) = {r \in A : r =< at1}
  <2>1. ASSUME NEW r \in A PROVE r =< at1 <=> (r =< walk.at \/ r \in page)
    BY <1>0, <1>5, <1>7, <1>8, <1>9
  <2>2. \A r \in page \cap (1 .. 99) : r \in A /\ r =< at1
    BY <1>6, <1>7, <1>8
  <2>. QED  BY <1>9, <2>1, <2>2
<1>13. walk'.peers = Fetched({r \in A : r =< at1})
  BY <1>11, <1>12
<1>14. ASSUME walk'.phase = "done" PROVE walk'.peers = Fetched(A)
  <2>1. page = rest
    BY <1>1, <1>7, <1>14
  <2>2. {r \in A : r =< at1} = A
    BY <1>0, <1>5, <1>8, <1>9, <2>1
  <2>. QED  BY <1>13, <2>2
\* The records.
<1>15. ASSUME NEW m \in MailOn(page, Walker, now)
       PROVE  /\ bundle[m.a].id = m.ba /\ bundle[m.b].id = m.bb
              /\ \E q \in 1 .. MaxPeer : {m.a, m.b} = {Walker, q} /\ q # Walker /\ 200 + q \in page
              /\ \E o \in now : m = [x |-> o.x, a |-> o.a, b |-> o.b, ba |-> o.ba, bb |-> o.bb]
  <2>1. PICK o \in Of(Walker, now) :
          /\ m = [x |-> o.x, a |-> o.a, b |-> o.b, ba |-> o.ba, bb |-> o.bb]
          /\ \E q \in {o.a, o.b} \ {Walker} : 200 + q \in page
    BY DEF MailOn
  <2>2. PICK q \in {o.a, o.b} \ {Walker} : 200 + q \in page
    BY <2>1
  <2>3. o \in now /\ Walker \in {o.a, o.b}
    BY DEF Of
  <2>4. bundle[o.a].id = o.ba /\ bundle[o.b].id = o.bb /\ o.a \in 1 .. MaxPeer /\ o.b \in 1 .. MaxPeer
    BY <1>2, <2>3 DEF BoxOK, Exchanges
  <2>5. {o.a, o.b} = {Walker, q} /\ q # Walker /\ q \in 1 .. MaxPeer
    BY <2>2, <2>3, <2>4
  <2>. QED  BY <2>1, <2>2, <2>3, <2>4, <2>5
<1>16. ASSUME NEW m \in walk'.mail
       PROVE  /\ bundle[m.a].id = m.ba /\ bundle[m.b].id = m.bb
              /\ \E q \in 1 .. MaxPeer : {m.a, m.b} = {Walker, q} /\ q # Walker /\ 200 + q =< at1
  <2>1. CASE m \in walk.mail
    <3>1. /\ bundle[m.a].id = m.ba /\ bundle[m.b].id = m.bb
          /\ \E q \in 1 .. MaxPeer : {m.a, m.b} = {Walker, q} /\ q # Walker /\ 200 + q =< walk.at
      BY <1>0, <2>1 DEF Gathered
    <3>2. \A q \in 1 .. MaxPeer : 200 + q =< walk.at => 200 + q =< at1
      BY <1>0, <1>8, DirectoryAssumption
    <3>. QED  BY <3>1, <3>2
  <2>2. CASE m \in MailOn(page, Walker, now)
    <3>1. \A o \in page : o =< at1
      BY <1>7, <1>8
    <3>. QED  BY <1>15, <2>2, <3>1
  <2>. QED  BY <1>1, <2>1, <2>2
<1>17. ASSUME NEW m \in walk.mail, NEW o \in MailOn(page, Walker, now) PROVE {m.a, m.b} # {o.a, o.b}
  <2>1. PICK q \in 1 .. MaxPeer : {m.a, m.b} = {Walker, q} /\ q # Walker /\ 200 + q =< walk.at
    BY <1>0 DEF Gathered
  <2>2. PICK r \in 1 .. MaxPeer : {o.a, o.b} = {Walker, r} /\ r # Walker /\ 200 + r \in page
    BY <1>15
  <2>3. 200 + r > walk.at
    BY <1>4, <1>7, <2>2
  <2>4. q # r
    BY <1>0, <2>1, <2>3, DirectoryAssumption
  <2>. QED  BY <2>1, <2>2, <2>4
<1>18. ASSUME NEW m \in MailOn(page, Walker, now), NEW o \in MailOn(page, Walker, now),
              {m.a, m.b} = {o.a, o.b}
       PROVE  m = o
  <2>1. PICK i \in now : m = [x |-> i.x, a |-> i.a, b |-> i.b, ba |-> i.ba, bb |-> i.bb]
    BY <1>15
  <2>2. PICK j \in now : o = [x |-> j.x, a |-> j.a, b |-> j.b, ba |-> j.ba, bb |-> j.bb]
    BY <1>15
  <2>3. i.a < i.b /\ j.a < j.b /\ i.a \in Int /\ i.b \in Int /\ j.a \in Int /\ j.b \in Int
    BY <1>2, DirectoryAssumption DEF BoxOK, Exchanges
  <2>4. m.a = i.a /\ m.b = i.b /\ o.a = j.a /\ o.b = j.b
    BY <2>1, <2>2
  <2>5. i.a = j.a /\ i.b = j.b
    BY <1>18, <2>3, <2>4
  <2>6. i = j
    BY <1>2, <2>5 DEF BoxOK
  <2>. QED  BY <2>1, <2>2, <2>6
<1>19. ASSUME NEW m \in walk'.mail, NEW o \in walk'.mail, {m.a, m.b} = {o.a, o.b} PROVE m = o
  <2>1. CASE m \in walk.mail /\ o \in walk.mail
    BY <1>0, <1>19, <2>1 DEF Gathered
  <2>. QED  BY <1>1, <1>17, <1>18, <1>19, <2>1
<1>20. Gathered(walk', Allowed(Walker), bundle)
  BY <1>13, <1>16, <1>19 DEF Gathered, A, at1
<1>21. ASSUME walk'.at = 0 PROVE walk'.peers = {} /\ walk'.mail = {}
  <2>1. walk.at = 0
    BY <1>0, <1>8, <1>21 DEF at1
  <2>2. page = {}
    <3>1. \A o \in page : o =< 0 /\ o > 0
      BY <1>4, <1>7, <1>8, <1>21, <2>1 DEF at1
    <3>2. \A o \in page : o \in Int
      BY <1>4, <1>7
    <3>. QED  BY <3>1, <3>2
  <2>3. PeersOn(page) = {} /\ MailOn(page, Walker, now) = {}
    BY <2>2 DEF PeersOn, MailOn
  <2>. QED  BY <1>1, <2>1, <2>3 DEF WalkInv
<1>. QED  BY <1>1, <1>8, <1>14, <1>20, <1>21 DEF A, at1

\* A change of the directory or of a bundle moves the revision, so that the
\* cursor of a walk that has begun no longer holds.
LEMMA RevisionMoves ==
  ASSUME WalkInv, revision' = revision + 1, UNCHANGED walk
  PROVE  WalkInv'
<1>1. revision' \in Nat /\ walk.rev =< revision' /\ walk.rev # revision'
  BY DEF WalkInv
<1>2. ASSUME CursorHolds(walk)' PROVE Gathered(walk, Allowed(Walker)', bundle')
  <2>1. walk.at = 0 /\ walk.peers = {} /\ walk.mail = {}
    BY <1>1, <1>2 DEF CursorHolds, WalkInv
  <2>2. Allowed(Walker)' \subseteq 1 .. MaxPeer
    BY DEF Allowed, Rows
  <2>. QED  BY <2>1, <2>2, NothingGathered
<1>3. (Gathered(walk, Allowed(Walker), bundle))' <=> Gathered(walk, Allowed(Walker)', bundle')
  BY DEF Gathered
<1>. QED  BY <1>1, <1>2, <1>3 DEF WalkInv

\* The permissions depend on the tables of the directory only.
LEMMA AllowedSame ==
  ASSUME UNCHANGED tree
  PROVE  Allowed(Walker)' = Allowed(Walker)
BY DEF tree, Allowed, AssociatedSubcidrs, Associated, ParentOf, Upward, Cidrs, Rows

\* A step that leaves what the walk is about, and the walk, as they are.
LEMMA DirectoryStays ==
  ASSUME WalkInv, UNCHANGED <<tree, bundle, revision, walk>>
  PROVE  WalkInv'
<1>1. Allowed(Walker)' = Allowed(Walker)
  BY AllowedSame
<1>. QED  BY <1>1 DEF WalkInv, CursorHolds, Gathered

\* A walk that starts over forgets all it had.
LEMMA WalkBegins ==
  ASSUME WalkInv, UNCHANGED revision, walk'.at = 0, walk'.rev = 0, walk'.peers = {}, walk'.mail = {}
  PROVE  WalkInv'
<1>1. Allowed(Walker)' \subseteq 1 .. MaxPeer
  BY DEF Allowed, Rows
<1>2. Gathered(walk', Allowed(Walker)', bundle')
  BY <1>1, NothingGathered
<1>3. (Gathered(walk, Allowed(Walker), bundle))'
  BY <1>2 DEF Gathered
<1>. QED  BY <1>3 DEF WalkInv

\* The step of the induction.
LEMMA WalkInvStep ==
  ASSUME DirInv, WalkInv, [Next]_vars
  PROVE  WalkInv'
<1>1. CASE Change
  <2>1. revision' = revision + 1 /\ UNCHANGED walk
    BY <1>1 DEF Change, CreateCidr, DeleteCidr, CreateAssociation, DeleteAssociation, CreatePeer,
                UpdatePeer, RedeemPeer, DeleteExpiredInvite, Touch, Bump
  <2>. QED  BY <2>1, RevisionMoves
<1>2. CASE Mailbox
  <2>1. \/ revision' = revision + 1 /\ UNCHANGED walk
        \/ UNCHANGED <<tree, bundle, revision, walk>>
    <3>1. \A p, due : Register(p, due) => revision' = revision + 1 /\ UNCHANGED walk
      BY DEF Register, Bump
    <3>2. \A p, due, emergency : Retire(p, due, emergency) => revision' = revision + 1 /\ UNCHANGED walk
      BY DEF Retire, Bump
    <3>3. \A p, q, due : Propose(p, q, due) => UNCHANGED <<tree, bundle, revision, walk>>
      BY DEF Propose
    <3>4. \A m, due, next : Advance(m, due, next) => UNCHANGED <<tree, bundle, revision, walk>>
      BY DEF Advance
    <3>5. \A due : Sweep(due) => UNCHANGED <<tree, bundle, revision, walk>>
      BY DEF Sweep
    <3>. QED  BY <1>2, <3>1, <3>2, <3>3, <3>4, <3>5 DEF Mailbox
  <2>. QED  BY <2>1, RevisionMoves, DirectoryStays
<1>3. CASE StartWalk \/ WalkConflict \/ WalkRefused \/ EndWalk
  <2>1. UNCHANGED revision /\ walk'.at = 0 /\ walk'.rev = 0 /\ walk'.peers = {} /\ walk'.mail = {}
    BY <1>3 DEF StartWalk, WalkConflict, WalkRefused, EndWalk, Restart, NoWalk
  <2>. QED  BY <2>1, WalkBegins
<1>4. ASSUME NEW due \in Due, NEW n \in ShortPage .. PageLimit, WalkPage(due, n) PROVE WalkInv'
  <2>1. n \in Nat
    BY DirectoryAssumption
  <2>2. UNCHANGED <<tree, revision, bundle>>
    BY <1>4 DEF WalkPage
  <2>3. /\ walk'.at \in Nat /\ walk'.rev = revision
        /\ walk'.at = 0 => walk'.peers = {} /\ walk'.mail = {}
        /\ Gathered(walk', Allowed(Walker), bundle)
    BY <1>4, <2>1, PageGathered
  <2>4. Gathered(walk', Allowed(Walker)', bundle')
    BY <2>2, <2>3, AllowedSame
  <2>5. (Gathered(walk, Allowed(Walker), bundle))'
    BY <2>4 DEF Gathered
  <2>6. revision' \in Nat /\ walk'.rev =< revision' /\ walk'.rev \in Nat
    BY <2>2, <2>3 DEF WalkInv
  <2>. QED  BY <2>3, <2>5, <2>6 DEF WalkInv
<1>5. CASE UNCHANGED vars
  BY <1>5, DirectoryStays DEF vars, box
<1>. QED  BY <1>1, <1>2, <1>3, <1>4, <1>5 DEF Next, Walking, WalkPages

\* The base of the induction.
LEMMA WalkInvInit == Init => WalkInv
<1>. SUFFICES ASSUME Init PROVE WalkInv
  OBVIOUS
<1>. QED  BY DEF Init, WalkInv, NoWalk

\* A walk that completes read its pages in several transactions, with changes,
\* sweeps and proposals of others in between, and yet it returns the peers and
\* bundles of one state, each once, and records of those bundles, one per pair
\* (`page` binds the cursor to the revision, `fetch_state` starts over on
\* Conflict).
THEOREM WalksAreSnapshots == Spec => WalkIsSnapshot
<1>. DEFINE Snapshot ==
       walk.phase = "walking" /\ walk'.phase = "done" =>
         /\ walk'.peers = {[id |-> q, bundle |-> bundle[q]] : q \in Allowed(Walker)}
         /\ \A m \in walk'.mail : bundle[m.a].id = m.ba /\ bundle[m.b].id = m.bb
         /\ \A m, o \in walk'.mail : {m.a, m.b} = {o.a, o.b} => m = o
<1>1. ASSUME DirInv, WalkInv, Next PROVE Snapshot
  <2>. SUFFICES ASSUME walk.phase = "walking", walk'.phase = "done" PROVE Snapshot
    OBVIOUS
  <2>1. ~Change /\ ~Mailbox
    BY DEF Change, CreateCidr, DeleteCidr, CreateAssociation, DeleteAssociation, CreatePeer,
           UpdatePeer, RedeemPeer, DeleteExpiredInvite, Touch,
           Mailbox, Register, Retire, Propose, Advance, Sweep
  <2>2. ~(StartWalk \/ WalkConflict \/ WalkRefused \/ EndWalk)
    BY DEF StartWalk, WalkConflict, WalkRefused, EndWalk, Restart, NoWalk
  <2>3. PICK due \in Due, n \in ShortPage .. PageLimit : WalkPage(due, n)
    BY <1>1, <2>1, <2>2 DEF Next, Walking, WalkPages
  <2>4. n \in Nat
    BY DirectoryAssumption
  <2>5. /\ Gathered(walk', Allowed(Walker), bundle)
        /\ walk'.peers = {[id |-> q, bundle |-> bundle[q]] : q \in Allowed(Walker)}
    BY <1>1, <2>3, <2>4, PageGathered
  <2>. QED  BY <2>5 DEF Gathered
<1>2. DirInv /\ WalkInv /\ [Next]_vars => [Snapshot]_vars
  BY <1>1
<1>3. Spec => []WalkInv
  BY WalkInvInit, WalkInvStep, DirectoryInductive, PTL DEF Spec
<1>. QED  BY <1>2, <1>3, DirectoryInductive, PTL DEF Spec, WalkIsSnapshot

-----------------------------------------------------------------------------
(* Administration: the commands, the requests that wait, the invitations *)

\* A command keeps what it asked for, whatever was listed since.
CommandOK(c) ==
  /\ c = [phase |-> c.phase, cidrs |-> c.cidrs, what |-> c.what]
  /\ c.what.do = "addCidr" => c.what.range \in Ranges
  /\ c.what.do = "updatePeer" => c.what.disabled \in BOOLEAN

CommandsOK == command = [a \in Commanders |-> command[a]] /\ \A a \in Commanders : CommandOK(command[a])

\* The request of a peer to redeem was let in by the row's own key; the row
\* may be gone, but then its id is not given out again.
RequestOK(p) == request[p].do = "redeem" => p =< maxId /\ request[p].key = keys[p].invite

KeysOK ==
  /\ keys \in [1 .. MaxPeer -> [invite : Nat, by : Nat]] /\ issued \in Nat
  /\ \A p \in 1 .. MaxPeer : keys[p].by \in {0, keys[p].invite}
  /\ request = [p \in 2 .. MaxPeer |-> request[p]]
  /\ \A p \in 2 .. MaxPeer : RequestOK(p)

\* The inductive invariant.
AdminInv == DirInv /\ CommandsOK /\ KeysOK

\* The base of the induction.
LEMMA AdminInvInit == AdminInit => AdminInv
<1>. SUFFICES ASSUME AdminInit PROVE AdminInv
  OBVIOUS
<1>0. /\ MaxCidr \in Nat /\ MaxCidr >= 4 /\ MaxPeer \in Nat /\ MaxPeer >= 4
  BY DirectoryAssumption
<1>1. /\ peer[1] = [cidr |-> 2, ip |-> 1, disabled |-> FALSE, redeemed |-> TRUE]
      /\ peer[2] = [cidr |-> 3, ip |-> 2, disabled |-> FALSE, redeemed |-> TRUE]
      /\ peer[3] = [cidr |-> 3, ip |-> 3, disabled |-> FALSE, redeemed |-> FALSE]
      /\ \A p \in 1 .. MaxPeer : p \notin 1 .. 3 => peer[p] = NoPeer
  BY <1>0 DEF AdminInit
<1>2. Rows = {1, 2, 3}
  <2>1. peer[1] # NoPeer /\ peer[2] # NoPeer /\ peer[3] # NoPeer
    BY <1>1 DEF NoPeer
  <2>. QED  BY <1>0, <1>1, <2>1 DEF Rows
<1>3. 1 \in cidr[2].range /\ 2 \in cidr[3].range /\ 3 \in cidr[3].range
  BY <1>0 DEF AdminInit, FirstCidrs
<1>4. ASSUME NEW p \in Rows
      PROVE  FirstRow(p)
  BY <1>1, <1>2, <1>3, Zenon DEF FirstRow
<1>5. ServerRow
  BY <1>1, <1>2 DEF ServerRow, Server
<1>6. bundle \in [1 .. MaxPeer -> [id : Nat, enabled : BOOLEAN]]
  BY <1>0 DEF AdminInit, NoBundle
<1>7. Rows \subseteq 1 .. maxId /\ maxId \in Nat
  BY <1>2 DEF AdminInit
<1>8. DirInv
  BY <1>4, <1>5, <1>6, <1>7, FirstNetwork DEF AdminInit, FirstState
<1>9. CommandsOK
  BY DEF AdminInit, CommandsOK, CommandOK, NoCommand, Nothing
<1>10. KeysOK
  <2>1. keys \in [1 .. MaxPeer -> [invite : Nat, by : Nat]] /\ issued \in Nat
    BY <1>0 DEF AdminInit, NoKey
  <2>2. \A p \in 1 .. MaxPeer : keys[p].by \in {0, keys[p].invite}
    BY <1>0 DEF AdminInit, NoKey
  <2>3. /\ request = [p \in 2 .. MaxPeer |-> request[p]]
        /\ \A p \in 2 .. MaxPeer : RequestOK(p)
    BY DEF AdminInit, RequestOK, NoRequest
  <2>. QED  BY <2>1, <2>2, <2>3 DEF KeysOK
<1>. QED  BY <1>8, <1>9, <1>10 DEF AdminInv

-----------------------------------------------------------------------------
(* The commands *)

\* What is asked for is well formed.
LEMMA AskedOK ==
  ASSUME DirInv, NEW cs,
         NEW w \in AskedAddCidr(cs) \cup AskedRenameCidr(cs) \cup AskedDeleteCidr(cs)
                   \cup AskedAddAssociation(cs) \cup AskedDeleteAssociation(cs) \cup AskedAddPeer(cs)
                   \cup AskedRenamePeer \cup AskedEnableOrDisable \cup AskedDeletePeer
  PROVE  /\ w.do = "addCidr" => w.range \in Ranges
         /\ w.do = "updatePeer" => w.disabled \in BOOLEAN
<1>1. CASE w \in AskedAddCidr(cs)
  BY <1>1, AdministrationAssumption DEF AskedAddCidr
<1>2. CASE w \in AskedRenameCidr(cs) \cup AskedDeleteCidr(cs) \cup AskedAddAssociation(cs)
                 \cup AskedDeleteAssociation(cs) \cup AskedAddPeer(cs) \cup AskedDeletePeer
  BY <1>2 DEF AskedRenameCidr, AskedDeleteCidr, AskedAddAssociation, AskedDeleteAssociation,
              AskedAddPeer, AskedDeletePeer
<1>3. CASE w \in AskedRenamePeer \cup AskedEnableOrDisable
  <2>1. \A p \in Rows : peer[p].disabled \in BOOLEAN
    BY DEF DirInv, TypeOK, Rows
  <2>2. \E p \in Rows : \E why \in {"rename", "switch"} : \E flag \in BOOLEAN :
          w = [do |-> "updatePeer", id |-> p, why |-> why, disabled |-> flag]
    BY <1>3, <2>1, Zenon DEF AskedRenamePeer, AskedEnableOrDisable
  <2>3. PICK p \in Rows, why \in {"rename", "switch"}, flag \in BOOLEAN :
          w = [do |-> "updatePeer", id |-> p, why |-> why, disabled |-> flag]
    BY <2>2
  <2>4. w.do = "updatePeer" /\ w.disabled = flag
    BY <2>3, Zenon
  <2>. QED  BY <2>4
<1>. QED  BY <1>1, <1>2, <1>3

\* A command that is replaced by a well-formed one.
LEMMA SetOK ==
  ASSUME CommandsOK, NEW a, NEW c, CommandOK(c), Set(a, c)
  PROVE  CommandsOK'
<1>1. command' = [b \in Commanders |-> command'[b]]
  BY DEF CommandsOK, Set
<1>2. ASSUME NEW b \in Commanders PROVE CommandOK(command'[b])
  <2>1. command'[b] = command[b] \/ command'[b] = c
    BY DEF CommandsOK, Set
  <2>. QED  BY <2>1 DEF CommandsOK
<1>3. Commanders' = Commanders
  BY DEF Commanders, Server
<1>. QED  BY <1>1, <1>2, <1>3 DEF CommandsOK, CommandOK

\* No command at all is in order.
LEMMA NoCommandOK == CommandOK(NoCommand)
BY DEF CommandOK, NoCommand, Nothing

\* The prompts choose among what was listed and leave the database alone.
LEMMA AskOK ==
  ASSUME DirInv, CommandsOK, NEW cs, NEW a,
         NEW answers \in SUBSET
               (AskedAddCidr(cs) \cup AskedRenameCidr(cs) \cup AskedDeleteCidr(cs)
                   \cup AskedAddAssociation(cs) \cup AskedDeleteAssociation(cs) \cup AskedAddPeer(cs)
                   \cup AskedRenamePeer \cup AskedEnableOrDisable \cup AskedDeletePeer),
         Ask(a, answers)
  PROVE  CommandsOK' /\ UNCHANGED <<vars, request, keys, issued>>
<1>1. PICK w \in answers : Set(a, [phase |-> "asked", cidrs |-> <<>>, what |-> w])
  BY DEF Ask
<1>. DEFINE c == [phase |-> "asked", cidrs |-> <<>>, what |-> w]
<1>2. CommandOK(c)
  <2>1. /\ w.do = "addCidr" => w.range \in Ranges
        /\ w.do = "updatePeer" => w.disabled \in BOOLEAN
    BY AskedOK
  <2>. QED  BY <2>1 DEF CommandOK
<1>3. Set(a, c)
  BY <1>1
<1>4. CommandsOK'
  <2>. HIDE DEF c
  <2>. QED  BY <1>2, <1>3, SetOK
<1>. QED  BY <1>4 DEF Ask

\* Listing, asking and giving up leave the database alone.
LEMMA CommandingOK ==
  ASSUME DirInv, CommandsOK, NEW a \in Commanders,
         \/ ListCidrs(a) \/ AskAboutCidr(a) \/ AskAddPeer(a) \/ AskAboutPeer(a) \/ Abandon(a)
         \/ AskAboutAssociation(a)
  PROVE  CommandsOK' /\ UNCHANGED <<vars, request, keys, issued>>
<1>1. CASE ListCidrs(a)
  <2>. DEFINE c == [phase |-> "listed", cidrs |-> cidr, what |-> Nothing]
  <2>1. CommandOK(c)
    BY DEF CommandOK, Nothing
  <2>2. Set(a, c)
    BY <1>1 DEF ListCidrs
  <2>3. CommandsOK'
    <3>. HIDE DEF c
    <3>. QED  BY <2>1, <2>2, SetOK
  <2>. QED  BY <1>1, <2>3 DEF ListCidrs
<1>2. CASE AskAboutCidr(a) \/ AskAddPeer(a) \/ AskAboutAssociation(a)
  BY <1>2, AskOK DEF AskAboutCidr, AskAddPeer, AskAboutAssociation
<1>3. CASE AskAboutPeer(a)
  <2>1. Ask(a, AskedRenamePeer \cup AskedEnableOrDisable
               \cup (IF a = Server THEN {} ELSE AskedDeletePeer))
    BY <1>3 DEF AskAboutPeer
  <2>. QED  BY <2>1, AskOK
<1>4. CASE Abandon(a)
  BY <1>4, SetOK, NoCommandOK DEF Abandon
<1>. QED  BY <1>1, <1>2, <1>3, <1>4

-----------------------------------------------------------------------------
(* The requests *)

\* No row's key changes, except that a new row gets one.
KeysStay == UNCHANGED <<keys, issued>>
KeysGrow == Invite(NewId) /\ NewId \in 1 .. MaxPeer /\ maxId' = NewId

\* What the handler of an administrator's request does to the database.
LEMMA DoCidrStep ==
  ASSUME DirInv, NEW w, w.do = "addCidr" => w.range \in Ranges, DoCidr(w)
  PROVE  DirInv' /\ UNCHANGED <<peer, maxId>>
<1>1. CASE w.do = "addCidr" /\ CreateCidr(w.range, w.parent)
  BY <1>1, CreateCidrStep DEF CreateCidr
<1>2. CASE Touch
  BY <1>2, MailStep DEF Touch, box, DirInv, TypeOK, ActivePairsAllowed, tree
<1>3. CASE DeleteCidr(w.cidr)
  BY <1>3, DeleteCidrStep DEF DeleteCidr
<1>. QED  BY <1>1, <1>2, <1>3 DEF DoCidr

\* The association handlers touch no peer.
LEMMA DoAssociationStep ==
  ASSUME DirInv, NEW w, DoAssociation(w)
  PROVE  DirInv' /\ UNCHANGED <<peer, maxId>>
<1>1. CASE \E c, d \in w.pair : CreateAssociation(c, d)
  BY <1>1, AssociationStep DEF CreateAssociation
<1>2. CASE DeleteAssociation(w.pair)
  BY <1>2, AssociationStep DEF DeleteAssociation
<1>. QED  BY <1>1, <1>2 DEF DoAssociation

\* The peer handlers: they add one row with a new id, or no row changes hands.
LEMMA DoPeerStep ==
  ASSUME DirInv, NEW w, w.do = "updatePeer" => w.disabled \in BOOLEAN, DoPeer(w)
  PROVE  /\ DirInv'
         /\ (KeysStay /\ maxId' = maxId) \/ KeysGrow
<1>1. CASE w.do = "addPeer" /\ CreatePeer(w.cidr, w.ip) /\ Invite(NewId)
  BY <1>1, CreatePeerStep DEF CreatePeer, KeysGrow
<1>2. CASE w.do = "updatePeer" /\ UpdatePeer(w.id, w.disabled) /\ UNCHANGED <<keys, issued>>
  BY <1>2, UpdatePeerStep DEF UpdatePeer, KeysStay
<1>3. CASE w.do = "deletePeer" /\ UpdatePeer(w.id, TRUE) /\ UNCHANGED <<keys, issued>>
  BY <1>3, UpdatePeerStep DEF UpdatePeer, KeysStay
<1>. QED  BY <1>1, <1>2, <1>3 DEF DoPeer

\* The keys, when the requests of the peers wait.
LEMMA KeysStep ==
  ASSUME DirInv, KeysOK, UNCHANGED request, (KeysStay /\ maxId' = maxId) \/ KeysGrow
  PROVE  KeysOK'
<1>0. maxId \in Nat /\ MaxPeer \in Nat
  BY DirectoryAssumption DEF DirInv, TypeOK
<1>1. CASE KeysStay /\ maxId' = maxId
  BY <1>1 DEF KeysOK, KeysStay, RequestOK
<1>2. CASE KeysGrow
  <2>. DEFINE id == maxId + 1
              k == [invite |-> issued + 1, by |-> 0]
  <2>1. keys' = [keys EXCEPT ![id] = k] /\ issued' = issued + 1 /\ maxId' = id /\ id \in 1 .. MaxPeer
    BY <1>2 DEF KeysGrow, Invite, NewId
  <2>2. issued \in Nat /\ k \in [invite : Nat, by : Nat] /\ k.by = 0
    BY DEF KeysOK
  <2>3. keys' \in [1 .. MaxPeer -> [invite : Nat, by : Nat]] /\ issued' \in Nat
    BY <2>1, <2>2 DEF KeysOK
  <2>4. ASSUME NEW p \in 1 .. MaxPeer PROVE keys'[p].by \in {0, keys'[p].invite}
    <3>1. keys'[p] = IF p = id THEN k ELSE keys[p]
      BY <2>1 DEF KeysOK
    <3>. QED  BY <2>2, <3>1 DEF KeysOK
  <2>5. ASSUME NEW p \in 2 .. MaxPeer PROVE RequestOK(p)'
    <3>1. ASSUME request[p].do = "redeem" PROVE p =< maxId' /\ request[p].key = keys'[p].invite
      <4>1. p =< maxId /\ request[p].key = keys[p].invite
        BY <3>1 DEF KeysOK, RequestOK
      <4>2. p # id /\ p \in 1 .. MaxPeer /\ p =< maxId'
        BY <1>0, <2>1, <4>1
      <4>3. keys'[p] = keys[p]
        BY <2>1, <4>2 DEF KeysOK
      <4>. QED  BY <4>1, <4>2, <4>3
    <3>. QED  BY <3>1 DEF RequestOK
  <2>. QED  BY <2>3, <2>4, <2>5 DEF KeysOK
<1>. QED  BY <1>1, <1>2

\* Whatever command is handled, the directory stays in order.
LEMMA DoStep ==
  ASSUME DirInv, NEW c, CommandOK(c), Do(c.what)
  PROVE  /\ DirInv'
         /\ (KeysStay /\ maxId' = maxId) \/ KeysGrow
<1>1. /\ c.what.do = "addCidr" => c.what.range \in Ranges
      /\ c.what.do = "updatePeer" => c.what.disabled \in BOOLEAN
  BY DEF CommandOK
<1>. DEFINE w == c.what
<1>2. CASE DoCidr(w) /\ UNCHANGED <<keys, issued>>
  BY <1>1, <1>2, DoCidrStep DEF KeysStay
<1>3. CASE DoAssociation(w) /\ UNCHANGED <<keys, issued>>
  BY <1>3, DoAssociationStep DEF KeysStay
<1>4. CASE DoPeer(w)
  BY <1>1, <1>4, DoPeerStep
<1>. QED  BY <1>2, <1>3, <1>4 DEF Do

\* A step that does not touch the database.
LEMMA DirSame ==
  ASSUME DirInv, UNCHANGED vars
  PROVE  DirInv' /\ maxId' = maxId /\ peer' = peer
BY DirInvStep DEF vars, tree

\* Requests of administrators, and the operator's own work.
LEMMA AdminsStep ==
  ASSUME AdminInv,
         \/ OperatorDoesCidr \/ OperatorDoesPeer
         \/ \E a \in Admins : Send(a) \/ Handle(a) \/ TimeOut(a)
  PROVE  AdminInv'
<1>0. DirInv /\ CommandsOK /\ KeysOK /\ Server \in Commanders /\ Admins \subseteq Commanders
  BY DEF AdminInv, Commanders
<1>1. CASE OperatorDoesCidr
  <2>1. CommandOK(command[Server]) /\ DoCidr(command[Server].what) /\ UNCHANGED <<keys, issued>>
    BY <1>0, <1>1 DEF CommandsOK, OperatorDoesCidr
  <2>2. DirInv' /\ KeysStay /\ maxId' = maxId
    BY <1>0, <2>1, DoCidrStep DEF CommandOK, KeysStay
  <2>3. CommandsOK'
    BY <1>0, <1>1, SetOK, NoCommandOK DEF OperatorDoesCidr
  <2>4. KeysOK'
    BY <1>0, <1>1, <2>2, KeysStep DEF OperatorDoesCidr
  <2>. QED  BY <2>2, <2>3, <2>4 DEF AdminInv
<1>2. CASE OperatorDoesPeer
  <2>1. CommandOK(command[Server]) /\ DoPeer(command[Server].what)
    BY <1>0, <1>2 DEF CommandsOK, OperatorDoesPeer
  <2>2. DirInv' /\ ((KeysStay /\ maxId' = maxId) \/ KeysGrow)
    BY <1>0, <2>1, DoPeerStep DEF CommandOK
  <2>3. CommandsOK'
    BY <1>0, <1>2, SetOK, NoCommandOK DEF OperatorDoesPeer
  <2>4. KeysOK'
    BY <1>0, <1>2, <2>2, KeysStep DEF OperatorDoesPeer
  <2>. QED  BY <2>2, <2>3, <2>4 DEF AdminInv
<1>3. ASSUME NEW a \in Admins, Send(a) PROVE AdminInv'
  <2>. DEFINE c == [command[a] EXCEPT !.phase = "sent"]
  <2>1. CommandOK(command[a])
    BY <1>0 DEF CommandsOK
  <2>2. c = [phase |-> "sent", cidrs |-> command[a].cidrs, what |-> command[a].what]
    <3>. DEFINE d == command[a]
    <3>1. d = [phase |-> d.phase, cidrs |-> d.cidrs, what |-> d.what]
      BY <2>1 DEF CommandOK
    <3>2. [d EXCEPT !.phase = "sent"] = [phase |-> "sent", cidrs |-> d.cidrs, what |-> d.what]
      <4>. HIDE DEF d
      <4>. QED  BY <3>1
    <3>. QED  BY <3>2
  <2>3. CommandOK(c)
    BY <2>1, <2>2 DEF CommandOK
  <2>4. CommandsOK'
    <3>1. Set(a, c)
      BY <1>3 DEF Send
    <3>. HIDE DEF c
    <3>. QED  BY <1>0, <2>3, <3>1, SetOK
  <2>5. DirInv' /\ KeysStay /\ maxId' = maxId /\ UNCHANGED request
    BY <1>0, <1>3, DirSame DEF Send, KeysStay
  <2>. QED  BY <1>0, <2>4, <2>5, KeysStep DEF AdminInv
<1>4. ASSUME NEW a \in Admins, Handle(a) PROVE AdminInv'
  <2>1. CommandOK(command[a])
    BY <1>0 DEF CommandsOK
  <2>2. DirInv' /\ ((KeysStay /\ maxId' = maxId) \/ KeysGrow)
    <3>1. CASE Do(command[a].what)
      BY <1>0, <2>1, <3>1, DoStep
    <3>2. CASE UNCHANGED <<vars, keys, issued>>
      BY <1>0, <3>2, DirSame DEF KeysStay
    <3>. QED  BY <1>4, <3>1, <3>2 DEF Handle
  <2>3. CommandsOK'
    BY <1>0, <1>4, SetOK, NoCommandOK DEF Handle
  <2>4. KeysOK'
    BY <1>0, <1>4, <2>2, KeysStep DEF Handle
  <2>. QED  BY <2>2, <2>3, <2>4 DEF AdminInv
<1>5. ASSUME NEW a \in Admins, TimeOut(a) PROVE AdminInv'
  <2>1. CommandsOK'
    BY <1>0, <1>5, SetOK, NoCommandOK DEF TimeOut
  <2>2. DirInv' /\ KeysStay /\ maxId' = maxId /\ UNCHANGED request
    BY <1>0, <1>5, DirSame DEF TimeOut, KeysStay
  <2>. QED  BY <1>0, <2>1, <2>2, KeysStep DEF AdminInv
<1>. QED  BY <1>1, <1>2, <1>3, <1>4, <1>5

\* A step of a peer's own request.
LEMMA RequestStep ==
  ASSUME KeysOK, NEW p \in 2 .. MaxPeer, NEW r, request' = [request EXCEPT ![p] = r],
         maxId' = maxId, r.do = "redeem" => p =< maxId /\ r.key = keys[p].invite,
         UNCHANGED issued, NEW by \in Nat, by \in {0, keys[p].invite},
         keys' = keys \/ keys' = [keys EXCEPT ![p].by = by]
  PROVE  KeysOK'
<1>0. MaxPeer \in Nat /\ 2 .. MaxPeer \subseteq 1 .. MaxPeer
  BY DirectoryAssumption
<1>1. /\ keys' \in [1 .. MaxPeer -> [invite : Nat, by : Nat]]
      /\ \A q \in 1 .. MaxPeer : keys'[q].invite = keys[q].invite
      /\ \A q \in 1 .. MaxPeer : keys'[q].by = keys[q].by \/ (q = p /\ keys'[q].by = by)
  <2>0. keys \in [1 .. MaxPeer -> [invite : Nat, by : Nat]] /\ p \in 1 .. MaxPeer
    BY <1>0 DEF KeysOK
  <2>1. CASE keys' = keys
    BY <2>0, <2>1
  <2>2. CASE keys' = [keys EXCEPT ![p].by = by]
    BY <2>0, <2>2
  <2>. QED  BY <2>1, <2>2
<1>2. \A q \in 1 .. MaxPeer : keys'[q].by \in {0, keys'[q].invite}
  BY <1>0, <1>1 DEF KeysOK
<1>3. /\ request' = [q \in 2 .. MaxPeer |-> request'[q]]
      /\ \A q \in 2 .. MaxPeer : request'[q] = IF q = p THEN r ELSE request[q]
  BY DEF KeysOK
<1>4. ASSUME NEW q \in 2 .. MaxPeer PROVE RequestOK(q)'
  BY <1>0, <1>1, <1>3 DEF KeysOK, RequestOK
<1>. QED  BY <1>1, <1>2, <1>3, <1>4 DEF KeysOK

\* The requests of peers, from session to handler, and the expiry.
LEMMA PeersStep ==
  ASSUME AdminInv, NEW p \in 2 .. MaxPeer,
         SendRedeem(p) \/ SendReport(p) \/ HandleRedeem(p) \/ HandleReport(p) \/ ExpireInvite(p)
  PROVE  AdminInv'
<1>0. /\ DirInv /\ CommandsOK /\ KeysOK /\ p \in 1 .. MaxPeer
      /\ keys[p].invite \in Nat /\ RequestOK(p) /\ keys[p].by \in {0, keys[p].invite}
  BY DirectoryAssumption DEF AdminInv, KeysOK
<1>1. CommandsOK'
  <2>1. UNCHANGED command
    BY DEF SendRedeem, SendReport, HandleRedeem, HandleReport, ExpireInvite, adminVars
  <2>. QED  BY <1>0, <2>1 DEF CommandsOK, CommandOK, Commanders, Server
<1>2. CASE SendRedeem(p)
  <2>. DEFINE r == [do |-> "redeem", row |-> peer[p], key |-> keys[p].invite]
  <2>1. p =< maxId
    BY <1>0, <1>2 DEF SendRedeem, Redeemable, Session, DirInv, TypeOK
  <2>2. /\ request' = [request EXCEPT ![p] = r] /\ UNCHANGED <<keys, issued>>
        /\ r.do = "redeem" => p =< maxId /\ r.key = keys[p].invite
    BY <1>2, <2>1 DEF SendRedeem
  <2>3. DirInv' /\ maxId' = maxId
    BY <1>0, <1>2, DirSame DEF SendRedeem
  <2>4. KeysOK'
    <3>. HIDE DEF r
    <3>. QED  BY <1>0, <2>2, <2>3, RequestStep
  <2>. QED  BY <1>1, <2>3, <2>4 DEF AdminInv
<1>3. CASE SendReport(p)
  <2>. DEFINE r == [do |-> "report", row |-> peer[p], key |-> keys[p].by]
  <2>2. /\ request' = [request EXCEPT ![p] = r] /\ UNCHANGED <<keys, issued>>
        /\ r.do # "redeem"
    BY <1>3 DEF SendReport
  <2>3. DirInv' /\ maxId' = maxId
    BY <1>0, <1>3, DirSame DEF SendReport
  <2>4. KeysOK'
    <3>. HIDE DEF r
    <3>. QED  BY <1>0, <2>2, <2>3, RequestStep
  <2>. QED  BY <1>1, <2>3, <2>4 DEF AdminInv
<1>4. CASE HandleRedeem(p)
  <2>1. NoRequest.do # "redeem"
    BY DEF NoRequest
  <2>2. DirInv' /\ maxId' = maxId
    <3>1. CASE RedeemPeer(p)
      BY <1>0, <3>1, InviteStep DEF RedeemPeer
    <3>2. CASE UNCHANGED vars
      BY <1>0, <3>2, DirSame
    <3>. QED  BY <1>4, <3>1, <3>2 DEF HandleRedeem
  <2>3. /\ request' = [request EXCEPT ![p] = NoRequest] /\ UNCHANGED issued
        /\ keys' = keys \/ keys' = [keys EXCEPT ![p].by = keys[p].invite]
    BY <1>0, <1>4 DEF HandleRedeem, RequestOK
  <2>4. KeysOK'
    BY <1>0, <2>1, <2>2, <2>3, RequestStep
  <2>. QED  BY <1>1, <2>2, <2>4 DEF AdminInv
<1>5. CASE HandleReport(p)
  <2>1. NoRequest.do # "redeem"
    BY DEF NoRequest
  <2>2. DirInv' /\ maxId' = maxId
    <3>1. CASE UpdatePeer(p, SelectedPeer(p, request[p]).disabled)
      <4>1. peer[p].disabled \in BOOLEAN
        BY <1>0 DEF DirInv, TypeOK
      <4>. QED  BY <1>0, <3>1, <4>1, UpdatePeerStep DEF UpdatePeer, SelectedPeer
    <3>2. CASE UNCHANGED vars
      BY <1>0, <3>2, DirSame
    <3>. QED  BY <1>5, <3>1, <3>2 DEF HandleReport
  <2>3. request' = [request EXCEPT ![p] = NoRequest] /\ UNCHANGED <<keys, issued>>
    BY <1>5 DEF HandleReport
  <2>4. KeysOK'
    BY <1>0, <2>1, <2>2, <2>3, RequestStep
  <2>. QED  BY <1>1, <2>2, <2>4 DEF AdminInv
<1>6. CASE ExpireInvite(p)
  <2>1. DirInv' /\ maxId' = maxId
    BY <1>0, <1>6, InviteStep DEF ExpireInvite, DeleteExpiredInvite
  <2>2. KeysOK'
    BY <1>0, <1>6, <2>1, KeysStep DEF ExpireInvite, adminVars, KeysStay
  <2>. QED  BY <1>1, <2>1, <2>2 DEF AdminInv
<1>. QED  BY <1>2, <1>3, <1>4, <1>5, <1>6

\* The step of the induction.
LEMMA AdminInvStep == AdminInv /\ [AdminNext]_allVars => AdminInv'
<1>. SUFFICES ASSUME AdminInv, [AdminNext]_allVars PROVE AdminInv'
  OBVIOUS
<1>1. CASE Commanding
  <2>1. CommandsOK' /\ UNCHANGED <<vars, request, keys, issued>>
    BY <1>1, CommandingOK DEF Commanding, AdminInv
  <2>2. DirInv' /\ KeysStay /\ maxId' = maxId
    BY <2>1, DirSame DEF AdminInv, KeysStay
  <2>. QED  BY <2>1, <2>2, KeysStep DEF AdminInv
<1>2. CASE UNCHANGED allVars
  <2>1. UNCHANGED <<vars, request, keys, issued, command>>
    BY <1>2 DEF allVars, adminVars
  <2>2. DirInv' /\ KeysStay /\ maxId' = maxId
    BY <2>1, DirSame DEF AdminInv, KeysStay
  <2>3. CommandsOK'
    BY <2>1 DEF AdminInv, CommandsOK, CommandOK, Commanders, Server
  <2>. QED  BY <2>1, <2>2, <2>3, KeysStep DEF AdminInv
<1>. QED  BY <1>1, <1>2, AdminsStep, PeersStep DEF AdminNext

-----------------------------------------------------------------------------
(* The theorems *)

\* Whatever administrators ask for on lists that are out of date, the
\* database keeps its tree, its records and its limits (db/cidr.rs, db/peer.rs
\* and db/pq.rs check again in the transaction of the change).
THEOREM AdministrationKeepsDirectory ==
  AdminSpec => [](TreeWellFormed /\ RecordsCurrent /\ QuotaHolds /\ ActivePairsAllowed)
<1>1. AdminInv => TreeWellFormed /\ RecordsCurrent /\ QuotaHolds /\ ActivePairsAllowed
  BY DirInvImplies DEF AdminInv
<1>. QED  BY <1>1, AdminInvInit, AdminInvStep, PTL DEF AdminSpec

\* Nobody redeems an invitation but the one who holds it, however long his
\* request to /user/redeem waited and whoever was given its address since.
THEOREM InvitesAreTheirHolders == AdminSpec => []RedeemedByItsInvite
<1>1. AdminInv => RedeemedByItsInvite
  BY DEF AdminInv, KeysOK, RedeemedByItsInvite, Rows
<1>. QED  BY <1>1, AdminInvInit, AdminInvStep, PTL DEF AdminSpec

\* What a step does to the disabled flag of a peer that has a row.
ComesBack(p) == peer[p].disabled /\ peer'[p] # NoPeer /\ ~ peer'[p].disabled

\* Of what is done to rows only an update enables one.
LEMMA DoPeerEnables ==
  ASSUME DirInv, NEW w, DoPeer(w), NEW p \in Rows, ComesBack(p)
  PROVE  w.do = "updatePeer" /\ w.id = p /\ ~ w.disabled
<1>0. /\ p \in 1 .. MaxPeer
      /\ peer \in [1 .. MaxPeer -> PeerRow]
  BY DEF DirInv, TypeOK, Rows, PeerRow
<1>1. CASE CreatePeer(w.cidr, w.ip)
  <2>1. NewId \notin Rows
    BY <1>1, CreatePeerStep
  <2>2. peer'[p] = peer[p]
    BY <1>0, <1>1, <2>1 DEF CreatePeer
  <2>. QED  BY <2>2 DEF ComesBack
<1>2. ASSUME NEW id, NEW flag, UpdatePeer(id, flag) PROVE id = p /\ ~ flag
  <2>1. peer' = [peer EXCEPT ![id].disabled = flag] /\ id \in 1 .. MaxPeer
    BY <1>2 DEF UpdatePeer, Rows
  <2>2. peer'[p].disabled = IF p = id THEN flag ELSE peer[p].disabled
    BY <1>0, <2>1 DEF PeerRow
  <2>. QED  BY <2>2, Zenon DEF ComesBack
<1>. QED  BY <1>1, <1>2 DEF DoPeer

\* Whatever the steps of an administrator do, it is he who enables.
LEMMA AdminsEnable ==
  ASSUME AdminInv, NEW p \in Rows, ComesBack(p),
         \/ OperatorDoesCidr \/ OperatorDoesPeer
         \/ \E a \in Admins : Send(a) \/ Handle(a) \/ TimeOut(a)
  PROVE  \E a \in Commanders :
           /\ command[a].what.do = "updatePeer" /\ command[a].what.id = p
           /\ ~ command[a].what.disabled /\ command'[a] = NoCommand
<1>0. DirInv /\ CommandsOK /\ Server \in Commanders /\ Admins \subseteq Commanders
  BY DEF AdminInv, Commanders
<1>1. peer' # peer
  BY DEF ComesBack
<1>2. ASSUME NEW a \in Commanders, Set(a, NoCommand) PROVE command'[a] = NoCommand
  BY <1>0, <1>2 DEF Set, CommandsOK
<1>3. ASSUME NEW w, DoCidr(w) \/ DoAssociation(w) PROVE FALSE
  BY <1>1, <1>3 DEF DoCidr, DoAssociation, CreateCidr, DeleteCidr, Touch, tree, CreateAssociation, DeleteAssociation
<1>4. CASE OperatorDoesCidr
  BY <1>3, <1>4 DEF OperatorDoesCidr
<1>5. CASE OperatorDoesPeer
  <2>1. DoPeer(command[Server].what) /\ command'[Server] = NoCommand
    BY <1>0, <1>2, <1>5 DEF OperatorDoesPeer
  <2>. QED  BY <1>0, <2>1, DoPeerEnables
<1>6. ASSUME NEW a \in Admins, Send(a) \/ TimeOut(a) PROVE FALSE
  BY <1>1, <1>6 DEF Send, TimeOut, vars, tree
<1>7. ASSUME NEW a \in Admins, Handle(a)
      PROVE  /\ command[a].what.do = "updatePeer" /\ command[a].what.id = p
             /\ ~ command[a].what.disabled /\ command'[a] = NoCommand
  <2>1. Do(command[a].what) /\ command'[a] = NoCommand
    BY <1>0, <1>1, <1>2, <1>7 DEF Handle, vars, tree
  <2>2. DoPeer(command[a].what)
    BY <1>3, <2>1 DEF Do
  <2>. QED  BY <1>0, <2>1, <2>2, DoPeerEnables
<1>. QED  BY <1>0, <1>4, <1>5, <1>6, <1>7

\* No step of a peer's own client enables a row: its report writes the flag
\* back as the row has it now.
LEMMA PeersEnableNothing ==
  ASSUME AdminInv, NEW p \in Rows, ComesBack(p), NEW q \in 2 .. MaxPeer,
         SendRedeem(q) \/ SendReport(q) \/ HandleRedeem(q) \/ HandleReport(q) \/ ExpireInvite(q)
  PROVE  FALSE
<1>0. /\ p \in 1 .. MaxPeer /\ q \in 1 .. MaxPeer
      /\ peer \in [1 .. MaxPeer -> PeerRow]
  BY DirectoryAssumption DEF AdminInv, DirInv, TypeOK, Rows, PeerRow
<1>1. peer' # peer
  BY DEF ComesBack
<1>2. CASE RedeemPeer(q)
  <2>1. peer'[p].disabled = peer[p].disabled
    BY <1>0, <1>2 DEF RedeemPeer, PeerRow
  <2>. QED  BY <2>1 DEF ComesBack
<1>3. CASE UpdatePeer(q, peer[q].disabled)
  <2>1. peer'[p].disabled = peer[p].disabled
    BY <1>0, <1>3 DEF UpdatePeer, PeerRow
  <2>. QED  BY <2>1 DEF ComesBack
<1>4. CASE DeleteExpiredInvite(q)
  <2>1. peer'[p] = IF p = q THEN NoPeer ELSE peer[p]
    BY <1>0, <1>4 DEF DeleteExpiredInvite
  <2>. QED  BY <2>1 DEF ComesBack
<1>. QED
  BY <1>1, <1>2, <1>3, <1>4
  DEF SendRedeem, SendReport, HandleRedeem, HandleReport, ExpireInvite, SelectedPeer, vars, tree

\* A disabled peer comes back only when a command that says so is done; in
\* particular a late report of its own client does not bring it back.
THEOREM EnabledByAdminsOnly == AdminSpec => OnlyAdminEnables
<1>1. ASSUME AdminInv, [AdminNext]_allVars, NEW p \in Rows,
             peer[p].disabled /\ peer'[p] # NoPeer /\ ~ peer'[p].disabled
      PROVE  \E a \in Commanders :
               /\ command[a].what.do = "updatePeer" /\ command[a].what.id = p
               /\ ~ command[a].what.disabled /\ command'[a] = NoCommand
  <2>0. ComesBack(p)
    BY <1>1 DEF ComesBack
  <2>1. peer' # peer
    BY <1>1
  <2>2. ~ Commanding
    <3>. SUFFICES ASSUME Commanding PROVE FALSE
      OBVIOUS
    <3>1. UNCHANGED vars
      BY <1>1, CommandingOK DEF Commanding, AdminInv
    <3>. QED  BY <2>1, <3>1 DEF vars, tree
  <2>3. ~ UNCHANGED allVars
    BY <2>1 DEF allVars, vars, tree
  <2>. QED  BY <1>1, <2>0, <2>2, <2>3, AdminsEnable, PeersEnableNothing DEF AdminNext
<1>2. AdminInv /\ [AdminNext]_allVars =>
        [\A p \in Rows :
           peer[p].disabled /\ peer'[p] # NoPeer /\ ~ peer'[p].disabled =>
             \E a \in Commanders :
               /\ command[a].what.do = "updatePeer" /\ command[a].what.id = p
               /\ ~ command[a].what.disabled /\ command'[a] = NoCommand]_allVars
  BY <1>1
<1>. QED  BY <1>2, AdminInvInit, AdminInvStep, PTL DEF AdminSpec, OnlyAdminEnables
=============================================================================
