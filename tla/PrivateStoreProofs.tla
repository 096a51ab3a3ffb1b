------------------------- MODULE PrivateStoreProofs -------------------------
(***************************************************************************)
(* Proofs about PrivateStore, for any processes, saves and faults: what a  *)
(* process was told survives, an artifact that was exported stays, and the *)
(* store implements PrivateCell.                                           *)
(***************************************************************************)
EXTENDS PrivateStore, TLAPS

-----------------------------------------------------------------------------
(* The inductive invariant *)

Holding == {"held", "pending", "synced", "renamed", "created", "written"}

\* The lock is with the one process that is past `open`; a process that is
\* not has seen nothing yet.
LockHeld == \A p \in Procs :
  /\ h[p].pc \in Holding <=> lock = p
  /\ h[p].pc \notin Holding => h[p].seen = NoState
  /\ h[p].fresh => h[p].seen = NoState

\* At most two contents may survive a power loss, and a value is in the file
\* exactly when it has a generation.
TwoStable ==
  /\ state \in stable
  /\ \A s, t \in stable : s # state /\ t # state => s = t
  /\ \A s \in stable : /\ s.gen > 0 <=> s.val > 0
                       /\ s.val =< issued

\* What the owner knows is the file and nothing else can survive; or it knows
\* nothing; or the file is one generation ahead of what it knows, both may
\* survive, and it will not save again.
Known(p) ==
  \/ stable = {state} /\ h[p].seen \in {state, NoState}
  \/ /\ stable = {h[p].seen, state} /\ state.gen = h[p].seen.gen + 1
     /\ h[p].seen.gen > 0 \/ h[p].fresh
     /\ h[p].pc \notin {"pending", "synced"}

\* A save under way: before the rename the owner knows the file, and the new
\* value is newer than any that may survive; after it, the file is its own.
SaveUnderWay(p) ==
  /\ h[p].pc \in {"pending", "synced"} =>
       /\ h[p].seen = state /\ (h[p].seen.gen > 0 \/ h[p].fresh)
       /\ h[p].next =< issued /\ \A s \in stable : s.val < h[p].next
  /\ h[p].pc = "renamed" =>
       state = Written(p) /\ stable = {h[p].seen, state} /\ h[p].next > 0

\* An export under way is the first one, and what it has written is what the
\* owner knows.
ExportUnderWay(p) ==
  /\ h[p].pc \in {"created", "written"} => exported = 0
  /\ h[p].pc = "written" => art = h[p].seen.val

OwnerInv(p) == Known(p) /\ SaveUnderWay(p) /\ ExportUnderWay(p)

StoreInv ==
  /\ TypeOK /\ LockHeld /\ TwoStable
  /\ \A p \in Procs : lock = p => OwnerInv(p)
  /\ ExportedStays

-----------------------------------------------------------------------------
(* A step of one handle *)

\* The handle of p is now this one and the others are as they were.
Moved(p, pc, fresh, seen, next) ==
  /\ h' \in [Procs -> Handles]
  /\ h'[p].pc = pc /\ h'[p].fresh = fresh /\ h'[p].seen = seen /\ h'[p].next = next
  /\ \A q \in Procs : q # p => h'[q] = h[q]

\* The first values are typed.
LEMMA Constants == NoState \in Envelopes /\ Closed \in Handles
  BY StoreAssumption DEF NoState, Envelopes, Closed, Handles, Places

\* A step inside a call moves the handle alone.
LEMMA GotoMoves ==
  ASSUME TypeOK, NEW p \in Procs, NEW pc \in Places, Goto(p, pc)
  PROVE  Moved(p, pc, h[p].fresh, h[p].seen, h[p].next)
  BY DEF TypeOK, Goto, Moved, Handles

\* A handle that is dropped.
LEMMA CloseMoves ==
  ASSUME TypeOK, NEW p \in Procs, h' = [h EXCEPT ![p] = Closed]
  PROVE  Moved(p, "out", FALSE, NoState, 0)
<1>1. h' \in [Procs -> Handles]
  BY Constants DEF TypeOK
<1>2. h'[p] = Closed /\ \A q \in Procs : q # p => h'[q] = h[q]
  BY DEF TypeOK
<1> QED
  BY <1>1, <1>2 DEF Moved, Closed

\* Where nobody moves past or out of `open`, the lock stays where it was.
LEMMA LockStays ==
  ASSUME TypeOK, LockHeld, NEW p \in Procs, NEW pc, NEW fresh, NEW seen, NEW next,
         Moved(p, pc, fresh, seen, next), lock' = lock,
         pc \in Holding <=> lock = p,
         pc \notin Holding \/ fresh => seen = NoState
  PROVE  LockHeld'
<1> SUFFICES ASSUME NEW q \in Procs
             PROVE  /\ h'[q].pc \in Holding <=> lock = q
                    /\ h'[q].pc \notin Holding => h'[q].seen = NoState
                    /\ h'[q].fresh => h'[q].seen = NoState
  BY DEF LockHeld
<1>1. CASE q = p
  BY <1>1 DEF Moved
<1>2. CASE q # p
  BY <1>2 DEF Moved, LockHeld
<1> QED
  BY <1>1, <1>2

\* The files and what was promised about them.
files == <<state, stable, art, stableArt, issued, exported>>

\* A step of a process that has not got the lock, and does not get it.
LEMMA OutsideStep ==
  ASSUME StoreInv, NEW p \in Procs, NEW pc, NEW fresh, NEW next,
         Moved(p, pc, fresh, NoState, next),
         pc \notin Holding, h[p].pc \notin Holding,
         UNCHANGED <<files, lock>>, dir' \in BOOLEAN, faults' \in 0 .. MaxFaults
  PROVE  StoreInv'
<1>1. TypeOK'
  BY DEF StoreInv, TypeOK, Moved, files
<1>2. LockHeld'
  BY LockStays DEF StoreInv, LockHeld
<1>3. TwoStable' /\ ExportedStays'
  BY DEF StoreInv, TwoStable, ExportedStays, files
<1>4. ASSUME NEW q \in Procs, lock' = q PROVE OwnerInv(q)'
  <2>1. q # p /\ OwnerInv(q)
    BY <1>4 DEF StoreInv, LockHeld
  <2>2. h'[q] = h[q]
    BY <2>1 DEF Moved
  <2> QED
    BY <2>1, <2>2 DEF OwnerInv, Known, SaveUnderWay, ExportUnderWay, Written, files
<1> QED
  BY <1>1, <1>2, <1>3, <1>4 DEF StoreInv

\* The owner goes: nobody has the lock, and the files are as they were.
LEMMA OwnerLeaves ==
  ASSUME StoreInv, NEW p \in Procs, Moved(p, "out", FALSE, NoState, 0),
         lock = p, lock' = 0,
         UNCHANGED <<files, dir>>, faults' \in 0 .. MaxFaults
  PROVE  StoreInv'
<1>1. TypeOK'
  BY DEF StoreInv, TypeOK, Moved, files
<1>2. LockHeld'
  <2> SUFFICES ASSUME NEW q \in Procs
               PROVE  /\ h'[q].pc \notin Holding /\ q # 0
                      /\ h'[q].seen = NoState
    BY DEF LockHeld
  <2>1. q # 0
    BY StoreAssumption
  <2>2. CASE q = p
    BY <2>1, <2>2 DEF Moved, Holding
  <2>3. CASE q # p
    BY <2>1, <2>3 DEF Moved, StoreInv, LockHeld
  <2> QED
    BY <2>2, <2>3
<1>3. TwoStable' /\ ExportedStays'
  BY DEF StoreInv, TwoStable, ExportedStays, files
<1> QED
  BY <1>1, <1>2, <1>3, StoreAssumption DEF StoreInv

\* A step of the owner: what has to be shown is about it alone.
LEMMA OwnerStep ==
  ASSUME StoreInv, NEW p \in Procs, NEW pc \in Holding, NEW fresh, NEW seen, NEW next,
         Moved(p, pc, fresh, seen, next), fresh => seen = NoState,
         lock = p, lock' = p,
         TypeOK', TwoStable', OwnerInv(p)', ExportedStays'
  PROVE  StoreInv'
<1>1. LockHeld'
  BY LockStays DEF StoreInv
<1> QED
  BY <1>1 DEF StoreInv

\* `open` and `load` keep the invariant.
LEMMA OpeningStep ==
  ASSUME StoreInv, NEW p \in Procs, Opening(p)
  PROVE  StoreInv'
<1>0. /\ TypeOK /\ faults \in 0 .. MaxFaults /\ dir \in BOOLEAN
      /\ h[p].pc \notin Holding => h[p].seen = NoState
  BY DEF StoreInv, TypeOK, LockHeld
<1>1. CASE OpenDirectory(p)
  <2> DEFINE pc == IF dir THEN "lock" ELSE "mkdir"
  <2>1. pc \in Places /\ pc \notin Holding /\ Goto(p, pc) /\ h[p].pc \notin Holding
    BY <1>1 DEF OpenDirectory, Places, Holding
  <2>2. Moved(p, pc, h[p].fresh, NoState, h[p].next)
    BY <1>0, <2>1, GotoMoves
  <2>3. UNCHANGED <<files, lock>> /\ dir' \in BOOLEAN /\ faults' \in 0 .. MaxFaults
    BY <1>0, <1>1 DEF OpenDirectory, files, disk
  <2> QED
    BY <2>1, <2>2, <2>3, OutsideStep
<1>2. CASE MakeDirectory(p)
  <2>1. "lock" \notin Holding /\ h[p].pc \notin Holding
    BY <1>2 DEF MakeDirectory, Holding
  <2>2. Moved(p, "lock", ~ dir, NoState, h[p].next)
    BY <1>0, <1>2, <2>1 DEF TypeOK, MakeDirectory, Moved, Handles, Places
  <2>3. UNCHANGED <<files, lock>> /\ dir' \in BOOLEAN /\ faults' \in 0 .. MaxFaults
    BY <1>0, <1>2 DEF MakeDirectory, files
  <2> QED
    BY <2>1, <2>2, <2>3, OutsideStep
<1>3. CASE Lock(p)
  <2>1. h[p].pc \notin Holding /\ "held" \in Holding /\ "held" \in Places
    BY <1>3 DEF Lock, Holding, Places
  <2>2. Moved(p, "held", h[p].fresh, NoState, h[p].next)
    BY <1>0, <1>3, <2>1, GotoMoves DEF Lock
  <2>3. TypeOK'
    <3>1. stable' \subseteq Envelopes /\ stableArt' \subseteq -1 .. MaxValue
      BY <1>0, <1>3, StoreAssumption DEF Lock, OpenSyncs, TypeOK
    <3> QED
      BY <1>0, <1>3, <2>2, <3>1 DEF Lock, TypeOK, Moved
  <2>4. TwoStable'
    BY <1>3 DEF StoreInv, TwoStable, Lock, OpenSyncs
  <2>5. ExportedStays'
    BY <1>3 DEF StoreInv, ExportedStays, Lock
  <2>6. OwnerInv(p)'
    BY <1>3, <2>2 DEF OwnerInv, Known, SaveUnderWay, ExportUnderWay, Lock, OpenSyncs, Moved
  <2>7. LockHeld'
    <3> SUFFICES ASSUME NEW q \in Procs
                 PROVE  /\ h'[q].pc \in Holding <=> q = p
                        /\ h'[q].seen = NoState
      BY <1>3 DEF LockHeld, Lock
    <3>1. CASE q = p
      BY <2>1, <2>2, <3>1 DEF Moved
    <3>2. CASE q # p
      BY <1>3, <2>2, <3>2, StoreAssumption DEF Moved, StoreInv, LockHeld, Lock
    <3> QED
      BY <3>1, <3>2
  <2> QED
    BY <1>3, <2>3, <2>4, <2>5, <2>6, <2>7 DEF StoreInv, Lock
<1>4. CASE Busy(p)
  <2>1. h[p].pc \notin Holding /\ "out" \notin Holding
    BY <1>4 DEF Busy, Holding
  <2>2. Moved(p, "out", FALSE, NoState, 0)
    BY <1>0, <1>4, CloseMoves DEF Busy
  <2>3. UNCHANGED <<files, lock>> /\ dir' \in BOOLEAN /\ faults' \in 0 .. MaxFaults
    BY <1>0, <1>4 DEF Busy, files, disk
  <2> QED
    BY <2>1, <2>2, <2>3, OutsideStep
<1>5. CASE Drop(p)
  <2>1. lock = p
    BY <1>5 DEF Drop, StoreInv, LockHeld, Holding
  <2>2. Moved(p, "out", FALSE, NoState, 0)
    BY <1>0, <1>5, CloseMoves DEF Drop
  <2>3. UNCHANGED <<files, dir>> /\ faults' \in 0 .. MaxFaults
    BY <1>0, <1>5 DEF Drop, files, disk
  <2> QED
    BY <1>5, <2>1, <2>2, <2>3, OwnerLeaves DEF Drop
<1> QED
  BY <1>1, <1>2, <1>3, <1>4, <1>5 DEF Opening

\* The system calls of `save` keep the invariant.
LEMMA SavingStep ==
  ASSUME StoreInv, NEW p \in Procs, Saving(p)
  PROVE  StoreInv'
<1>0. /\ TypeOK /\ TwoStable /\ ExportedStays
      /\ h[p] \in Handles
      /\ h[p].fresh => h[p].seen = NoState
  BY DEF StoreInv, TypeOK, LockHeld
<1>1. lock = p /\ OwnerInv(p)
  BY DEF Saving, Load, SaveStart, SaveWrite, SaveRename, SaveFinish, StoreInv, LockHeld, Holding
<1>2. CASE Load(p)
  <2>1. /\ "held" \in Holding /\ h[p].pc = "held"
        /\ UNCHANGED <<files, dir, lock, faults>>
    BY <1>2 DEF Load, Holding, files, disk
  <2>2. Moved(p, "held", FALSE, state, h[p].next)
    BY <1>0, <1>2 DEF TypeOK, Load, Moved, Handles, Places
  <2>3. TypeOK' /\ TwoStable' /\ ExportedStays'
    BY <1>0, <2>1, <2>2 DEF TypeOK, TwoStable, ExportedStays, Moved, files
  <2>4. stable = {state}
    BY <1>1, <1>2 DEF OwnerInv, Known, Load, NoState
  <2>5. OwnerInv(p)'
    BY <1>1, <2>1, <2>2, <2>4 DEF OwnerInv, Known, SaveUnderWay, ExportUnderWay, Moved, files
  <2> QED
    BY <1>1, <2>1, <2>2, <2>3, <2>5, OwnerStep
<1>3. CASE SaveStart(p)
  <2>1. /\ "pending" \in Holding /\ h[p].pc = "held"
        /\ UNCHANGED <<disk, lock, exported, faults>>
        /\ issued \in 0 .. MaxValue /\ issued + 1 \in 0 .. MaxValue /\ issued' = issued + 1
    BY <1>0, <1>3, StoreAssumption DEF SaveStart, Holding, TypeOK
  <2>2. Moved(p, "pending", h[p].fresh, h[p].seen, issued + 1)
    BY <1>0, <1>3, <2>1 DEF TypeOK, SaveStart, Moved, Handles, Places
  <2>3. TypeOK' /\ ExportedStays'
    BY <1>0, <2>1, <2>2 DEF TypeOK, ExportedStays, Moved, disk
  <2>4. stable = {state} /\ h[p].seen = state /\ (h[p].seen.gen > 0 \/ h[p].fresh)
    <3>1. h[p].seen = state /\ (h[p].seen.gen > 0 \/ h[p].fresh)
      BY <1>0, <1>3 DEF SaveStart, MaySave
    <3>2. state.gen \in Nat
      BY <1>0 DEF TypeOK, Envelopes
    <3> QED
      BY <1>1, <3>1, <3>2 DEF OwnerInv, Known
  <2>5. \A s \in stable : s.val \in Nat /\ s.val =< issued
    BY <1>0 DEF TypeOK, TwoStable, Envelopes
  <2>6. TwoStable'
    BY <1>0, <2>1, <2>5 DEF TwoStable, disk
  <2>7. OwnerInv(p)'
    BY <1>1, <2>1, <2>2, <2>4, <2>5 DEF OwnerInv, Known, SaveUnderWay, ExportUnderWay, Moved, disk
  <2> QED
    BY <1>0, <1>1, <2>1, <2>2, <2>3, <2>6, <2>7, OwnerStep
<1>4. CASE SaveWrite(p)
  <2>1. /\ "synced" \in Holding /\ "synced" \in Places /\ h[p].pc = "pending"
        /\ UNCHANGED <<files, dir, lock, faults>>
    BY <1>4 DEF SaveWrite, Holding, Places, files, disk
  <2>2. Moved(p, "synced", h[p].fresh, h[p].seen, h[p].next)
    BY <1>0, <1>4, <2>1, GotoMoves DEF SaveWrite
  <2>3. TypeOK' /\ TwoStable' /\ ExportedStays'
    BY <1>0, <2>1, <2>2 DEF TypeOK, TwoStable, ExportedStays, Moved, files
  <2>4. OwnerInv(p)'
    BY <1>1, <2>1, <2>2 DEF OwnerInv, Known, SaveUnderWay, ExportUnderWay, Moved, files
  <2> QED
    BY <1>0, <1>1, <2>1, <2>2, <2>3, <2>4, OwnerStep
<1>5. Written(p) \in Envelopes
  BY <1>0 DEF Written, Handles, Envelopes
<1>6. CASE SaveRename(p)
  <2>1. /\ "renamed" \in Holding /\ "renamed" \in Places /\ h[p].pc = "synced"
        /\ UNCHANGED <<dir, art, stableArt, lock, issued, exported, faults>>
        /\ state' = Written(p) /\ stable' = stable \cup {Written(p)}
    BY <1>6 DEF SaveRename, Holding, Places
  <2>2. Moved(p, "renamed", h[p].fresh, h[p].seen, h[p].next)
    BY <1>0, <1>6, <2>1, GotoMoves DEF SaveRename
  <2>3. TypeOK' /\ ExportedStays'
    BY <1>0, <1>5, <2>1, <2>2 DEF TypeOK, ExportedStays, Moved
  <2>4. /\ stable = {state} /\ h[p].seen = state
        /\ state.val < h[p].next /\ h[p].next =< issued
    BY <1>1, <2>1 DEF OwnerInv, Known, SaveUnderWay
  <2>5. state.gen \in Nat /\ state.val \in Nat /\ h[p].next \in Nat
    BY <1>0 DEF TypeOK, Envelopes, Handles
  <2>6. /\ Written(p).gen = state.gen + 1 /\ Written(p).val = h[p].next
        /\ Written(p).gen > 0 /\ Written(p).val > 0
    BY <2>4, <2>5 DEF Written
  <2>7. TwoStable'
    BY <1>0, <2>1, <2>4, <2>6 DEF TwoStable
  <2>8. Written(p)' = Written(p)
    BY <2>2 DEF Written, Moved
  <2>9. h[p].seen.gen > 0 \/ h[p].fresh
    BY <1>1, <2>1 DEF OwnerInv, SaveUnderWay
  <2>10. OwnerInv(p)'
    <3>1. Known(p)'
      BY <2>1, <2>2, <2>4, <2>6, <2>9 DEF Known, Moved
    <3>2. SaveUnderWay(p)'
      BY <2>1, <2>2, <2>4, <2>5, <2>6, <2>8 DEF SaveUnderWay, Moved
    <3>3. ExportUnderWay(p)'
      BY <2>1, <2>2 DEF ExportUnderWay, Moved
    <3> QED
      BY <3>1, <3>2, <3>3 DEF OwnerInv
  <2> QED
    BY <1>0, <1>1, <2>1, <2>2, <2>3, <2>7, <2>10, OwnerStep
<1>7. CASE SaveFinish(p)
  <2>1. /\ "held" \in Holding /\ h[p].pc = "renamed"
        /\ UNCHANGED <<dir, state, art, stableArt, lock, issued, exported, faults>>
        /\ stable' = {state}
    BY <1>7 DEF SaveFinish, Holding
  <2>2. Moved(p, "held", FALSE, Written(p), 0)
    <3> DEFINE r == [pc |-> "held", fresh |-> FALSE, seen |-> Written(p), next |-> 0]
    <3>1. r \in Handles
      BY <1>5, StoreAssumption DEF Handles, Places
    <3>2. h' = [h EXCEPT ![p] = r]
      BY <1>7 DEF SaveFinish
    <3> QED
      BY <1>0, <3>1, <3>2 DEF TypeOK, Moved
  <2>3. state = Written(p)
    BY <1>1, <2>1 DEF OwnerInv, SaveUnderWay
  <2>4. TypeOK' /\ TwoStable' /\ ExportedStays'
    BY <1>0, <2>1, <2>2 DEF TypeOK, TwoStable, ExportedStays, Moved
  <2>5. OwnerInv(p)'
    BY <2>1, <2>2, <2>3 DEF OwnerInv, Known, SaveUnderWay, ExportUnderWay, Moved
  <2> QED
    BY <1>1, <2>1, <2>2, <2>4, <2>5, OwnerStep
<1> QED
  BY <1>2, <1>3, <1>4, <1>6, <1>7 DEF Saving

\* The system calls of an export keep the invariant.
LEMMA ExportingStep ==
  ASSUME StoreInv, NEW p \in Procs, Exporting(p)
  PROVE  StoreInv'
<1>0. /\ TypeOK /\ TwoStable /\ ExportedStays
      /\ h[p] \in Handles
      /\ h[p].fresh => h[p].seen = NoState
  BY DEF StoreInv, TypeOK, LockHeld
<1>1. lock = p /\ OwnerInv(p)
  BY DEF Exporting, ExportCreate, ExportWrite, ExportFinish, StoreInv, LockHeld, Holding
<1>2. h[p].seen.val \in 0 .. MaxValue
  BY <1>0 DEF Handles, Envelopes
<1>3. ASSUME UNCHANGED <<state, stable, issued>>, NEW pc, h[p].pc \in {"held", "created", "written"},
             Moved(p, pc, h[p].fresh, h[p].seen, h[p].next), pc \in {"held", "created", "written"}
      PROVE  TwoStable' /\ Known(p)' /\ SaveUnderWay(p)'
  BY <1>0, <1>1, <1>3 DEF OwnerInv, Known, SaveUnderWay, Moved, TwoStable
<1>4. CASE ExportCreate(p)
  <2>1. /\ "created" \in Holding /\ "created" \in Places /\ h[p].pc = "held"
        /\ UNCHANGED <<dir, state, stable, lock, issued, exported, faults>>
        /\ art = 0 /\ art' = -1 /\ stableArt' = stableArt \cup {-1}
    BY <1>4 DEF ExportCreate, ExportNew, Holding, Places
  <2>2. Moved(p, "created", h[p].fresh, h[p].seen, h[p].next)
    BY <1>0, <1>4, <2>1, GotoMoves DEF ExportCreate
  <2>3. TypeOK'
    <3>1. art' \in -1 .. MaxValue /\ stableArt' \subseteq -1 .. MaxValue
      BY <1>0, <2>1, StoreAssumption DEF TypeOK
    <3> QED
      BY <1>0, <2>1, <2>2, <3>1 DEF TypeOK, Moved
  <2>4. exported = 0
    BY <1>0, <2>1 DEF ExportedStays
  <2>5. ExportedStays' /\ ExportUnderWay(p)'
    BY <2>1, <2>2, <2>4 DEF ExportedStays, ExportUnderWay, Moved
  <2> QED
    BY <1>0, <1>1, <1>3, <2>1, <2>2, <2>3, <2>5, OwnerStep DEF OwnerInv
<1>5. CASE ExportWrite(p)
  <2>1. /\ "written" \in Holding /\ "written" \in Places /\ h[p].pc = "created"
        /\ UNCHANGED <<dir, state, stable, lock, issued, exported, faults>>
        /\ art' = h[p].seen.val /\ stableArt' = stableArt \cup {h[p].seen.val}
    BY <1>5 DEF ExportWrite, Holding, Places
  <2>2. Moved(p, "written", h[p].fresh, h[p].seen, h[p].next)
    BY <1>0, <1>5, <2>1, GotoMoves DEF ExportWrite
  <2>3. TypeOK'
    <3>1. art' \in -1 .. MaxValue /\ stableArt' \subseteq -1 .. MaxValue
      <4>1. h[p].seen.val \in -1 .. MaxValue
        BY <1>2, StoreAssumption
      <4> QED
        BY <1>0, <2>1, <4>1 DEF TypeOK
    <3> QED
      BY <1>0, <2>1, <2>2, <3>1 DEF TypeOK, Moved
  <2>4. exported = 0
    BY <1>1, <2>1 DEF OwnerInv, ExportUnderWay
  <2>5. ExportedStays' /\ ExportUnderWay(p)'
    BY <2>1, <2>2, <2>4 DEF ExportedStays, ExportUnderWay, Moved
  <2> QED
    BY <1>0, <1>1, <1>3, <2>1, <2>2, <2>3, <2>5, OwnerStep DEF OwnerInv
<1>6. CASE ExportFinish(p)
  <2>1. /\ "held" \in Holding /\ "held" \in Places /\ h[p].pc = "written"
        /\ UNCHANGED <<dir, state, stable, art, lock, issued, faults>>
        /\ stableArt' = {art} /\ exported' = art
    BY <1>6 DEF ExportFinish, Holding, Places
  <2>2. Moved(p, "held", h[p].fresh, h[p].seen, h[p].next)
    BY <1>0, <1>6, <2>1, GotoMoves DEF ExportFinish
  <2>3. art = h[p].seen.val
    BY <1>1, <2>1 DEF OwnerInv, ExportUnderWay
  <2>4. TypeOK'
    <3>1. exported' \in 0 .. MaxValue /\ stableArt' \subseteq -1 .. MaxValue
      BY <1>0, <1>2, <2>1, <2>3, StoreAssumption DEF TypeOK
    <3> QED
      BY <1>0, <2>1, <2>2, <3>1 DEF TypeOK, Moved
  <2>5. ExportedStays' /\ ExportUnderWay(p)'
    BY <2>1, <2>2 DEF ExportedStays, ExportUnderWay, Moved
  <2> QED
    BY <1>0, <1>1, <1>3, <2>1, <2>2, <2>4, <2>5, OwnerStep DEF OwnerInv
<1> QED
  BY <1>4, <1>5, <1>6 DEF Exporting

\* A call that fails, and a process that dies, keep the invariant.
LEMMA FailingStep ==
  ASSUME StoreInv, NEW p \in Procs, Failing(p)
  PROVE  StoreInv'
<1>0. /\ TypeOK /\ TwoStable /\ ExportedStays
      /\ h[p] \in Handles
      /\ h[p].pc \in Holding <=> lock = p
      /\ h[p].pc \notin Holding \/ h[p].fresh => h[p].seen = NoState
  BY DEF StoreInv, TypeOK, LockHeld
<1>1. faults' \in 0 .. MaxFaults
  BY <1>0, StoreAssumption DEF Failing, SaveFails, ExportFails, Kill, TypeOK
<1>2. ASSUME lock = p, UNCHANGED <<files, dir, lock>>, NEW next,
             Moved(p, "held", h[p].fresh, h[p].seen, next)
      PROVE  StoreInv'
  <2>1. OwnerInv(p)
    BY <1>2 DEF StoreInv
  <2>2. TypeOK' /\ TwoStable' /\ ExportedStays'
    BY <1>0, <1>1, <1>2 DEF TypeOK, TwoStable, ExportedStays, Moved, files
  <2>3. OwnerInv(p)'
    BY <1>2, <2>1 DEF OwnerInv, Known, SaveUnderWay, ExportUnderWay, Moved, files
  <2>4. "held" \in Holding
    BY DEF Holding
  <2> QED
    BY <1>0, <1>2, <2>2, <2>3, <2>4, OwnerStep
<1>3. CASE SaveFails(p)
  <2>1. lock = p
    BY <1>0, <1>3 DEF SaveFails, Holding
  <2>2. Moved(p, "held", h[p].fresh, h[p].seen, 0)
    <3>1. h' = [h EXCEPT ![p].pc = "held", ![p].next = 0] /\ 0 \in 0 .. MaxValue
      BY <1>3, StoreAssumption DEF SaveFails
    <3> QED
      BY <1>0, <3>1 DEF TypeOK, Moved, Handles, Places
  <2>3. UNCHANGED <<files, dir, lock>>
    BY <1>3 DEF SaveFails, files, disk
  <2> QED
    BY <1>2, <2>1, <2>2, <2>3
<1>4. CASE ExportFails(p)
  <2>1. lock = p
    BY <1>0, <1>4 DEF ExportFails, Holding
  <2>2. "held" \in Places
    BY DEF Places
  <2>3. Moved(p, "held", h[p].fresh, h[p].seen, h[p].next)
    BY <1>0, <1>4, <2>2, GotoMoves DEF ExportFails
  <2>4. UNCHANGED <<files, dir, lock>>
    BY <1>4 DEF ExportFails, files, disk
  <2> QED
    BY <1>2, <2>1, <2>3, <2>4
<1>5. CASE Kill(p)
  <2>1. Moved(p, "out", FALSE, NoState, 0)
    BY <1>0, <1>5, CloseMoves DEF Kill
  <2>2. UNCHANGED <<files, dir>>
    BY <1>5 DEF Kill, files, disk
  <2>3. CASE lock = p
    BY <1>1, <1>5, <2>1, <2>2, <2>3, OwnerLeaves DEF Kill
  <2>4. CASE lock # p
    <3>1. h[p].pc \notin Holding /\ "out" \notin Holding /\ lock' = lock
      BY <1>0, <1>5, <2>4 DEF Kill, Holding
    <3>2. dir' \in BOOLEAN
      BY <1>0, <2>2 DEF TypeOK
    <3> QED
      BY <1>1, <2>1, <2>2, <3>1, <3>2, OutsideStep
  <2> QED
    BY <2>3, <2>4
<1> QED
  BY <1>3, <1>4, <1>5 DEF Failing

\* A power loss leaves one of the stable values of each file.
LEMMA PowerLossStep ==
  ASSUME StoreInv, NEW s \in stable, NEW a \in stableArt, PowerLoss(s, a)
  PROVE  StoreInv'
<1>1. \A p \in Procs : h'[p] = Closed /\ lock' # p
  BY StoreAssumption DEF PowerLoss
<1>2. TypeOK'
  <2>1. h' \in [Procs -> Handles]
    BY Constants DEF PowerLoss
  <2>2. faults' \in 0 .. MaxFaults
    BY StoreAssumption DEF PowerLoss, StoreInv, TypeOK
  <2> QED
    BY <2>1, <2>2 DEF PowerLoss, StoreInv, TypeOK
<1>3. LockHeld'
  BY <1>1 DEF LockHeld, Holding, Closed
<1>4. TwoStable' /\ ExportedStays'
  BY DEF StoreInv, PowerLoss, TwoStable, ExportedStays
<1> QED
  BY <1>1, <1>2, <1>3, <1>4 DEF StoreInv

\* The base of the induction.
LEMMA StoreInvInit == Init => StoreInv
<1> SUFFICES ASSUME Init PROVE StoreInv
  OBVIOUS
<1>1. TypeOK
  <2>1. h \in [Procs -> Handles] /\ state \in Envelopes
    BY Constants DEF Init
  <2>2. 0 \in 0 .. MaxValue /\ 0 \in -1 .. MaxValue /\ 0 \in 0 .. MaxFaults
    BY StoreAssumption
  <2> QED
    BY <2>1, <2>2 DEF Init, TypeOK
<1>2. LockHeld
  BY StoreAssumption DEF Init, LockHeld, Closed, Holding
<1>3. TwoStable /\ ExportedStays
  BY DEF Init, TwoStable, ExportedStays, NoState
<1> QED
  BY <1>1, <1>2, <1>3, StoreAssumption DEF Init, StoreInv

\* The step of the induction.
LEMMA StoreInvStep == StoreInv /\ [Next]_vars => StoreInv'
<1> SUFFICES ASSUME StoreInv, [Next]_vars PROVE StoreInv'
  OBVIOUS
<1>1. CASE UNCHANGED vars
  BY <1>1 DEF vars, StoreInv, TypeOK, LockHeld, TwoStable, ExportedStays, OwnerInv, Known,
              SaveUnderWay, ExportUnderWay, Written
<1> QED
  BY <1>1, OpeningStep, SavingStep, ExportingStep, FailingStep, PowerLossStep DEF Next

\* Every variable keeps its type; in particular an artifact whose export came
\* to its end is a whole one.
THEOREM StoreTyped == Spec => []TypeOK
<1>1. StoreInv => TypeOK
  BY DEF StoreInv
<1> QED
  BY <1>1, StoreInvInit, StoreInvStep, PTL DEF Spec

\* A generation that `load` returned, or `save_checked` reported as saved, is
\* not undone by any power loss, for any number of processes, failures and
\* saves: a handle's generation changes only after the directory was synced.
THEOREM SeenIsDurable == Spec => []SeenSurvives
<1>1. StoreInv => SeenSurvives
  <2> SUFFICES ASSUME StoreInv, NEW p \in Procs, h[p].seen.gen > 0, NEW s \in stable
               PROVE  s.gen >= h[p].seen.gen
    BY DEF SeenSurvives
  <2>1. lock = p
    BY DEF StoreInv, LockHeld, NoState
  <2>2. Known(p)
    BY <2>1 DEF StoreInv, OwnerInv
  <2>3. s.gen \in Nat /\ state.gen \in Nat /\ h[p].seen.gen \in Nat
    BY DEF StoreInv, TypeOK, Handles, Envelopes
  <2> QED
    BY <2>2, <2>3 DEF Known, NoState
<1> QED
  BY <1>1, StoreInvInit, StoreInvStep, PTL DEF Spec

\* An artifact that `export` reported as written is not replaced, torn or
\* lost afterwards: its name is created with O_EXCL and synced before.
THEOREM ExportIsFinal == Spec => []ExportedStays
<1>1. StoreInv => ExportedStays
  BY DEF StoreInv
<1> QED
  BY <1>1, StoreInvInit, StoreInvStep, PTL DEF Spec

-----------------------------------------------------------------------------
(* The refinement of PrivateCell *)

LEMMA PreviousIs ==
  ASSUME TwoStable, NEW s, stable = {s, state}
  PROVE  Previous = s
<1>1. CASE s = state
  BY <1>1 DEF Previous
<1>2. CASE s # state
  <2>1. stable # {state} /\ s \in stable
    BY <1>2
  <2>2. \A t \in stable : t # state => t = s
    OBVIOUS
  <2> QED
    BY <1>2, <2>1, <2>2 DEF Previous
<1> QED
  BY <1>1, <1>2

\* What the map takes from the handles.
SeenVals == [p \in Procs |-> h[p].seen.val]

\* What the cell calls seen, after a handle moved.
LEMMA MovedSeen ==
  ASSUME NEW p \in Procs, NEW pc, NEW fresh, NEW seen, NEW next,
         Moved(p, pc, fresh, seen, next)
  PROVE  SeenVals' = [SeenVals EXCEPT ![p] = seen.val]
  BY DEF Moved, SeenVals

\* The cell does not change with the files as they are.
LEMMA SameFiles ==
  ASSUME UNCHANGED <<state, stable>>
  PROVE  UNCHANGED <<state.val, Previous.val>>
  BY DEF Previous

\* Every step of the store is a step of the cell or a stutter.
LEMMA CellStep ==
  ASSUME StoreInv, StoreInv', Next
  PROVE  [Cell!CellNext]_(Cell!cellVars)
<1> DEFINE c == state.val
           pv == Previous.val
           Learn(p) == c # 0 /\ pv' = c /\ SeenVals' = [SeenVals EXCEPT ![p] = c] /\ c' = c
           Replace(p) == SeenVals[p] = c /\ c' > c /\ pv' = c /\ SeenVals' = SeenVals
           Settle == pv' = c /\ c' = c /\ SeenVals' = SeenVals
           Forget(p) == SeenVals' = [SeenVals EXCEPT ![p] = 0] /\ c' = c /\ pv' = pv
           Loss == c' \in {c, pv} /\ pv' = c' /\ SeenVals' = [p \in Procs |-> 0]
           Same == c' = c /\ pv' = pv /\ SeenVals' = SeenVals
<1>1. ASSUME \/ \E p \in Procs : Learn(p) \/ Replace(p) \/ Forget(p)
             \/ Settle \/ Loss \/ Same
      PROVE  [Cell!CellNext]_(Cell!cellVars)
  BY <1>1 DEF Cell!CellNext, Cell!cellVars, Cell!Learn, Cell!Replace, Cell!Forget, Cell!Settle,
              Cell!PowerLoss, SeenVals
<1> HIDE DEF c, pv
<1>2. ASSUME UNCHANGED <<state, stable>> PROVE c' = c /\ pv' = pv
  BY <1>2, SameFiles DEF c, pv
<1>3. ASSUME NEW p \in Procs, NEW pc, NEW fresh, NEW next,
             Moved(p, pc, fresh, h[p].seen, next)
      PROVE  SeenVals' = SeenVals
  <2>1. \A q \in Procs : h'[q].seen = h[q].seen
    BY <1>3 DEF Moved
  <2> QED
    BY <2>1 DEF SeenVals
<1>4. ASSUME NEW p \in Procs, h' = [h EXCEPT ![p] = Closed], UNCHANGED <<state, stable>>
      PROVE  Forget(p)
  <2>1. SeenVals' = [SeenVals EXCEPT ![p] = NoState.val]
    BY <1>4, CloseMoves, MovedSeen DEF StoreInv
  <2> QED
    BY <1>2, <1>4, <2>1 DEF NoState
<1>5. TypeOK /\ TwoStable /\ TwoStable' /\ h \in [Procs -> Handles]
  BY DEF StoreInv, TypeOK
<1>6. ASSUME NEW p \in Procs, Opening(p) PROVE Settle \/ Same \/ Forget(p)
  <2>1. CASE OpenDirectory(p)
    <3>1. h' \in [Procs -> Handles] /\ UNCHANGED <<state, stable>>
      BY <2>1 DEF OpenDirectory, disk, StoreInv, TypeOK
    <3>2. Moved(p, IF dir THEN "lock" ELSE "mkdir", h[p].fresh, h[p].seen, h[p].next)
      BY <1>5, <2>1, <3>1 DEF OpenDirectory, Goto, Moved, Handles
    <3> QED
      BY <1>2, <1>3, <3>1, <3>2
  <2>2. CASE MakeDirectory(p)
    <3>1. h' \in [Procs -> Handles] /\ UNCHANGED <<state, stable>>
      BY <2>2 DEF MakeDirectory, StoreInv, TypeOK
    <3>2. Moved(p, "lock", ~ dir, h[p].seen, h[p].next)
      BY <1>5, <2>2, <3>1 DEF MakeDirectory, Moved, Handles
    <3> QED
      BY <1>2, <1>3, <3>1, <3>2
  <2>3. CASE Lock(p)
    <3>1. stable' = {state'} /\ state' = state /\ Goto(p, "held") /\ "held" \in Places
      BY <2>3 DEF Lock, OpenSyncs, Places
    <3>2. Moved(p, "held", h[p].fresh, h[p].seen, h[p].next)
      BY <1>5, <3>1, GotoMoves
    <3>3. pv' = c /\ c' = c
      BY <3>1 DEF pv, c, Previous
    <3> QED
      BY <1>3, <3>2, <3>3
  <2>4. CASE Busy(p)
    BY <1>4, <2>4 DEF Busy, disk
  <2>5. CASE Drop(p)
    BY <1>4, <2>5 DEF Drop, disk
  <2> QED
    BY <1>6, <2>1, <2>2, <2>3, <2>4, <2>5 DEF Opening
<1>7. ASSUME NEW p \in Procs, Saving(p) PROVE Learn(p) \/ Replace(p) \/ Same
  <2>0. OwnerInv(p)
    BY <1>7 DEF Saving, Load, SaveStart, SaveWrite, SaveRename, SaveFinish, StoreInv, LockHeld,
                Holding
  <2>1. h[p] \in Handles /\ state \in Envelopes /\ state \in stable
    BY DEF StoreInv, TypeOK, TwoStable
  <2>2. CASE Load(p)
    <3>1. stable = {state} /\ UNCHANGED <<state, stable>> /\ state.gen > 0
      BY <2>0, <2>2 DEF OwnerInv, Known, Load, NoState, disk
    <3>2. Moved(p, "held", FALSE, state, h[p].next)
      BY <1>5, <2>1, <2>2 DEF Load, Moved, Handles, Places
    <3>3. c # 0 /\ c' = c /\ pv' = c
      BY <1>5, <2>1, <3>1 DEF TwoStable, c, pv, Previous, Envelopes
    <3> QED
      BY <3>2, <3>3, MovedSeen DEF c
  <2>3. CASE SaveStart(p)
    <3>1. UNCHANGED <<state, stable>>
      BY <2>3 DEF SaveStart, disk
    <3>2. \A q \in Procs : h'[q].seen = h[q].seen
      BY <1>5, <2>3 DEF SaveStart, Handles
    <3>3. SeenVals' = SeenVals
      BY <3>2 DEF SeenVals
    <3> QED
      BY <1>2, <3>1, <3>3
  <2>4. CASE SaveWrite(p)
    <3>1. UNCHANGED <<state, stable>> /\ Goto(p, "synced") /\ "synced" \in Places
      BY <2>4 DEF SaveWrite, disk, Places
    <3> QED
      BY <1>2, <1>3, <1>5, <3>1, GotoMoves
  <2>5. CASE SaveRename(p)
    <3>1. /\ stable = {state} /\ h[p].seen = state /\ state.val < h[p].next
          /\ Goto(p, "renamed") /\ "renamed" \in Places
          /\ state' = Written(p) /\ stable' = {state, state'}
      BY <2>0, <2>1, <2>5 DEF SaveRename, OwnerInv, Known, SaveUnderWay, Places
    <3>2. pv' = c
      BY <1>5, <3>1, PreviousIs DEF pv, c, Previous, TwoStable
    <3>3. c' > c /\ SeenVals[p] = c
      BY <2>1, <3>1 DEF c, Written, SeenVals, Handles, Envelopes
    <3> QED
      BY <1>3, <1>5, <3>1, <3>2, <3>3, GotoMoves
  <2>6. CASE SaveFinish(p)
    <3>1. state = Written(p) /\ h[p].next > 0 /\ state' = state /\ stable' = {state'}
      BY <2>0, <2>6 DEF SaveFinish, OwnerInv, SaveUnderWay
    <3>2. h' \in [Procs -> Handles]
      BY DEF StoreInv, TypeOK
    <3>3. Moved(p, "held", FALSE, state, 0)
      BY <1>5, <2>6, <3>1, <3>2 DEF SaveFinish, Moved
    <3>4. c # 0 /\ c' = c /\ pv' = c
      BY <2>1, <3>1 DEF c, pv, Previous, Written, Handles
    <3> QED
      BY <3>3, <3>4, MovedSeen DEF c
  <2> QED
    BY <1>7, <2>2, <2>3, <2>4, <2>5, <2>6 DEF Saving
<1>8. ASSUME NEW p \in Procs, Exporting(p) PROVE Same
  <2>1. UNCHANGED <<state, stable>>
    BY <1>8 DEF Exporting, ExportCreate, ExportWrite, ExportFinish
  <2>2. \E pc \in Places : Goto(p, pc)
    BY <1>8 DEF Exporting, ExportCreate, ExportWrite, ExportFinish, Places
  <2> QED
    BY <1>2, <1>3, <1>5, <2>1, <2>2, GotoMoves
<1>9. ASSUME NEW p \in Procs, Failing(p) PROVE Same \/ Forget(p)
  <2>1. UNCHANGED <<state, stable>>
    BY <1>9 DEF Failing, SaveFails, ExportFails, Kill, disk
  <2>2. CASE SaveFails(p)
    <3>1. \A q \in Procs : h'[q].seen = h[q].seen
      BY <1>5, <2>2 DEF SaveFails, Handles
    <3>2. SeenVals' = SeenVals
      BY <3>1 DEF SeenVals
    <3> QED
      BY <1>2, <2>1, <3>2
  <2>3. CASE ExportFails(p)
    <3>1. Goto(p, "held") /\ "held" \in Places
      BY <2>3 DEF ExportFails, Places
    <3> QED
      BY <1>2, <1>3, <1>5, <2>1, <3>1, GotoMoves
  <2>4. CASE Kill(p)
    BY <1>4, <2>1, <2>4 DEF Kill
  <2> QED
    BY <1>9, <2>2, <2>3, <2>4 DEF Failing
<1>10. ASSUME NEW s \in stable, NEW a \in stableArt, PowerLoss(s, a) PROVE Loss
  <2>1. state' = s /\ stable' = {state'}
    BY <1>10 DEF PowerLoss
  <2>2. pv' = c'
    BY <2>1 DEF pv, c, Previous
  <2>3. s = state => c' = c
    BY <2>1 DEF c
  <2>4. ASSUME s # state PROVE c' = pv
    <3>1. stable = {s, state}
      BY <1>5, <2>4 DEF TwoStable
    <3> QED
      BY <1>5, <2>1, <3>1, PreviousIs DEF c, pv
  <2>5. SeenVals' = [p \in Procs |-> 0]
    <3>1. \A p \in Procs : h'[p].seen.val = 0
      BY <1>10 DEF PowerLoss, Closed, NoState
    <3> QED
      BY <3>1 DEF SeenVals
  <2> QED
    BY <2>2, <2>3, <2>4, <2>5
<1> QED
  BY <1>1, <1>6, <1>7, <1>8, <1>9, <1>10 DEF Next

\* The system calls of `save_checked`, of other commands and of a failure
\* together replace one value at once: Load and the end of a save are Learn,
\* the rename is Replace, taking the lock settles what an earlier owner left,
\* and everything else stutters or forgets.
THEOREM StoreImplementsCell == Spec => ImplementsCell
<1>1. Init => Cell!CellInit
  <2> SUFFICES ASSUME Init PROVE Cell!CellInit
    OBVIOUS
  <2>1. Previous = NoState
    BY DEF Init, Previous
  <2> QED
    BY <2>1 DEF Init, Cell!CellInit, Closed, NoState
<1>2. StoreInv /\ StoreInv' /\ [Next]_vars => [Cell!CellNext]_(Cell!cellVars)
  <2>1. UNCHANGED vars => UNCHANGED Cell!cellVars
    BY DEF vars, Cell!cellVars, Previous
  <2> QED
    BY <2>1, CellStep
<1> QED
  BY <1>1, <1>2, StoreInvInit, StoreInvStep, PTL DEF Spec, ImplementsCell, Cell!CellSpec
=============================================================================
