---------------------------- MODULE PrivateStore ----------------------------
(***************************************************************************)
(* The private store (pq/src/store.rs): a directory with a lock file, a    *)
(* state.json that is replaced by rename, and exported artifacts.          *)
(* Commands of one host share it.  A step is one system call that another  *)
(* process or a failure can come between.                                  *)
(*                                                                         *)
(* The file system: what processes see, and beside it the set of contents  *)
(* that a power loss may leave.  A renamed file is as complete as its last *)
(* sync; a new name in a directory is certain once the directory was       *)
(* synced.  Pending files that a dead process left are never looked at.    *)
(* Ownership, modes, links and sizes are right: the code refuses others.   *)
(***************************************************************************)
EXTENDS Integers

CONSTANTS
  Procs,     \* processes that open the store
  MaxValue,  \* bound: values saved
  MaxFaults  \* bound: I/O errors, dead processes, power losses

ASSUME StoreAssumption ==
  /\ Procs # {} /\ 0 \notin Procs
  /\ MaxValue \in Nat /\ MaxFaults \in Nat

VARIABLES
  dir,        \* the directory exists
  state,      \* state.json
  stable,     \* what a power loss may leave of state.json
  art,        \* the artifact: its content, 0 for no file, -1 for a torn one
  stableArt,  \* what a power loss may leave of it
  lock,       \* the process that holds owner.lock, 0 for none
  h,          \* per process, its handle and where it is in a call
  issued,     \* values saved so far: each save writes a new one
  exported,   \* the artifact whose export came to its end, 0 for none
  faults

vars == <<dir, state, stable, art, stableArt, lock, h, issued, exported, faults>>
disk == <<dir, state, stable, art, stableArt>>

NoState == [gen |-> 0, val |-> 0]
Closed  == [pc |-> "out", fresh |-> FALSE, seen |-> NoState, next |-> 0]

Envelopes == [gen : Nat, val : 0 .. MaxValue]
Places    == {"out", "mkdir", "lock", "held", "pending", "synced", "renamed", "created", "written"}
Handles   == [pc : Places, fresh : BOOLEAN, seen : Envelopes, next : 0 .. MaxValue]

Init ==
  /\ dir = FALSE /\ state = NoState /\ stable = {NoState}
  /\ art = 0 /\ stableArt = {0}
  /\ lock = 0 /\ h = [p \in Procs |-> Closed]
  /\ issued = 0 /\ exported = 0 /\ faults = 0

Goto(p, pc) == h' = [h EXCEPT ![p].pc = pc]

-----------------------------------------------------------------------------
(* `open` *)

\* The directory is there, or the process is about to make it.
OpenDirectory(p) ==
  /\ h[p].pc = "out"
  /\ Goto(p, IF dir THEN "lock" ELSE "mkdir")
  /\ UNCHANGED <<disk, lock, issued, exported, faults>>

\* `mkdirat` and the sync of its parent.  Only the process whose call made
\* the directory has a fresh store.
MakeDirectory(p) ==
  /\ h[p].pc = "mkdir"
  /\ dir' = TRUE
  /\ h' = [h EXCEPT ![p].pc = "lock", ![p].fresh = ~ dir]
  /\ UNCHANGED <<state, stable, art, stableArt, lock, issued, exported, faults>>

\* The directory is synced under the lock, so whatever an earlier owner left
\* half done is permanent before anybody reads it: names, that is, and state.json
\* whose data was synced before its rename.  An artifact's data is not synced.
\* Mutant of OpenSyncs: it is not.
OpenSyncsNothing(s, before) == before

OpenSyncs(s, before) == {s}

Lock(p) ==
  /\ h[p].pc = "lock" /\ lock = 0
  /\ lock' = p /\ Goto(p, "held")
  /\ stable' = OpenSyncs(state, stable)
  /\ stableArt' = IF art = 0 THEN {0} ELSE stableArt \ {0}
  /\ UNCHANGED <<dir, state, art, issued, exported, faults>>

\* Another process owns the interface.
Busy(p) ==
  /\ h[p].pc = "lock" /\ lock # 0
  /\ h' = [h EXCEPT ![p] = Closed]
  /\ UNCHANGED <<disk, lock, issued, exported, faults>>

\* The handle is dropped; the lock goes with it.
Drop(p) ==
  /\ h[p].pc = "held"
  /\ h' = [h EXCEPT ![p] = Closed] /\ lock' = 0
  /\ UNCHANGED <<disk, issued, exported, faults>>

-----------------------------------------------------------------------------
(* `load` and `save_checked` *)

\* A missing file is Corrupt, and changes nothing.  Every caller loads
\* once, right after it opened a store that is not fresh.
Load(p) ==
  /\ h[p].pc = "held" /\ ~ h[p].fresh /\ h[p].seen = NoState
  /\ state.gen > 0
  /\ h' = [h EXCEPT ![p].seen = state, ![p].fresh = FALSE]
  /\ UNCHANGED <<disk, lock, issued, exported, faults>>

\* A fresh store has no file yet.  Any other is as this handle last knew it,
\* by generation and by digest; a handle that loaded nothing saves nothing.
\* Mutant of MaySave: the file is not compared.
MaySaveAnyway(p) == IF h[p].fresh THEN state = NoState ELSE state.gen > 0 /\ h[p].seen.gen > 0

MaySave(p) ==
  IF h[p].fresh THEN state = NoState ELSE state.gen > 0 /\ h[p].seen = state

\* The checks, and the file under its pending name.
SaveStart(p) ==
  /\ h[p].pc = "held" /\ MaySave(p)
  /\ issued < MaxValue /\ issued' = issued + 1
  /\ h' = [h EXCEPT ![p].pc = "pending", ![p].next = issued + 1]
  /\ UNCHANGED <<disk, lock, exported, faults>>

SaveWrite(p) ==
  /\ h[p].pc = "pending"
  /\ Goto(p, "synced")
  /\ UNCHANGED <<disk, lock, issued, exported, faults>>

Written(p) == [gen |-> h[p].seen.gen + 1, val |-> h[p].next]

SaveRename(p) ==
  /\ h[p].pc = "synced"
  /\ state' = Written(p) /\ stable' = stable \cup {Written(p)}
  /\ Goto(p, "renamed")
  /\ UNCHANGED <<dir, art, stableArt, lock, issued, exported, faults>>

\* Only now does the handle take the new generation.
SaveFinish(p) ==
  /\ h[p].pc = "renamed"
  /\ stable' = {state}
  /\ h' = [h EXCEPT ![p] = [pc |-> "held", fresh |-> FALSE, seen |-> Written(p), next |-> 0]]
  /\ UNCHANGED <<dir, state, art, stableArt, lock, issued, exported, faults>>

\* A call fails.  The pending name is removed; after the rename it is gone,
\* the new state is in place, and the handle still has the old generation.
SaveFails(p) ==
  /\ h[p].pc \in {"pending", "synced", "renamed"}
  /\ faults < MaxFaults /\ faults' = faults + 1
  /\ h' = [h EXCEPT ![p].pc = "held", ![p].next = 0]
  /\ UNCHANGED <<disk, lock, issued, exported>>

-----------------------------------------------------------------------------
(* `export` of one artifact, under a name that is always the same *)

\* Mutant of ExportNew: an existing file is truncated.
ExportNewAlways(p) == TRUE

ExportNew(p) == art = 0

ExportCreate(p) ==
  /\ h[p].pc = "held" /\ h[p].seen.val > 0 /\ ExportNew(p)
  /\ art' = -1 /\ stableArt' = stableArt \cup {-1}
  /\ Goto(p, "created")
  /\ UNCHANGED <<dir, state, stable, lock, issued, exported, faults>>

ExportWrite(p) ==
  /\ h[p].pc = "created"
  /\ art' = h[p].seen.val /\ stableArt' = stableArt \cup {h[p].seen.val}
  /\ Goto(p, "written")
  /\ UNCHANGED <<dir, state, stable, lock, issued, exported, faults>>

\* The syncs of the file and of the directory.
ExportFinish(p) ==
  /\ h[p].pc = "written"
  /\ stableArt' = {art} /\ exported' = art
  /\ Goto(p, "held")
  /\ UNCHANGED <<dir, state, stable, art, lock, issued, faults>>

\* The write or a sync fails: the file stays, whole or torn.  The next export
\* is told of a success for the same bytes and a Conflict for others, and
\* changes nothing.
ExportFails(p) ==
  /\ h[p].pc \in {"created", "written"}
  /\ faults < MaxFaults /\ faults' = faults + 1
  /\ Goto(p, "held")
  /\ UNCHANGED <<disk, lock, issued, exported>>

-----------------------------------------------------------------------------
(* Failures *)

\* The kernel closes what the process had open.  The files stay as they are.
Kill(p) ==
  /\ h[p].pc # "out" /\ faults < MaxFaults /\ faults' = faults + 1
  /\ h' = [h EXCEPT ![p] = Closed]
  /\ lock' = IF lock = p THEN 0 ELSE lock
  /\ UNCHANGED <<disk, issued, exported>>

PowerLoss(s, a) ==
  /\ faults < MaxFaults /\ faults' = faults + 1
  /\ s \in stable /\ a \in stableArt
  /\ state' = s /\ stable' = {s} /\ art' = a /\ stableArt' = {a}
  /\ lock' = 0 /\ h' = [p \in Procs |-> Closed]
  /\ UNCHANGED <<dir, issued, exported>>

-----------------------------------------------------------------------------
Opening(p) == OpenDirectory(p) \/ MakeDirectory(p) \/ Lock(p) \/ Busy(p) \/ Drop(p)
Saving(p)  == Load(p) \/ SaveStart(p) \/ SaveWrite(p) \/ SaveRename(p) \/ SaveFinish(p)
Exporting(p) == ExportCreate(p) \/ ExportWrite(p) \/ ExportFinish(p)
Failing(p) == SaveFails(p) \/ ExportFails(p) \/ Kill(p)

Next ==
  \/ \E p \in Procs : Opening(p) \/ Saving(p) \/ Exporting(p) \/ Failing(p)
  \/ \E s \in stable, a \in stableArt : PowerLoss(s, a)

Spec == Init /\ [][Next]_vars

-----------------------------------------------------------------------------
(* Properties *)

TypeOK ==
  /\ dir \in BOOLEAN
  /\ state \in Envelopes /\ stable \subseteq Envelopes
  /\ art \in -1 .. MaxValue /\ stableArt \subseteq -1 .. MaxValue
  /\ lock \in Procs \cup {0}
  /\ h \in [Procs -> Handles]
  /\ issued \in 0 .. MaxValue /\ exported \in 0 .. MaxValue /\ faults \in 0 .. MaxFaults

\* The value a power loss would leave, when it is not the one in sight.
Previous == IF stable = {state} THEN state ELSE CHOOSE s \in stable : s # state

Cell == INSTANCE PrivateCell WITH
  cell <- state.val, prev <- Previous.val, seen <- [p \in Procs |-> h[p].seen.val]

\* The store implements the cell: whole values, replaced only by a handle
\* that saw what it replaces, never taken back once a process was told.  In
\* particular a handle whose save failed after the rename does not save over
\* the state it does not know of (store.rs:276-302).
ImplementsCell == Cell!CellSpec

\* What a live handle knows, it knows for good: nothing that a process read
\* or was told it had written is undone by a power loss.  The engine sends
\* messages on the strength of it.
SeenSurvives ==
  \A p \in Procs : h[p].seen.gen > 0 => \A s \in stable : s.gen >= h[p].seen.gen

\* An artifact whose export came to its end is there for good, whole and
\* unchanged, whatever is saved, exported or fails later: an operator may have
\* carried it to the other side.
ExportedStays == exported # 0 => art = exported /\ stableArt = {exported}
=============================================================================
