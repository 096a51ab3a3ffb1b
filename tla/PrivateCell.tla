---------------------------- MODULE PrivateCell ----------------------------
(***************************************************************************)
(* What the private store promises: one value that is replaced as a whole, *)
(* only by a process that has seen the value it replaces, and that no      *)
(* failure takes back once a process was told of it.  A value that nobody  *)
(* was told of may still vanish: its write was never acknowledged.         *)
(***************************************************************************)
EXTENDS Integers

CONSTANT Procs

VARIABLES
  cell,  \* the value; 0: none was written yet
  prev,  \* the value a failure would leave
  seen   \* per process, the value it last read or wrote; 0: none

cellVars == <<cell, prev, seen>>

CellInit == cell = 0 /\ prev = 0 /\ seen = [p \in Procs |-> 0]

\* A process reads the value, or is told that its write succeeded.
Learn(p) ==
  /\ cell # 0
  /\ prev' = cell /\ seen' = [seen EXCEPT ![p] = cell]
  /\ UNCHANGED cell

Replace(p) ==
  /\ seen[p] = cell
  /\ cell' > cell /\ prev' = cell
  /\ UNCHANGED seen

\* The value becomes permanent, and nobody is told.
Settle == prev' = cell /\ UNCHANGED <<cell, seen>>

Forget(p) == seen' = [seen EXCEPT ![p] = 0] /\ UNCHANGED <<cell, prev>>

PowerLoss ==
  /\ cell' \in {cell, prev} /\ prev' = cell'
  /\ seen' = [p \in Procs |-> 0]

CellNext ==
  \/ \E p \in Procs : Learn(p) \/ Replace(p) \/ Forget(p)
  \/ Settle \/ PowerLoss

CellSpec == CellInit /\ [][CellNext]_cellVars
=============================================================================
