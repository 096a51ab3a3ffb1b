---------------------------- MODULE PqAgreement -----------------------------
(***************************************************************************)
(* What a pair of data peers is promised, with no mailbox, messages, disks *)
(* or views: exchanges of a new key are decided one at a time and once and *)
(* for all, a kernel takes a key only after the decision and the responder *)
(* takes it first, an exchange completes only while both kernels run its   *)
(* key, and an endpoint that takes an exchange for complete does so only   *)
(* once nothing but its completion is left.                                *)
(* PqExchange is shown to implement this specification.                    *)
(***************************************************************************)
EXTENDS Integers, PqDecision

CONSTANT MaxExchanges

VARIABLES
  fate,  \* per exchange: None, Open, Committed, Complete or Aborted
  key,   \* per side: the key its kernel runs, 0 for none
  done   \* per side: the last exchange it takes for complete

vars == <<fate, key, done>>

Exchange == 1 .. MaxExchanges

Init ==
  /\ fate = [x \in Exchange |-> "None"]
  /\ key = [s \in Side |-> 0]
  /\ done = [s \in Side |-> 0]

\* A new exchange opens only when no other one is undecided or unfinished.
Open(x) ==
  /\ fate[x] = "None"
  /\ \A y \in Exchange : fate[y] \in {"None", "Complete", "Aborted"}
  /\ fate' = [fate EXCEPT ![x] = "Open"]
  /\ UNCHANGED <<key, done>>

Abort(x) ==
  /\ fate[x] = "Open"
  /\ fate' = [fate EXCEPT ![x] = "Aborted"]
  /\ UNCHANGED <<key, done>>

Commit(x) ==
  /\ fate[x] = "Open"
  /\ fate' = [fate EXCEPT ![x] = "Committed"]
  /\ UNCHANGED <<key, done>>

Install(s, x) ==
  /\ fate[x] = "Committed"
  /\ s = Initiator => key[Responder] = x
  /\ key' = [key EXCEPT ![s] = x]
  /\ UNCHANGED <<fate, done>>

\* An install that fails half way leaves the kernel without a key.
Lose(s) ==
  /\ \E x \in Exchange : fate[x] = "Committed"
  /\ key' = [key EXCEPT ![s] = 0]
  /\ UNCHANGED <<fate, done>>

Complete(x) ==
  /\ fate[x] = "Committed"
  /\ \A s \in Side : key[s] = x
  /\ fate' = [fate EXCEPT ![x] = "Complete"]
  /\ UNCHANGED <<key, done>>

\* An endpoint may be ahead of the decision, never of the keys.
Learn(s, x) ==
  /\ \/ fate[x] = "Complete"
     \/ fate[x] = "Committed" /\ \A t \in Side : key[t] = x
  /\ done[s] < x
  /\ done' = [done EXCEPT ![s] = x]
  /\ UNCHANGED <<fate, key>>

Next ==
  \/ \E x \in Exchange : Open(x) \/ Abort(x) \/ Commit(x) \/ Complete(x)
  \/ \E s \in Side : Lose(s)
  \/ \E s \in Side, x \in Exchange : Install(s, x) \/ Learn(s, x)

Spec == Init /\ [][Next]_vars
=============================================================================
