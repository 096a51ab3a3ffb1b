---------------------------- MODULE PqAdmission ----------------------------
(***************************************************************************)
(* Admission control of the PQ mailbox (server/src/pq.rs and the handlers  *)
(* of api/pq.rs that ask for it): token buckets and semaphores, for the    *)
(* server and for each caller, in front of every write; a semaphore in     *)
(* front of reads.  New work (enrolments, proposals) has its own smaller   *)
(* buckets and semaphores besides those of all work, so that what is left  *)
(* is reserved for the exchanges that are already under way.               *)
(*                                                                         *)
(* `admit` reads the clock and then runs under one mutex, where it is one  *)
(* step.  Others may come first while it waits for the mutex, so that the  *)
(* time it works with is earlier than the time, by at most Delay, and than *)
(* the time of a call before it.  What belongs to the server itself is     *)
(* kept under 0 where there is one of a kind for each caller.              *)
(***************************************************************************)
EXTENDS Integers, FiniteSets

CONSTANTS
  Peers,         \* callers
  Unit,          \* tokens for one request (1000 in the code)
  PeerRate, PeerBurst, PeerWrites,
  GlobalRate, GlobalBurst, GlobalWrites,
  PeerIds,       \* callers that the table holds
  Reads,         \* permits for reads (8 in the code)
  Delay,         \* the longest that a call waits between the clock and the mutex
  MaxTime        \* bound: clock ticks; a rate is in tokens per tick

\* `Limits::validate`
ASSUME LimitsAssumption ==
  /\ Unit \in Nat \ {0} /\ Reads \in Nat /\ MaxTime \in Nat
  /\ \A n \in {PeerRate, PeerBurst, PeerWrites, GlobalRate, GlobalBurst, GlobalWrites} :
       n \in Nat /\ n >= 2
  /\ PeerWrites =< GlobalWrites
  /\ PeerIds \in Nat \ {0} /\ Delay \in Nat
  /\ 0 \notin Peers

VARIABLES
  now,      \* the clock
  all, new, \* the server's buckets
  caller,   \* per peer its buckets, NoCaller for a peer not in the table
  held,     \* permits out of the server's semaphores and of each caller's, for
            \* new work and for recovery
  reads,    \* read permits out
  reserve   \* what recovery is entitled to: see RecoveryAdmitted

vars == <<now, all, new, caller, held, reads, reserve>>

Bucket(burst, t) == [tokens |-> burst * Unit, last |-> t]
NoCaller == [known |-> FALSE]

NewRate(rate)   == rate \div 2
NewBurst(burst) == burst \div 2
NewWrites == GlobalWrites - (IF GlobalWrites \div 4 > 1 THEN GlobalWrites \div 4 ELSE 1)

-----------------------------------------------------------------------------
(* `Bucket::take` *)

\* What the clock showed when a call read it.
Times == {t \in 0 .. now : t >= now - Delay}

\* No time passes for a bucket that was touched later already.
Later(b, t) == IF t > b.last THEN t ELSE b.last

\* The bucket at time t, filled up since it was last touched.
Filled(b, rate, burst, t) ==
  LET tokens == b.tokens + (Later(b, t) - b.last) * rate
  IN  [tokens |-> IF tokens <= burst * Unit THEN tokens ELSE burst * Unit, last |-> Later(b, t)]

Take(b, rate, burst, t) ==
  LET f == Filled(b, rate, burst, t) IN [f EXCEPT !.tokens = @ - Unit]

CanTake(b, rate, burst, t) == Filled(b, rate, burst, t).tokens >= Unit

-----------------------------------------------------------------------------
Known == {p \in Peers : caller[p] # NoCaller}

\* A caller that comes for the first time.
Entry(p, t) ==
  IF p \in Known THEN caller[p]
  ELSE [known |-> TRUE, all |-> Bucket(PeerBurst, t), new |-> Bucket(NewBurst(PeerBurst), t)]

Holders == {0} \cup Peers

\* The permits of one pair of semaphores after one was taken (n = 1) or given
\* back (n = -1).
Permits(h, isNew, n) ==
  IF isNew THEN [h EXCEPT !.new = @ + n] ELSE [h EXCEPT !.recovery = @ + n]

\* The conditions of `admit`, in its order: first those before the caller is
\* entered into the table, then the rest.
Enters(p, isNew, t) ==
  /\ p \in Known \/ Cardinality(Known) < PeerIds
  /\ isNew => CanTake(new, NewRate(GlobalRate), NewBurst(GlobalBurst), t)
  /\ CanTake(all, GlobalRate, GlobalBurst, t)

NewSlots(p) == held[0].new < NewWrites /\ held[p].new < PeerWrites - 1

Passes(p, isNew, t) ==
  /\ isNew => CanTake(Entry(p, t).new, NewRate(PeerRate), NewBurst(PeerBurst), t)
  /\ CanTake(Entry(p, t).all, PeerRate, PeerBurst, t)
  /\ held[0].new + held[0].recovery < GlobalWrites
  /\ held[p].new + held[p].recovery < PeerWrites
  /\ isNew => NewSlots(p)

Admissible(p, isNew, t) == Enters(p, isNew, t) /\ Passes(p, isNew, t)

\* Recovery's own share of a pair of buckets, kept as a bucket of its own and
\* charged when a call is let in.  It may be in debt: recovery may also use what
\* new work left.
Reserve(b, rate, burst, t) == Filled(b, rate - NewRate(rate), burst - NewBurst(burst), t)

Spend(b, rate, burst, isNew, t) ==
  LET f == Reserve(b, rate, burst, t) IN IF isNew THEN f ELSE [f EXCEPT !.tokens = @ - Unit]

\* Everything is debited at once: tokens of each bucket that applies, permits
\* of each semaphore.
Admit(p, isNew, t) ==
  /\ t \in Times
  /\ Admissible(p, isNew, t)
  /\ all' = Take(all, GlobalRate, GlobalBurst, t)
  /\ new' = IF isNew THEN Take(new, NewRate(GlobalRate), NewBurst(GlobalBurst), t) ELSE new
  /\ caller' = [caller EXCEPT ![p] =
       [known |-> TRUE,
        all   |-> Take(Entry(p, t).all, PeerRate, PeerBurst, t),
        new   |-> IF isNew THEN Take(Entry(p, t).new, NewRate(PeerRate), NewBurst(PeerBurst), t)
                  ELSE Entry(p, t).new]]
  /\ held' = [q \in Holders |->
       IF q \in {0, p} THEN Permits(held[q], isNew, 1) ELSE held[q]]
  /\ reserve' = [q \in Holders |->
       CASE q = 0 -> Spend(reserve[0], GlobalRate, GlobalBurst, isNew, now)
         [] q = p -> Spend(reserve[p], PeerRate, PeerBurst, isNew, now)
         [] OTHER -> reserve[q]]
  /\ UNCHANGED <<now, reads>>

\* Mutant of Refused: the server's buckets are debited first.
RefusedDebits(p, isNew, t) ==
  /\ all' = IF CanTake(all, GlobalRate, GlobalBurst, t) THEN Take(all, GlobalRate, GlobalBurst, t) ELSE all
  /\ new' = new

\* A refusal debits nothing.  The caller may stay in the table.
Refused(p, isNew, t) == UNCHANGED <<all, new>>

Refuse(p, isNew, t) ==
  /\ t \in Times
  /\ ~ Admissible(p, isNew, t)
  /\ Refused(p, isNew, t)
  /\ caller' = IF Enters(p, isNew, t) THEN [caller EXCEPT ![p] = Entry(p, t)] ELSE caller
  /\ UNCHANGED <<now, held, reads, reserve>>

\* The permit goes: the body did not come in time, the client went away, or
\* the operation is done, whether it was accepted or not.
Release(p, isNew) ==
  /\ (IF isNew THEN held[p].new ELSE held[p].recovery) > 0
  /\ held' = [q \in Holders |->
       IF q \in {0, p} THEN Permits(held[q], isNew, -1) ELSE held[q]]
  /\ UNCHANGED <<now, all, new, caller, reads, reserve>>

\* `admit_read`, around a page.
ReadStart == reads < Reads /\ reads' = reads + 1 /\ UNCHANGED <<now, all, new, caller, held, reserve>>
ReadEnd   == reads > 0 /\ reads' = reads - 1 /\ UNCHANGED <<now, all, new, caller, held, reserve>>

Tick ==
  /\ now < MaxTime /\ now' = now + 1
  /\ UNCHANGED <<all, new, caller, held, reads, reserve>>

Init ==
  /\ now = 0
  /\ all = Bucket(GlobalBurst, now) /\ new = Bucket(NewBurst(GlobalBurst), now)
  /\ caller = [p \in Peers |-> NoCaller]
  /\ held = [q \in Holders |-> [new |-> 0, recovery |-> 0]]
  /\ reads = 0
  /\ reserve = [q \in Holders |->
       Bucket(IF q = 0 THEN GlobalBurst - NewBurst(GlobalBurst)
              ELSE PeerBurst - NewBurst(PeerBurst), now)]

Next ==
  \/ \E p \in Peers, isNew \in BOOLEAN, t \in 0 .. MaxTime :
       Admit(p, isNew, t) \/ Refuse(p, isNew, t)
  \/ \E p \in Peers, isNew \in BOOLEAN : Release(p, isNew)
  \/ ReadStart \/ ReadEnd \/ Tick

Spec == Init /\ [][Next]_vars

-----------------------------------------------------------------------------
(* Properties *)

\* What recovery can lose of its share to the order in which calls come to the
\* mutex: the bucket of new work may have been debited at an earlier time than
\* that of all work was filled at, and gets the refill in between once more; and
\* a call that waited finds less than there is by now.
Shortfall(rate, t) == Delay * NewRate(rate) + (now - t) * rate

\* The table has room for the caller, and recovery leaves slots of its own.
RecoveryFits(p) ==
  /\ p \in Known \/ Cardinality(Known) < PeerIds
  /\ held[0].recovery < GlobalWrites - NewWrites
  /\ held[p].recovery = 0

ReserveLeft(q, rate, burst) == Reserve(reserve[q], rate, burst, now).tokens

\* However much new work comes in, from whomever, and in whatever order the calls
\* come to the mutex: a caller is let through with a message of an exchange under
\* way, as long as recovery itself has not used up its share of tokens, less the
\* refill of the time that calls wait, and of slots.
RecoveryAdmitted ==
  \A p \in Peers, t \in Times :
    /\ RecoveryFits(p)
    /\ ReserveLeft(0, GlobalRate, GlobalBurst) >= Unit + Shortfall(GlobalRate, t)
    /\ ReserveLeft(p, PeerRate, PeerBurst) >= Unit + Shortfall(PeerRate, t)
    => Admissible(p, FALSE, t)

\* The same without any loss: "Existing exchanges, retirement, and their retries
\* use the reserved recovery capacity" (server/src/pq.rs 163), for a call that
\* does not wait itself.
RecoveryExact ==
  \A p \in Peers :
    /\ RecoveryFits(p)
    /\ ReserveLeft(0, GlobalRate, GlobalBurst) >= Unit
    /\ ReserveLeft(p, PeerRate, PeerBurst) >= Unit
    => Admissible(p, FALSE, now)
=============================================================================
