------------------------- MODULE PqLifecycleProofs -------------------------
(* Theorems about PqLifecycle, for every number of identities, exchanges   *)
(* and late registrations.                                                 *)
EXTENDS PqLifecycle, TLAPS

\* The row is always a record of the four fields.
RowShape == row = [xid |-> row.xid, id |-> row.id, phase |-> row.phase,
                   receipts |-> row.receipts]

RowInv == RowShape /\ RowIsOfBundle

\* A registration transaction takes the pair's row away with the bundle.
LEMMA RegisterKeepsRow ==
  ASSUME NEW q, RowInv, Register(q)
  PROVE  RowInv'
  BY DEF RowInv, RowShape, RowIsOfBundle, Register, NoRow

\* A message is taken only under the current bundle.
LEMMA SubmittedKeepsRow ==
  ASSUME NEW w, RowInv, Submitted(w), UNCHANGED bundle
  PROVE  RowInv'
<1>1. CASE row' = [xid |-> pend[w].xid, id |-> bundle.id, phase |-> "Proposed", receipts |-> {}]
  BY <1>1 DEF RowInv, RowShape, RowIsOfBundle
<1>2. CASE row.xid = pend[w].xid
  <2>1. bundle.id = pend[w].id /\ pend[w].xid # 0
    BY DEF Submitted
  <2>2. row.id = bundle.id
    BY <1>2, <2>1 DEF RowInv, RowIsOfBundle
  <2>3. \/ row' = [row EXCEPT !.phase = "Ready"]
        \/ row' = [row EXCEPT !.phase = "Committed"]
        \/ row' = [row EXCEPT !.receipts = @ \cup {w},
                              !.phase = IF row.receipts = {} THEN @ ELSE "Complete"]
        \/ row' = [xid |-> pend[w].xid, id |-> bundle.id, phase |-> "Proposed", receipts |-> {}]
    BY DEF Submitted
  <2>4. row'.id = bundle.id /\ RowShape'
    <3>1. ASSUME NEW p, row' = [row EXCEPT !.phase = p]
          PROVE  row'.id = bundle.id /\ RowShape'
      BY <2>2, <3>1 DEF RowInv, RowShape
    <3>2. ASSUME NEW p, NEW r, row' = [row EXCEPT !.receipts = r, !.phase = p]
          PROVE  row'.id = bundle.id /\ RowShape'
      BY <2>2, <3>2 DEF RowInv, RowShape
    <3>3. CASE row' = [row EXCEPT !.phase = "Ready"]
      BY <3>1, <3>3
    <3>4. CASE row' = [row EXCEPT !.phase = "Committed"]
      BY <3>1, <3>4
    <3>5. CASE row' = [row EXCEPT !.receipts = @ \cup {w},
                                  !.phase = IF row.receipts = {} THEN @ ELSE "Complete"]
      <4>1. row' = [row EXCEPT !.receipts = row.receipts \cup {w},
                               !.phase = IF row.receipts = {} THEN row.phase ELSE "Complete"]
        BY <3>5 DEF RowInv, RowShape
      <4> QED
        BY <3>2, <4>1
    <3>6. CASE row' = [xid |-> pend[w].xid, id |-> bundle.id, phase |-> "Proposed",
                       receipts |-> {}]
      BY <3>6 DEF RowShape
    <3> QED
      BY <2>3, <3>3, <3>4, <3>5, <3>6
  <2> QED
    BY <2>4 DEF RowInv, RowIsOfBundle
<1> QED
  BY <1>1, <1>2 DEF Submitted

\* The inductive invariant of the server's row (`register_inner`,
\* `submit_inner`).
THEOREM RowsInductive == Spec => []RowInv
<1>1. Init => RowInv
  BY DEF Init, RowInv, RowShape, RowIsOfBundle, NoRow
<1>2. RowInv /\ [Next]_vars => RowInv'
  <2> SUFFICES ASSUME RowInv, [Next]_vars PROVE RowInv'
    OBVIOUS
  <2>1. CASE UNCHANGED <<bundle, row>>
    BY <2>1 DEF RowInv, RowShape, RowIsOfBundle
  <2>2. CASE FirstPut
    BY <2>2, RegisterKeepsRow DEF FirstPut
  <2>3. CASE SubmitRegistration
    <3>1. CASE Unsettled
      BY <2>3, <3>1, RegisterKeepsRow DEF SubmitRegistration
    <3>2. CASE ~Unsettled
      BY <2>1, <2>3, <3>2 DEF SubmitRegistration, serverVars
    <3> QED
      BY <3>1, <3>2
  <2>4. CASE DeliverLate
    BY <2>4, RegisterKeepsRow DEF DeliverLate
  <2>5. CASE LocalSubmit
    BY <2>5, SubmittedKeepsRow DEF LocalSubmit
  <2>6. CASE RemoteSubmit
    BY <2>6, SubmittedKeepsRow DEF RemoteSubmit
  <2>7. CASE Expire
    BY <2>7 DEF Expire, RowInv, RowShape, RowIsOfBundle
  <2>8. OpenFresh \/ OpenEmpty \/ FirstSave \/ Open => UNCHANGED <<bundle, row>>
    BY DEF OpenFresh, OpenEmpty, FirstSave, Open, vars, serverVars
  <2>9. AcceptRegistration \/ LocalReconcile \/ LocalRests => UNCHANGED <<bundle, row>>
    BY DEF AcceptRegistration, LocalReconcile, LocalRests, serverVars
  <2>10. ObserveRemote \/ RemoteReconcile \/ Disable \/ Enable => UNCHANGED <<bundle, row>>
    BY DEF ObserveRemote, RemoteReconcile, Disable, Enable, serverVars
  <2>11. RegistrationLost \/ Crash \/ CalmDown => UNCHANGED <<bundle, row>>
    BY DEF RegistrationLost, Crash, CalmDown, serverVars
  <2>12. UNCHANGED vars => UNCHANGED <<bundle, row>>
    BY DEF vars
  <2> QED
    BY <2>1, <2>2, <2>3, <2>4, <2>5, <2>6, <2>7, <2>8, <2>9, <2>10, <2>11, <2>12
       DEF Next, LocalCycle
<1> QED
  BY <1>1, <1>2, PTL DEF Spec

\* A row never outlives the bundle it was opened under (`register_inner`
\* deletes the peer's inactive rows, and refuses while one is active).
THEOREM RowsFollowBundle == Spec => []RowIsOfBundle
<1>1. RowInv => RowIsOfBundle
  BY DEF RowInv
<1> QED
  BY <1>1, RowsInductive, PTL

-----------------------------------------------------------------------------
(* No registration cuts a committed exchange short *)

\* A registration leaves an active row alone.
LEMMA RegisterSparesCommitted ==
  ASSUME NEW q, row.phase = "Committed", Register(q)
  PROVE  row' = row
  BY DEF Register, Takes, Active

\* On a committed row a message can only add a receipt.
LEMMA SubmittedSparesCommitted ==
  ASSUME NEW w, RowShape, row.phase = "Committed", Submitted(w)
  PROVE  row'.xid = row.xid /\ row'.phase \in {"Committed", "Complete"}
<1>1. row' = [row EXCEPT !.receipts = @ \cup {w},
                         !.phase = IF row.receipts = {} THEN @ ELSE "Complete"]
  BY DEF Submitted, Active
<1>2. row' = [row EXCEPT !.receipts = row.receipts \cup {w},
                         !.phase = IF row.receipts = {} THEN row.phase ELSE "Complete"]
  BY <1>1 DEF RowShape
<1>3. ASSUME NEW p, NEW r, row' = [row EXCEPT !.receipts = r, !.phase = p]
      PROVE  row'.xid = row.xid /\ row'.phase = p
  BY <1>3 DEF RowShape
<1>4. row'.xid = row.xid /\ row'.phase = IF row.receipts = {} THEN row.phase ELSE "Complete"
  BY <1>2, <1>3
<1> QED
  BY <1>4

\* Whatever is registered, late or repeated, and whatever the sweep finds,
\* the row of a committed exchange stays until both receipts are in:
\* `register_inner` refuses while a row is active, and the sweep of prepare
\* TTLs passes over what is committed.
THEOREM CommittedIsKept == Spec => CommittedSurvives
<1>1. RowInv /\ [Next]_vars =>
        (row.phase = "Committed" =>
           row'.xid = row.xid /\ row'.phase \in {"Committed", "Complete"})
  <2> SUFFICES ASSUME RowInv, [Next]_vars, row.phase = "Committed"
               PROVE  row'.xid = row.xid /\ row'.phase \in {"Committed", "Complete"}
    OBVIOUS
  <2> DEFINE Kept == row'.xid = row.xid /\ row'.phase \in {"Committed", "Complete"}
  <2>1. CASE UNCHANGED row
    BY <2>1
  <2>2. CASE FirstPut
    BY <2>1, <2>2, RegisterSparesCommitted DEF FirstPut
  <2>3. CASE SubmitRegistration
    BY <2>1, <2>3, RegisterSparesCommitted DEF SubmitRegistration, serverVars
  <2>4. CASE DeliverLate
    BY <2>1, <2>4, RegisterSparesCommitted DEF DeliverLate
  <2>5. CASE LocalSubmit
    BY <2>5, SubmittedSparesCommitted DEF LocalSubmit, RowInv
  <2>6. CASE RemoteSubmit
    BY <2>6, SubmittedSparesCommitted DEF RemoteSubmit, RowInv
  <2>7. CASE Expire
    BY <2>7 DEF Expire
  <2>8. OpenFresh \/ OpenEmpty \/ FirstSave \/ Open => UNCHANGED row
    BY DEF OpenFresh, OpenEmpty, FirstSave, Open, vars, serverVars
  <2>9. AcceptRegistration \/ LocalReconcile \/ LocalRests => UNCHANGED row
    BY DEF AcceptRegistration, LocalReconcile, LocalRests, serverVars
  <2>10. ObserveRemote \/ RemoteReconcile \/ Disable \/ Enable => UNCHANGED row
    BY DEF ObserveRemote, RemoteReconcile, Disable, Enable, serverVars
  <2>11. RegistrationLost \/ Crash \/ CalmDown => UNCHANGED row
    BY DEF RegistrationLost, Crash, CalmDown, serverVars
  <2>12. UNCHANGED vars => UNCHANGED row
    BY DEF vars
  <2> HIDE DEF Kept
  <2> QED
    BY <2>1, <2>2, <2>3, <2>4, <2>5, <2>6, <2>7, <2>8, <2>9, <2>10, <2>11, <2>12
       DEF Next, LocalCycle
<1> QED
  BY <1>1, RowsInductive, PTL DEF Spec, CommittedSurvives

-----------------------------------------------------------------------------
(* What the store calls advertised is what the server hands out *)

\* A registration that the server could take is one of the identities drawn so
\* far, and enables it.  (That of `disable` carries the revision it expects:
\* nothing takes it.)
Sendable(q, e) ==
  Follows(q) => q.life = "Enabled" /\ q.expected \in Nat /\ q.rev <= e.rev

\* The endpoint's own registration is that of its present identity.
OwnRegistration(e) ==
  Follows(e.registration) => Desired(e.registration) = [id |-> e.id, rev |-> e.rev, life |-> "Enabled"]

\* The parts of the saved state, as a record.
EndpointShape(e) ==
  /\ e = [id |-> e.id, rev |-> e.rev, registration |-> e.registration,
          enrollment |-> e.enrollment, confirmed |-> e.confirmed, gated |-> e.gated]
  /\ e.rev \in Nat /\ e.rev >= 1

\* The server is never ahead of the saved identity, nor is anything still
\* under way: a bundle of the saved revision is therefore final until the next
\* identity is on disk.
EnrollInv ==
  /\ EndpointShape(disk) /\ OwnRegistration(disk)
  /\ Sendable(disk.registration, disk)
  /\ \A q \in late : Sendable(q, disk)
  /\ bundle.rev \in Nat /\ bundle.rev <= disk.rev
  /\ store # "saved" => disk.rev = 1
  /\ pc \in {"first", "firstsave"} => store = "empty"
  /\ pc \in {"submit", "accepted", "sync"} => store = "saved"
  /\ pc = "firstsave" => bundle = Desired(FirstRegistration(made))
  /\ pc = "accepted" => Follows(disk.registration) /\ bundle = Desired(disk.registration)
  /\ AdvertisedIsCurrent

\* A registration moves the bundle only below the saved revision, and to what
\* it asks for.
LEMMA RegisterMovesUp ==
  ASSUME NEW q, NEW e, e.rev \in Nat, Sendable(q, e),
         bundle.rev \in Nat, bundle.rev <= e.rev, Register(q)
  PROVE  /\ bundle'.rev \in Nat /\ bundle'.rev <= e.rev
         /\ bundle' # bundle => Takes(q)
         /\ Takes(q) => bundle' = Desired(q) /\ bundle.rev < e.rev
<1>1. CASE Takes(q)
  <2>1. /\ bundle' = Desired(q) /\ bundle.rev = q.expected
        /\ Follows(q) /\ q.expected \in Nat /\ q.rev <= e.rev
    BY <1>1 DEF Register, Takes, Sendable
  <2>2. bundle'.rev = q.rev /\ q.rev = q.expected + 1
    BY <2>1 DEF Desired, Follows
  <2> QED
    BY <1>1, <2>1, <2>2
<1>2. CASE ~Takes(q)
  BY <1>2 DEF Register
<1> QED
  BY <1>1, <1>2

\* A registration of a given-up cycle, or of this one, leaves the invariant of
\* a state whose own variables do not change.
LEMMA RegisterKeepsEnroll ==
  ASSUME NEW q, EnrollInv, Sendable(q, disk), Register(q),
         UNCHANGED <<disk, store, made, pc>>, late' \subseteq late
  PROVE  EnrollInv'
<1>1. /\ bundle'.rev \in Nat /\ bundle'.rev <= disk.rev
      /\ bundle' # bundle => bundle.rev < disk.rev
  BY RegisterMovesUp DEF EnrollInv, EndpointShape
<1>2. CASE bundle' = bundle
  BY <1>2 DEF EnrollInv, AdvertisedIsCurrent, Sendable, OwnRegistration, EndpointShape
<1>3. CASE bundle' # bundle
  <2>1. bundle.rev < disk.rev /\ bundle.rev \in Nat /\ disk.rev \in Nat /\ disk.rev >= 1
    BY <1>1, <1>3 DEF EnrollInv, EndpointShape
  <2>2. ~(store = "saved" /\ disk.enrollment = "Advertised")
    BY <2>1 DEF EnrollInv, AdvertisedIsCurrent
  <2>3. pc # "accepted"
    BY <2>1 DEF EnrollInv, OwnRegistration
  <2>4. pc # "firstsave"
    <3>1. SUFFICES ASSUME pc = "firstsave" PROVE FALSE
      OBVIOUS
    <3>2. bundle = Desired(FirstRegistration(made)) /\ disk.rev = 1
      BY <3>1 DEF EnrollInv
    <3>3. bundle.rev = 1
      BY <3>2 DEF Desired, FirstRegistration
    <3> QED
      BY <2>1, <3>2, <3>3
  <2> QED
    BY <1>1, <2>2, <2>3, <2>4
       DEF EnrollInv, AdvertisedIsCurrent, Sendable, OwnRegistration, EndpointShape
<1> QED
  BY <1>2, <1>3

\* A step of the local peer that does not touch its saved state, the server
\* or what is under way.
LEMMA StepKeepsEnroll ==
  ASSUME EnrollInv, UNCHANGED <<disk, store, bundle, late>>,
         \/ UNCHANGED <<pc, made>>
         \/ pc' = "idle"
         \/ pc' \in {"submit", "sync"} /\ store = "saved"
  PROVE  EnrollInv'
  BY DEF EnrollInv, AdvertisedIsCurrent, Sendable, OwnRegistration, EndpointShape

\* The pieces of EnrollInv about a saved state, and its next value.
LEMMA NewEndpointKeepsEnroll ==
  ASSUME NEW e, EnrollInv, disk' = e, EndpointShape(e), OwnRegistration(e),
         Sendable(e.registration, e), disk.rev <= e.rev,
         UNCHANGED <<store, bundle, late>>, store = "saved",
         pc' \in {"idle", "submit", "sync"},
         e.enrollment = "Advertised" =>
           bundle = [id |-> e.id, rev |-> e.rev, life |-> "Enabled"]
  PROVE  EnrollInv'
<1>1. \A q \in late : Sendable(q, e)
  <2> SUFFICES ASSUME NEW q \in late, Follows(q)
               PROVE  q.life = "Enabled" /\ q.expected \in Nat /\ q.rev <= e.rev
    BY DEF Sendable
  <2>1. q.life = "Enabled" /\ q.expected \in Nat /\ q.rev <= disk.rev /\ q.rev = q.expected + 1
    BY DEF EnrollInv, Sendable, Follows
  <2> QED
    BY <2>1 DEF EnrollInv, EndpointShape
<1>2. bundle.rev \in Nat /\ bundle.rev <= e.rev
  BY DEF EnrollInv, EndpointShape
<1> QED
  BY <1>1, <1>2 DEF EnrollInv, AdvertisedIsCurrent, Sendable, OwnRegistration, EndpointShape

\* The first registration of an identity that is not saved yet.
LEMMA FirstIsSendable ==
  ASSUME EnrollInv, NEW id
  PROVE  Sendable(FirstRegistration(id), disk)
  BY DEF EnrollInv, EndpointShape, Sendable, FirstRegistration, Follows

\* The first registration, from the empty store to its save.
LEMMA FirstSteps ==
  ASSUME EnrollInv, OpenFresh \/ FirstPut \/ FirstSave
  PROVE  EnrollInv'
<1>1. CASE OpenFresh
  BY <1>1 DEF OpenFresh, EnrollInv, AdvertisedIsCurrent, Sendable, OwnRegistration,
              EndpointShape, serverVars
<1>2. CASE FirstPut
  <2> DEFINE q == FirstRegistration(made)
  <2>1. /\ Sendable(q, disk) /\ Register(q)
        /\ bundle.rev \in Nat /\ bundle.rev <= disk.rev /\ disk.rev \in Nat
    BY <1>2, FirstIsSendable DEF FirstPut, EnrollInv, EndpointShape
  <2>2. /\ bundle'.rev \in Nat /\ bundle'.rev <= disk.rev
        /\ bundle' # bundle => Takes(q)
        /\ Takes(q) => bundle' = Desired(q)
    BY <2>1, RegisterMovesUp
  <2>3. /\ store = "empty" /\ disk.rev = 1
        /\ UNCHANGED <<disk, store, late>>
        /\ pc' = (IF Takes(q) THEN "firstsave" ELSE "idle")
        /\ Takes(q) => made' = made
    BY <1>2 DEF FirstPut, EnrollInv
  <2> QED
    BY <2>2, <2>3 DEF EnrollInv, AdvertisedIsCurrent, Sendable, OwnRegistration, EndpointShape
<1>3. CASE FirstSave
  <2> DEFINE e == Registered(made)
  <2>1. disk' = e /\ pc' = "sync" /\ store' = "saved" /\ UNCHANGED <<bundle, late>>
    BY <1>3 DEF FirstSave, serverVars
  <2>2. EndpointShape(e) /\ e.rev = 1 /\ e.registration = FirstRegistration(made) /\ e.id = made
    BY DEF EndpointShape, Registered
  <2>3. OwnRegistration(e) /\ Sendable(e.registration, e)
    BY <2>2 DEF OwnRegistration, Sendable, Desired, FirstRegistration, Follows
  <2>4. disk.rev = 1 /\ bundle = Desired(FirstRegistration(made)) /\ bundle.rev \in Nat /\ bundle.rev <= disk.rev
    BY <1>3 DEF EnrollInv, FirstSave
  <2>5. bundle = [id |-> e.id, rev |-> e.rev, life |-> "Enabled"]
    BY <2>2, <2>4 DEF Desired, FirstRegistration
  <2>6. \A q \in late : Sendable(q, e)
    BY <2>2, <2>4 DEF EnrollInv, Sendable
  <2> HIDE DEF e
  <2> QED
    BY <2>1, <2>2, <2>3, <2>4, <2>5, <2>6
       DEF EnrollInv, AdvertisedIsCurrent, Sendable, OwnRegistration, EndpointShape
<1> QED
  BY <1>1, <1>2, <1>3

\* `submit_pending_registration` and `accept_registration`.
LEMMA SubmitSteps ==
  ASSUME EnrollInv, SubmitRegistration \/ AcceptRegistration
  PROVE  EnrollInv'
<1>1. CASE SubmitRegistration /\ Unsettled
  <2> DEFINE q == disk.registration
  <2>1. /\ Sendable(q, disk) /\ Register(q)
        /\ bundle.rev \in Nat /\ bundle.rev <= disk.rev /\ disk.rev \in Nat
    BY <1>1 DEF SubmitRegistration, EnrollInv, EndpointShape
  <2>2. /\ bundle'.rev \in Nat /\ bundle'.rev <= disk.rev
        /\ bundle' # bundle => Takes(q)
        /\ Takes(q) => bundle' = Desired(q)
    BY <2>1, RegisterMovesUp
  <2>3. /\ UNCHANGED <<disk, store, late>> /\ store = "saved"
        /\ disk.enrollment # "Advertised"
        /\ pc' = (IF Repeats(q) \/ Takes(q) THEN "accepted" ELSE "sync")
    BY <1>1 DEF SubmitRegistration, EnrollInv, Unsettled, storeVars
  <2>4. Takes(q) => Follows(q)
    BY DEF Takes
  <2>5. Repeats(q) => Follows(q) /\ bundle = Desired(q) /\ ~Takes(q)
    BY DEF Takes, Repeats
  <2>6. pc' = "accepted" => Follows(q) /\ bundle' = Desired(q)
    BY <2>2, <2>3, <2>4, <2>5
  <2>7. (Follows(disk.registration))' <=> Follows(disk.registration)
    BY <2>3 DEF Follows
  <2>8. (Desired(disk.registration))' = Desired(disk.registration)
    BY <2>3 DEF Desired
  <2> QED
    BY <2>2, <2>3, <2>6, <2>7, <2>8
       DEF EnrollInv, AdvertisedIsCurrent, Sendable, OwnRegistration, EndpointShape
<1>2. CASE SubmitRegistration /\ ~Unsettled
  <2>1. UNCHANGED <<disk, store, bundle, late>> /\ pc' = "sync" /\ store = "saved"
    BY <1>2 DEF SubmitRegistration, EnrollInv, storeVars, serverVars
  <2> QED
    BY <2>1, StepKeepsEnroll
<1>3. CASE AcceptRegistration
  <2> DEFINE s == IF disk.registration.life = "Enabled" THEN "Advertised" ELSE "Retired"
             e == [id |-> disk.id, rev |-> disk.rev, registration |-> disk.registration,
                   enrollment |-> s, confirmed |-> disk.confirmed, gated |-> disk.gated]
  <2>1. disk' = e
    BY <1>3 DEF AcceptRegistration, EnrollInv, EndpointShape
  <2>2. pc' = "sync" /\ UNCHANGED <<store, bundle, late>> /\ store = "saved"
    BY <1>3 DEF AcceptRegistration, EnrollInv, serverVars
  <2>3. e.id = disk.id /\ e.rev = disk.rev /\ e.registration = disk.registration
    OBVIOUS
  <2>4. EndpointShape(e) /\ OwnRegistration(e) /\ Sendable(e.registration, e)
    BY <2>3 DEF EnrollInv, EndpointShape, OwnRegistration, Sendable
  <2>5. bundle = [id |-> disk.id, rev |-> disk.rev, life |-> "Enabled"]
    BY <1>3 DEF AcceptRegistration, EnrollInv, OwnRegistration
  <2>6. disk.rev <= e.rev
    BY <2>3 DEF EnrollInv, EndpointShape
  <2> HIDE DEF e
  <2> QED
    BY <2>1, <2>2, <2>3, <2>4, <2>5, <2>6, NewEndpointKeepsEnroll
<1> QED
  BY <1>1, <1>2, <1>3

\* The end of a cycle confirms at most.
LEMMA ReconcileSteps ==
  ASSUME EnrollInv, LocalReconcile
  PROVE  EnrollInv'
<1>1. pc' = "idle" /\ UNCHANGED <<store, bundle, late>> /\ store = "saved"
  BY DEF LocalReconcile, EnrollInv, serverVars
<1>2. CASE UNCHANGED disk
  BY <1>1, <1>2, StepKeepsEnroll
<1>3. CASE disk' = [disk EXCEPT !.confirmed = @ \/ row.phase = "Complete"]
  <2> DEFINE c == disk.confirmed \/ row.phase = "Complete"
             e == [id |-> disk.id, rev |-> disk.rev, registration |-> disk.registration,
                   enrollment |-> disk.enrollment, confirmed |-> c, gated |-> disk.gated]
  <2>1. disk' = [disk EXCEPT !.confirmed = c]
    BY <1>3
  <2> HIDE DEF c
  <2>2. disk' = e
    BY <2>1 DEF EnrollInv, EndpointShape
  <2>3. /\ e.id = disk.id /\ e.rev = disk.rev /\ e.registration = disk.registration
        /\ e.enrollment = disk.enrollment
    OBVIOUS
  <2>4. EndpointShape(e) /\ OwnRegistration(e) /\ Sendable(e.registration, e)
    BY <2>3 DEF EnrollInv, EndpointShape, OwnRegistration, Sendable
  <2>5. e.enrollment = "Advertised" => bundle = [id |-> e.id, rev |-> e.rev, life |-> "Enabled"]
    BY <1>1, <2>3 DEF EnrollInv, AdvertisedIsCurrent
  <2>6. disk.rev <= e.rev
    BY <2>3 DEF EnrollInv, EndpointShape
  <2> HIDE DEF e
  <2> QED
    BY <1>1, <2>2, <2>4, <2>5, <2>6, NewEndpointKeepsEnroll
<1> QED
  BY <1>2, <1>3 DEF LocalReconcile

\* The operator's commands: the identity is on disk before it is sent.
LEMMA CommandSteps ==
  ASSUME EnrollInv, Disable \/ Enable
  PROVE  EnrollInv'
<1>0. disk.rev \in Nat /\ disk.rev >= 1
  BY DEF EnrollInv, EndpointShape
<1>1. CASE Disable
  <2> DEFINE q == [expected |-> disk.rev, id |-> disk.id, rev |-> disk.rev, life |-> "Retired"]
             e == [id |-> disk.id, rev |-> disk.rev, registration |-> q,
                   enrollment |-> "Retiring", confirmed |-> disk.confirmed, gated |-> disk.gated]
  <2>1. disk' = e
    BY <1>1 DEF Disable, EnrollInv, EndpointShape
  <2>2. pc' = "submit" /\ UNCHANGED <<store, bundle, late>> /\ store = "saved"
    BY <1>1 DEF Disable, serverVars
  <2>3. e.rev = disk.rev /\ e.registration = q /\ e.enrollment = "Retiring"
    OBVIOUS
  <2>4. ~Follows(q)
    BY <1>0 DEF Follows
  <2>5. EndpointShape(e)
    BY <1>0 DEF EndpointShape
  <2>6. OwnRegistration(e) /\ Sendable(e.registration, e)
    BY <2>3, <2>4 DEF OwnRegistration, Sendable
  <2> HIDE DEF e, q
  <2> QED
    BY <1>0, <2>1, <2>2, <2>3, <2>5, <2>6, NewEndpointKeepsEnroll
<1>2. CASE Enable
  <2> DEFINE q == [expected |-> disk.rev, id |-> drawn + 1, rev |-> disk.rev + 1, life |-> "Enabled"]
             e == [id |-> drawn + 1, rev |-> disk.rev + 1, registration |-> q,
                   enrollment |-> "Registering", confirmed |-> disk.confirmed, gated |-> TRUE]
  <2>1. disk' = e
    BY <1>2 DEF Enable, EnrollInv, EndpointShape
  <2>2. pc' = "submit" /\ UNCHANGED <<store, bundle, late>> /\ store = "saved"
    BY <1>2 DEF Enable, serverVars
  <2>3. e.id = drawn + 1 /\ e.rev = disk.rev + 1 /\ e.registration = q /\ e.enrollment = "Registering"
    OBVIOUS
  <2>4. Desired(q) = [id |-> e.id, rev |-> e.rev, life |-> "Enabled"]
    BY <2>3 DEF Desired
  <2>5. EndpointShape(e)
    BY <1>0 DEF EndpointShape
  <2>6. OwnRegistration(e) /\ Sendable(e.registration, e)
    BY <1>0, <2>3, <2>4 DEF OwnRegistration, Sendable
  <2> HIDE DEF e, q
  <2> QED
    BY <1>0, <2>1, <2>2, <2>3, <2>5, <2>6, NewEndpointKeepsEnroll
<1> QED
  BY <1>1, <1>2

\* A registration whose answer is not waited for may still arrive.
LEMMA LostSteps ==
  ASSUME EnrollInv, RegistrationLost
  PROVE  EnrollInv'
<1>1. UNCHANGED <<disk, store, bundle>>
  BY DEF RegistrationLost, serverVars
<1>2. pc' = "idle" \/ (pc' = "sync" /\ store = "saved")
  BY DEF RegistrationLost, EnrollInv
<1>3. \A q \in late' : Sendable(q, disk)
  <2>1. CASE pc = "first" /\ Unanswered(FirstRegistration(made))
    <3>1. late' \subseteq late \cup {FirstRegistration(made)}
      BY <2>1 DEF Unanswered
    <3> QED
      BY <3>1, FirstIsSendable DEF EnrollInv
  <2>2. CASE Unanswered(disk.registration)
    <3>1. late' \subseteq late \cup {disk.registration}
      BY <2>2 DEF Unanswered
    <3> QED
      BY <3>1 DEF EnrollInv
  <2> QED
    BY <2>1, <2>2 DEF RegistrationLost
<1> QED
  BY <1>1, <1>2, <1>3 DEF EnrollInv, AdvertisedIsCurrent, Sendable, OwnRegistration, EndpointShape

\* The inductive invariant of the identity (`open_or_register`,
\* `submit_pending_registration`, `replace`, `disable`, `register_inner`).
THEOREM EnrollmentInductive == Spec => []EnrollInv
<1>1. Init => EnrollInv
  <2> SUFFICES ASSUME Init PROVE EnrollInv
    OBVIOUS
  <2>1. disk = Registered(0) /\ bundle.rev = 0 /\ late = {} /\ store = "absent" /\ pc = "idle"
    BY DEF Init, NoBundle
  <2>2. EndpointShape(disk) /\ disk.rev = 1 /\ disk.registration = FirstRegistration(0) /\ disk.id = 0
    BY <2>1 DEF EndpointShape, Registered
  <2>3. OwnRegistration(disk) /\ Sendable(disk.registration, disk)
    BY <2>2 DEF OwnRegistration, Sendable, Desired, FirstRegistration, Follows
  <2> QED
    BY <2>1, <2>2, <2>3 DEF EnrollInv, AdvertisedIsCurrent
<1>2. EnrollInv /\ [Next]_vars => EnrollInv'
  <2> SUFFICES ASSUME EnrollInv, [Next]_vars PROVE EnrollInv'
    OBVIOUS
  <2>1. CASE FirstPut \/ FirstSave \/ OpenFresh
    BY <2>1, FirstSteps
  <2>2. CASE SubmitRegistration \/ AcceptRegistration
    BY <2>2, SubmitSteps
  <2>3. CASE LocalReconcile
    BY <2>3, ReconcileSteps
  <2>4. CASE Disable \/ Enable
    BY <2>4, CommandSteps
  <2>5. CASE RegistrationLost
    BY <2>5, LostSteps
  <2>6. CASE DeliverLate
    <3>1. PICK q \in late : Register(q) /\ late' = late \ {q} /\ UNCHANGED <<storeVars, pc>>
      BY <2>6 DEF DeliverLate
    <3>2. Sendable(q, disk) /\ UNCHANGED <<disk, store, made, pc>> /\ late' \subseteq late
      BY <3>1 DEF EnrollInv, storeVars
    <3> QED
      BY <3>1, <3>2, RegisterKeepsEnroll
  <2>7. CASE LocalSubmit \/ LocalRests \/ Crash
    BY <2>7, StepKeepsEnroll DEF LocalSubmit, LocalRests, Crash, storeVars, serverVars
  <2>8. CASE Open
    BY <2>8, StepKeepsEnroll DEF Open, storeVars, serverVars
  <2>9. CASE ObserveRemote \/ RemoteReconcile \/ RemoteSubmit \/ Expire \/ CalmDown
    BY <2>9, StepKeepsEnroll
       DEF ObserveRemote, RemoteReconcile, RemoteSubmit, Expire, CalmDown, storeVars, serverVars
  <2>10. CASE OpenEmpty \/ UNCHANGED vars
    BY <2>10, StepKeepsEnroll DEF OpenEmpty, vars
  <2> QED
    BY <2>1, <2>2, <2>3, <2>4, <2>5, <2>6, <2>7, <2>8, <2>9, <2>10 DEF Next, LocalCycle
<1> QED
  BY <1>1, <1>2, PTL DEF Spec

\* What the store calls advertised is the bundle the server hands out, whatever
\* was lost, repeated or delivered late (`accept_registration`,
\* `register_inner`).
THEOREM EnrolledIsAdvertised == Spec => []AdvertisedIsCurrent
<1>1. EnrollInv => AdvertisedIsCurrent
  BY DEF EnrollInv
<1> QED
  BY <1>1, EnrollmentInductive, PTL
=============================================================================
