----------------------------- MODULE PqDecision -----------------------------
(***************************************************************************)
(* The pure transition model of one PSK exchange (pq/src/protocol.rs,      *)
(* `Decision`).  The mailbox on the coordination server and both endpoints *)
(* run this same machine: the server on the messages it admits, an         *)
(* endpoint on the messages it finds in the fetched record and on its own. *)
(*                                                                         *)
(* The code's two-element arrays indexed by `usize::from(!initiator)` are  *)
(* sets of sides here: i \in d.installed stands for d.installed[i].        *)
(***************************************************************************)

\* The roles of a pair: the peer with the lower id initiates.
Initiator == "initiator"
Responder == "responder"
Side      == {Initiator, Responder}

Peer(s) == IF s = Initiator THEN Responder ELSE Initiator

Phase == {"Proposed", "Ready", "Committed", "Complete", "Aborted"}
Kind  == {"Propose", "Ready", "Commit", "Installed", "Confirmed", "Abort"}

Decision == [phase : Phase, installed : SUBSET Side, confirmed : SUBSET Side]

\* `impl Default for Decision`
NewDecision == [phase |-> "Proposed", installed |-> {}, confirmed |-> {}]

Terminal(d)  == d.phase \in {"Complete", "Aborted"}
Preparing(d) == d.phase \in {"Proposed", "Ready"}

\* The match guards of `Decision::advance`: FALSE is `Err(Error::Conflict)`.
CanAdvance(d, kind, s) ==
  \/ kind = "Ready"     /\ d.phase = "Proposed" /\ s = Responder
  \/ kind = "Commit"    /\ d.phase = "Ready"    /\ s = Initiator
  \/ kind = "Abort"     /\ Preparing(d)         /\ s = Initiator
  \/ kind = "Installed" /\ d.phase = "Committed"
                        /\ (s = Responder \/ Responder \in d.installed)
  \/ kind = "Confirmed" /\ d.phase = "Committed" /\ s \in d.installed

\* Mutant of Advanced: one confirmation completes the exchange.
AdvancedOnOneConfirmation(d, kind, s) ==
  CASE kind = "Ready"     -> [d EXCEPT !.phase = "Ready"]
    [] kind = "Commit"    -> [d EXCEPT !.phase = "Committed"]
    [] kind = "Abort"     -> [d EXCEPT !.phase = "Aborted"]
    [] kind = "Installed" -> [d EXCEPT !.installed = @ \cup {s}]
    [] kind = "Confirmed" -> [d EXCEPT !.confirmed = @ \cup {s}, !.phase = "Complete"]
    [] OTHER -> d

\* The arms of `Decision::advance`.
Advanced(d, kind, s) ==
  CASE kind = "Ready"     -> [d EXCEPT !.phase = "Ready"]
    [] kind = "Commit"    -> [d EXCEPT !.phase = "Committed"]
    [] kind = "Abort"     -> [d EXCEPT !.phase = "Aborted"]
    [] kind = "Installed" -> [d EXCEPT !.installed = @ \cup {s}]
    [] kind = "Confirmed" ->
         [d EXCEPT !.confirmed = @ \cup {s},
                   !.phase = IF Side \subseteq d.confirmed \cup {s}
                             THEN "Complete" ELSE @]
    [] OTHER -> d

\* `Decision::expire`: the prepare TTL ends work that is not yet committed.
Expired(d) == IF Preparing(d) THEN [d EXCEPT !.phase = "Aborted"] ELSE d
=============================================================================
