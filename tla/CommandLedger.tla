---------------------------- MODULE CommandLedger ----------------------------
(***************************************************************************)
(* What the durable command inbox of one thread promises, whatever the     *)
(* interleaving of processes, crashes, retries and lease takeovers behind  *)
(* it: commands are accepted once and keep their order, and a command is   *)
(* acknowledged - for good - only after its effect has been recorded.      *)
(* TurnRunner is shown to implement this specification.                    *)
(***************************************************************************)
EXTENDS Naturals, Sequences

CONSTANTS Command, Initial

VARIABLES
  accepted,   \* commands in the order of their inbox sequence numbers
  recorded,   \* commands whose effect is durable: an outcome or a checkpoint
  acked       \* commands nothing will ever run again

vars == <<accepted, recorded, acked>>

AcceptedSet == {accepted[i] : i \in 1..Len(accepted)}

Init ==
  /\ accepted = <<Initial>>
  /\ recorded = {}
  /\ acked = {}

Accept(c) ==
  /\ c \notin AcceptedSet
  /\ accepted' = Append(accepted, c)
  /\ UNCHANGED <<recorded, acked>>

\* A run ends well, or its checkpoint takes in the steering it was given.
Record(S) ==
  /\ S \subseteq AcceptedSet
  /\ recorded' = recorded \cup S
  /\ UNCHANGED <<accepted, acked>>

Acknowledge(S) ==
  /\ S \subseteq recorded
  /\ acked' = acked \cup S
  /\ UNCHANGED <<accepted, recorded>>

Next ==
  \/ \E c \in Command : Accept(c)
  \/ \E S \in SUBSET Command : Record(S) \/ Acknowledge(S)

Spec == Init /\ [][Next]_vars
=============================================================================
