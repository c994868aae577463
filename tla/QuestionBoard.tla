--------------------------- MODULE QuestionBoard ---------------------------
(***************************************************************************)
(* What the interaction machinery promises the learner and the graph: a    *)
(* question is asked once under its identity, one answer wins for good,    *)
(* that answer and no other is announced, at most once and for good, and   *)
(* the graph takes in no other answer.  Interactions implements this.      *)
(***************************************************************************)
EXTENDS Naturals, Sequences

CONSTANTS Question, Reply, NoReply

VARIABLES
  asked,   \* questions that exist
  reply,   \* the answer that won, or NoReply
  told,    \* announcements of <<question, reply>>, by their place in the log
  taken    \* answers the graph has taken in, in order

vars == <<asked, reply, told, taken>>

Occurs(x, s) == \E i \in DOMAIN s : s[i] = x

Init ==
  /\ asked = {}
  /\ reply = [q \in Question |-> NoReply]
  /\ told = <<>>
  /\ taken = <<>>

Ask(q) ==
  /\ q \notin asked
  /\ asked' = asked \cup {q}
  /\ UNCHANGED <<reply, told, taken>>

Settle(q, a) ==
  /\ q \in asked
  /\ reply[q] = NoReply
  /\ reply' = [reply EXCEPT ![q] = a]
  /\ UNCHANGED <<asked, told, taken>>

Tell(q) ==
  /\ reply[q] # NoReply
  /\ ~Occurs(<<q, reply[q]>>, told)
  /\ \E n \in DOMAIN told' :
       /\ \A i \in DOMAIN told : i < n
       /\ told' = [i \in DOMAIN told \cup {n} |->
                    IF i = n THEN <<q, reply[q]>> ELSE told[i]]
  /\ UNCHANGED <<asked, reply, taken>>

Take(q) ==
  /\ reply[q] # NoReply
  /\ taken' = Append(taken, <<q, reply[q]>>)
  /\ UNCHANGED <<asked, reply, told>>

Next ==
  \E q \in Question :
    \/ Ask(q)
    \/ \E a \in Reply : Settle(q, a)
    \/ Tell(q)
    \/ Take(q)

Spec == Init /\ [][Next]_vars
=============================================================================
