--------------------------- MODULE PaidCallLedger ---------------------------
(***************************************************************************)
(* What the kernel promises about the paid calls of a project, without     *)
(* processes, locks, tasks or stages: a call is claimed durably before its *)
(* request leaves, the request leaves once, the provider answers once, the *)
(* answer is stored as it came, and only a stored complete answer becomes  *)
(* part of the stage's work.                                               *)
(***************************************************************************)
EXTENDS Naturals

CONSTANTS Calls, Replies

VARIABLES
  claimed,   \* calls that have a row
  sent,      \* how often the request of each call went on the wire
  answer,    \* what the provider delivered to a process
  stored,    \* what the row keeps
  delivered  \* calls whose answer was compiled into the stage

ledger == <<claimed, sent, answer, stored, delivered>>

Init ==
  /\ claimed = {} /\ delivered = {}
  /\ sent = [c \in Calls |-> 0]
  /\ answer = [c \in Calls |-> "none"]
  /\ stored = [c \in Calls |-> "none"]

Claim(c) ==
  /\ c \notin claimed
  /\ claimed' = claimed \cup {c}
  /\ UNCHANGED <<sent, answer, stored, delivered>>

Send(c) ==
  /\ c \in claimed /\ sent[c] = 0
  /\ sent' = [sent EXCEPT ![c] = 1]
  /\ UNCHANGED <<claimed, answer, stored, delivered>>

Answer(c, reply) ==
  /\ sent[c] = 1 /\ answer[c] = "none"
  /\ answer' = [answer EXCEPT ![c] = reply]
  /\ UNCHANGED <<claimed, sent, stored, delivered>>

Store(c) ==
  /\ answer[c] # "none" /\ stored[c] = "none"
  /\ stored' = [stored EXCEPT ![c] = answer[c]]
  /\ UNCHANGED <<claimed, sent, answer, delivered>>

Deliver(c) ==
  /\ stored[c] = "good"
  /\ delivered' = delivered \cup {c}
  /\ UNCHANGED <<claimed, sent, answer, stored>>

Next ==
  \E c \in Calls :
    \/ Claim(c) \/ Send(c) \/ Store(c) \/ Deliver(c)
    \/ \E reply \in Replies : Answer(c, reply)

Spec == Init /\ [][Next]_ledger
=============================================================================
