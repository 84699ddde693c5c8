--------------------------- MODULE OrderedDelivery ---------------------------
(***************************************************************************)
(* What a transactional outbox promises: every aggregate's messages reach  *)
(* the downstream in sequence order, none is skipped unless a message with *)
(* the same idempotency key was delivered, or it was given up after        *)
(* failing for good.  Redeliveries are invisible here (they stutter): the  *)
(* promise is at-least-once, in order of first delivery.                   *)
(***************************************************************************)
EXTENDS Integers

CONSTANTS Aggregates, Position, Keys, KeyOf

VARIABLES published,   \* messages the producers have committed
          delivered,   \* messages the downstream has received
          suppressed,  \* messages skipped as duplicates of delivered ones
          dropped      \* messages given up

vars == <<published, delivered, suppressed, dropped>>

Messages == Aggregates \X Position

Settled == delivered \cup suppressed \cup dropped

\* It is m's turn: m is published and all before it are settled.
Turn(m) == /\ m \in published
           /\ \A n \in Position : n < m[2] => <<m[1], n>> \in Settled

Init == /\ published = {}
        /\ delivered = {}
        /\ suppressed = {}
        /\ dropped = {}

Publish(m) == /\ m \notin published
              /\ \A n \in Position : n < m[2] => <<m[1], n>> \in published
              /\ published' = published \cup {m}

\* Giving up messages whose turn it is.
GiveUp == /\ dropped \subseteq dropped'
          /\ \A m \in dropped' \ dropped : Turn(m)

Deliver(m) == /\ Turn(m)
              /\ delivered' = delivered \cup {m}
              /\ UNCHANGED <<published, suppressed, dropped>>

Suppress == /\ suppressed \subseteq suppressed'
            /\ \A m \in suppressed' \ suppressed :
                 Turn(m) /\ \E n \in delivered : KeyOf[n] = KeyOf[m]
            /\ UNCHANGED <<published, delivered, dropped>>

Next == \/ (\E m \in Messages : Publish(m)) /\ GiveUp /\ UNCHANGED <<delivered, suppressed>>
        \/ GiveUp /\ UNCHANGED <<published, delivered, suppressed>>
        \/ \E m \in Messages : Deliver(m)
        \/ Suppress

Spec == Init /\ [][Next]_vars

\* A message reaches the downstream only after every earlier message of its
\* aggregate was settled.
InOrder ==
  \A m \in Messages : m \in Settled =>
    /\ m \in published
    /\ \A n \in Position : n < m[2] => <<m[1], n>> \in Settled
=============================================================================
