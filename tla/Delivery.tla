------------------------------ MODULE Delivery ------------------------------
(***************************************************************************)
(* What a link to devices promises whoever dispatches commands over it,    *)
(* without threads, queues, frames or acknowledgements.  Commands are      *)
(* numbered in the order in which they are accepted.  One that is fresh    *)
(* arrives before all that come after it and after all that came before;   *)
(* one is lost only with an outage.  On a link that repeats, an outage     *)
(* itself loses nothing, but makes what it finds stale: that may come in   *)
(* any order, and once more, or be given up while the link is down.        *)
(***************************************************************************)
EXTENDS Integers, Sequences

CONSTANT Repeats

VARIABLES
  down,
  sent,       \* the commands accepted
  underway,   \* those that will still arrive
  fresh,      \* those of them whose place in the order is kept
  delivered   \* those that arrived, in order

Init == down = FALSE /\ sent = {} /\ underway = {} /\ fresh = {} /\ delivered = <<>>

(* Numbers are never used twice; they need not be consecutive.             *)
Send ==
  \E n \in sent' \ sent :
    /\ \A m \in sent : m < n
    /\ sent' = sent \cup {n}
    /\ underway' = underway \cup {n} /\ fresh' = fresh \cup {n}
    /\ UNCHANGED <<down, delivered>>

Deliver(n) ==
  /\ n \in underway
  /\ n \in fresh => \A m \in underway : n <= m
  /\ delivered' = Append(delivered, n)
  /\ underway' = underway \ {n} /\ fresh' = fresh \ {n}
  /\ UNCHANGED <<down, sent>>

Outage ==
  /\ down' = TRUE
  /\ IF Repeats
     THEN /\ underway \subseteq underway'
          /\ underway' \subseteq underway \cup {delivered[i] : i \in DOMAIN delivered}
          /\ fresh' = {}
     ELSE /\ underway' \subseteq underway
          /\ fresh' = underway'
  /\ UNCHANGED <<sent, delivered>>

(* The link may be up again, too.                                          *)
Lose ==
  /\ down
  /\ down' \in BOOLEAN
  /\ underway' \subseteq underway /\ fresh' = fresh \cap underway'
  /\ UNCHANGED <<sent, delivered>>

Next == Send \/ (\E n \in underway : Deliver(n)) \/ Outage \/ Lose

Spec == Init /\ [][Next]_<<down, sent, underway, fresh, delivered>>
=============================================================================
