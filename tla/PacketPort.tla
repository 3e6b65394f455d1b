----------------------------- MODULE PacketPort -----------------------------
(***************************************************************************)
(* What udap.Client needs of a Transport that listens on several links     *)
(* (the Transport interface of udap/transport.go): the packets of a link   *)
(* come out once each and in the order they came in, and nothing is lost   *)
(* before the transport is closed, except at the end of a link that fails. *)
(***************************************************************************)
EXTENDS Naturals, Sequences

CONSTANTS Links, Packets

VARIABLES
  queue,  \* the packets each link still owes
  out,    \* the packets Recv has returned
  open,   \* Close has not been called
  deaf    \* the links that have failed

portVars == <<queue, out, open, deaf>>

Init ==
  /\ queue = [l \in Links |-> <<>>] /\ out = <<>>
  /\ open = TRUE /\ deaf = {}

Arrive(l) ==
  /\ \E p \in Packets : queue' = [queue EXCEPT ![l] = Append(@, p)]
  /\ UNCHANGED <<out, open, deaf>>

Deliver(l) ==
  /\ queue[l] # <<>>
  /\ out' = Append(out, Head(queue[l])) /\ queue' = [queue EXCEPT ![l] = Tail(@)]
  /\ UNCHANGED <<open, deaf>>

(* Of these links, the packets at the end of the queue are lost. *)
Cut(links) ==
  /\ DOMAIN queue' = Links
  /\ \A l \in Links : \E n \in 0..Len(queue[l]) :
       queue'[l] = SubSeq(queue[l], 1, n) /\ (l \notin links => n = Len(queue[l]))

Fail(l) ==
  /\ deaf' = deaf \cup {l} /\ Cut({l})
  /\ UNCHANGED <<out, open>>

Close ==
  /\ open /\ open' = FALSE /\ Cut(Links)
  /\ UNCHANGED <<out, deaf>>

Lose(l) ==
  /\ ~open /\ Cut({l})
  /\ UNCHANGED <<out, open, deaf>>

Next ==
  \/ Close
  \/ \E l \in Links : Fail(l)
  \/ \E l \in Links : queue'[l] # queue[l] /\ (Arrive(l) \/ Deliver(l) \/ Lose(l))

Spec == Init /\ [][Next]_portVars

=============================================================================
