--------------------------- MODULE MultiTransport ---------------------------
(***************************************************************************)
(* udap.MultiTransport (udap/multi_transport.go): one pump goroutine per   *)
(* child UDPTransport forwards what it reads into the bounded channel      *)
(* merged; Recv takes from it, Close stops the pumps and joins them.  A    *)
(* pump runs UDPTransport.Recv (udap/transport.go) with a context that a   *)
(* watcher goroutine cancels.                                              *)
(***************************************************************************)
EXTENDS Naturals, Sequences, Selection

CONSTANTS
  Children,   \* the child transports, one per interface
  Receivers,  \* goroutines that call Recv
  Closers,    \* goroutines that call Close
  Arrivals,   \* bound: packets that arrive, numbered in that order
  Echo,       \* a request the kernel has looped back (UCPFlags & 1)
  Capacity,   \* of merged: 32 in the code
  Unsound     \* the children whose socket may fail on its own

Replies == 1..Arrivals
Packets == Replies \cup {Echo}

ASSUME PacketAssumption == Arrivals \in Nat /\ Echo \notin Replies
ASSUME ChannelAssumption == Capacity \in Nat \ {0} /\ Unsound \subseteq Children

VARIABLES
  arrived,  \* how many packets have arrived
  sock,     \* the receive buffer of each child's socket
  closed,   \* the children whose socket is closed
  broken,   \* the children whose socket has failed
  started,  \* startOnce has run
  pump,     \* what each pump goroutine does
  hand,     \* the packet a pump wants to forward: <<p>>, or <<>>
  watch,    \* the watcher goroutines
  cancelled,\* the pumps whose context is cancelled
  merged,   \* the channel
  stop,     \* the stop channel is closed
  closer,   \* what each caller of Close does
  recv,     \* what each caller of Recv does
  ctx,      \* the calls of Recv whose context is done
  out       \* ghost: what Recv has returned

network == <<arrived, sock, broken>>
pumps == <<pump, hand, watch, cancelled>>
api == <<closer, recv, ctx>>
vars == <<arrived, sock, closed, broken, started, pump, hand, watch, cancelled, merged,
          stop, closer, recv, ctx, out>>

Init ==
  /\ arrived = 0 /\ sock = [c \in Children |-> <<>>] /\ closed = {} /\ broken = {}
  /\ started = FALSE
  /\ pump = [c \in Children |-> "none"] /\ hand = [c \in Children |-> <<>>]
  /\ watch = [c \in Children |-> "none"] /\ cancelled = {}
  /\ merged = <<>> /\ stop = FALSE
  /\ closer = [k \in Closers |-> "idle"]
  /\ recv = [r \in Receivers |-> "idle"] /\ ctx = {} /\ out = <<>>

-----------------------------------------------------------------------------
(* Recv: the first call starts the pumps, one by one, and the others wait   *)
(* for it (startOnce); then select on the context and on merged, at random  *)
(* when both are ready.                                                     *)

NotStarted == {c \in Children : pump[c] = "none"}

Recv(r) ==
  /\ recv[r] = "idle" /\ (started => NotStarted = {})
  /\ recv' = [recv EXCEPT ![r] = IF started THEN "select" ELSE "spawn"]
  /\ started' = TRUE
  /\ UNCHANGED <<network, closed, pumps, merged, stop, closer, ctx, out>>

(* wg.Add and go: Close may be in wg.Wait, or already past it. *)
SpawnPump(r, c) ==
  /\ recv[r] = "spawn" /\ c \in NotStarted
  /\ pump' = [pump EXCEPT ![c] = "check"]
  /\ watch' = [watch EXCEPT ![c] = "wait"]
  /\ recv' = [recv EXCEPT ![r] = IF NotStarted = {c} THEN "select" ELSE "spawn"]
  /\ UNCHANGED <<network, closed, started, hand, cancelled, merged, stop, closer, ctx, out>>

Returns(r) == recv' = [recv EXCEPT ![r] = "idle"] /\ ctx' = ctx \ {r}

RecvPacket(r) ==
  /\ recv[r] = "select" /\ merged # <<>>
  /\ out' = Append(out, Head(merged).pkt) /\ merged' = Tail(merged)
  /\ Returns(r)
  /\ UNCHANGED <<network, closed, started, pumps, stop, closer>>

RecvCancelled(r) ==
  /\ recv[r] = "select" /\ r \in ctx
  /\ Returns(r)
  /\ UNCHANGED <<network, closed, started, pumps, merged, stop, closer, out>>

ContextDone(r) ==
  /\ recv[r] # "idle" /\ r \notin ctx
  /\ ctx' = ctx \cup {r}
  /\ UNCHANGED <<network, closed, started, pumps, merged, stop, closer, recv, out>>

-----------------------------------------------------------------------------
(* A pump: UDPTransport.Recv in a loop, then select on merged and stop.     *)

Exit(c) == pump' = [pump EXCEPT ![c] = "done"] /\ hand' = [hand EXCEPT ![c] = <<>>]

PumpChecks(c) ==
  /\ pump[c] = "check"
  /\ \/ c \in cancelled /\ Exit(c)
     \/ c \notin cancelled /\ pump' = [pump EXCEPT ![c] = "read"] /\ UNCHANGED hand
  /\ UNCHANGED <<network, closed, started, watch, cancelled, merged, stop, api, out>>

(* The 200 ms read deadline. *)
PumpTimesOut(c) ==
  /\ pump[c] = "read" /\ c \notin closed
  /\ pump' = [pump EXCEPT ![c] = "check"]
  /\ UNCHANGED <<network, closed, started, hand, watch, cancelled, merged, stop, api, out>>

PumpReads_Echoes(c) ==
  /\ pump[c] = "read" /\ c \notin closed /\ sock[c] # <<>>
  /\ sock' = [sock EXCEPT ![c] = Tail(@)]
  /\ pump' = [pump EXCEPT ![c] = "send"] /\ hand' = [hand EXCEPT ![c] = <<Head(sock[c])>>]
  /\ UNCHANGED <<arrived, broken, closed, started, watch, cancelled, merged, stop, api, out>>

(* A request the kernel has looped back is skipped. *)
PumpReads(c) ==
  /\ pump[c] = "read" /\ c \notin closed /\ sock[c] # <<>>
  /\ sock' = [sock EXCEPT ![c] = Tail(@)]
  /\ LET p == Head(sock[c]) IN
       \/ p = Echo /\ pump' = [pump EXCEPT ![c] = "check"] /\ UNCHANGED hand
       \/ p # Echo /\ pump' = [pump EXCEPT ![c] = "send"]
          /\ hand' = [hand EXCEPT ![c] = <<p>>]
  /\ UNCHANGED <<arrived, broken, closed, started, watch, cancelled, merged, stop, api, out>>

(* The read fails: the socket is closed, or broken; either way the pump     *)
(* ends, and says so in the log only.                                       *)
PumpFails(c) ==
  /\ pump[c] = "read"
  /\ \/ c \in closed /\ UNCHANGED broken
     \/ c \in Unsound \ closed /\ broken' = broken \cup {c}
  /\ Exit(c)
  /\ UNCHANGED <<arrived, sock, closed, started, watch, cancelled, merged, stop, api, out>>

PumpSends_Drops(c) ==
  /\ pump[c] = "send"
  /\ merged' = IF Len(merged) < Capacity
               THEN Append(merged, [link |-> c, pkt |-> hand[c][1]]) ELSE merged
  /\ pump' = [pump EXCEPT ![c] = "check"] /\ hand' = [hand EXCEPT ![c] = <<>>]
  /\ UNCHANGED <<network, closed, started, watch, cancelled, stop, api, out>>

PumpSends_Once(c) ==
  /\ pump[c] = "send" /\ Len(merged) < Capacity
  /\ merged' = Append(merged, [link |-> c, pkt |-> hand[c][1]])
  /\ Exit(c)
  /\ UNCHANGED <<network, closed, started, watch, cancelled, stop, api, out>>

PumpSends(c) ==
  /\ pump[c] = "send" /\ Len(merged) < Capacity
  /\ merged' = Append(merged, [link |-> c, pkt |-> hand[c][1]])
  /\ pump' = [pump EXCEPT ![c] = "check"] /\ hand' = [hand EXCEPT ![c] = <<>>]
  /\ UNCHANGED <<network, closed, started, watch, cancelled, stop, api, out>>

PumpStops_Never(c) == FALSE /\ UNCHANGED vars

PumpStops(c) ==
  /\ pump[c] = "send" /\ stop
  /\ Exit(c)
  /\ UNCHANGED <<network, closed, started, watch, cancelled, merged, stop, api, out>>

WatcherCancels_AfterExit(c) ==
  /\ watch[c] = "wait" /\ stop /\ pump[c] # "done"
  /\ watch' = [watch EXCEPT ![c] = "gone"] /\ cancelled' = cancelled \cup {c}
  /\ UNCHANGED <<network, closed, started, pump, hand, merged, stop, api, out>>

(* The watcher turns stop into the cancellation of its pump's context. *)
WatcherCancels(c) ==
  /\ watch[c] = "wait" /\ stop
  /\ watch' = [watch EXCEPT ![c] = "gone"] /\ cancelled' = cancelled \cup {c}
  /\ UNCHANGED <<network, closed, started, pump, hand, merged, stop, api, out>>

-----------------------------------------------------------------------------
(* Close: closeOnce runs the body once; the other callers wait for it.      *)

Running == {c \in Children : pump[c] \notin {"none", "done"}}

CloseBegins(k) ==
  /\ closer[k] = "idle"
  /\ IF stop THEN closer' = [closer EXCEPT ![k] = "once"] /\ UNCHANGED stop
     ELSE closer' = [closer EXCEPT ![k] = "children"] /\ stop' = TRUE
  /\ UNCHANGED <<network, closed, started, pumps, merged, recv, ctx, out>>

CloseChild(k, c) ==
  /\ closer[k] = "children" /\ c \notin closed
  /\ closed' = closed \cup {c} /\ sock' = [sock EXCEPT ![c] = <<>>]
  /\ UNCHANGED <<arrived, broken, started, pumps, merged, stop, api, out>>

(* wg.Wait returns when no pump runs: those not started yet do not count.   *)
CloseJoins_NoWait(k) ==
  /\ closer[k] = "children" /\ closed = Children
  /\ closer' = [closer EXCEPT ![k] = "done"]
  /\ UNCHANGED <<network, closed, started, pumps, merged, stop, recv, ctx, out>>

CloseJoins(k) ==
  /\ closer[k] = "children" /\ closed = Children /\ Running = {}
  /\ closer' = [closer EXCEPT ![k] = "done"]
  /\ UNCHANGED <<network, closed, started, pumps, merged, stop, recv, ctx, out>>

CloseAgain(k) ==
  /\ closer[k] = "once" /\ \E other \in Closers : closer[other] = "done"
  /\ closer' = [closer EXCEPT ![k] = "done"]
  /\ UNCHANGED <<network, closed, started, pumps, merged, stop, recv, ctx, out>>

(* The network. *)
PacketArrives(c) ==
  /\ arrived < Arrivals /\ c \notin closed
  /\ arrived' = arrived + 1
  /\ \E p \in {arrived + 1, Echo} : sock' = [sock EXCEPT ![c] = Append(@, p)]
  /\ UNCHANGED <<closed, broken, started, pumps, merged, stop, api, out>>

-----------------------------------------------------------------------------
ReceiverStep ==
  \E r \in Receivers : \/ Recv(r) \/ RecvPacket(r) \/ RecvCancelled(r) \/ ContextDone(r)
                       \/ \E c \in Children : SpawnPump(r, c)

PumpStep ==
  \E c \in Children : \/ PumpChecks(c) \/ PumpTimesOut(c) \/ PumpReads(c) \/ PumpFails(c)
                      \/ PumpSends(c) \/ PumpStops(c) \/ WatcherCancels(c)

CloserStep ==
  \E k \in Closers : CloseBegins(k) \/ CloseJoins(k) \/ CloseAgain(k)
                     \/ \E c \in Children : CloseChild(k, c)

Next ==
  ReceiverStep \/ PumpStep \/ CloserStep
  \/ \E c \in Children : PacketArrives(c)

Spec == Init /\ [][Next]_vars

(* Goroutines run; the channel serves blocked senders in turn, and a packet *)
(* in a socket's buffer is read before 200 ms have passed again and again:  *)
(* strong fairness.  Nobody need call Recv or Close, no packet need arrive. *)
Fairness ==
  /\ \A c \in Children :
       /\ WF_vars(PumpChecks(c)) /\ WF_vars(PumpTimesOut(c)) /\ SF_vars(PumpReads(c))
       /\ WF_vars(c \in closed /\ PumpFails(c))
       /\ SF_vars(PumpSends(c)) /\ WF_vars(PumpStops(c)) /\ WF_vars(WatcherCancels(c))
  /\ WF_vars(\E r \in Receivers, c \in Children : SpawnPump(r, c))
  /\ \A k \in Closers : /\ WF_vars(CloseJoins(k)) /\ WF_vars(CloseAgain(k))
                        /\ WF_vars(\E c \in Children : CloseChild(k, c))

FairSpec == Spec /\ Fairness

-----------------------------------------------------------------------------
TypeOK ==
  /\ arrived \in 0..Arrivals /\ sock \in [Children -> Seq(Packets)]
  /\ closed \subseteq Children /\ broken \subseteq Children
  /\ started \in BOOLEAN /\ stop \in BOOLEAN
  /\ pump \in [Children -> {"none", "check", "read", "send", "done"}]
  /\ hand \in [Children -> {<<>>} \cup {<<p>> : p \in Replies}]
  /\ \A c \in Children : hand[c] # <<>> <=> pump[c] = "send"
  /\ watch \in [Children -> {"none", "wait", "gone"}] /\ cancelled \subseteq Children
  /\ merged \in Seq([link : Children, pkt : Replies]) /\ Len(merged) <= Capacity
  /\ closer \in [Closers -> {"idle", "once", "children", "done"}]
  /\ recv \in [Receivers -> {"idle", "spawn", "select"}] /\ ctx \subseteq Receivers
  /\ out \in Seq(Replies)

(* The packets a child still owes its callers: in merged, in its pump's     *)
(* hand, in its socket while somebody reads it.                             *)
Forwarded(c, entries) ==
  LET sent == Selected(entries, [link : {c}, pkt : Replies]) IN [i \in DOMAIN sent |-> sent[i].pkt]
Unread(c) == IF pump[c] = "done" THEN <<>> ELSE hand[c] \o Selected(sock[c], Replies)
Owed(c) == Forwarded(c, merged) \o Unread(c)

Port == INSTANCE PacketPort WITH
  Links <- Children, Packets <- Replies, queue <- [c \in Children |-> Owed(c)],
  open <- ~stop, deaf <- broken

(* The merged transport is a port: each reply once, in its link's order,    *)
(* none lost while it is open and its link sound, no echo ever delivered    *)
(* (multi_transport.go:70-127, loopback.go).                                *)
IsPort == Port!Spec

(* Once Close has returned, nobody is left who could push into merged: the  *)
(* pumps a first Recv starts too late for wg.Wait to see find their sockets *)
(* closed (multi_transport.go:91-96, 131-140).                              *)
NothingAfterClose ==
  (\E k \in Closers : closer[k] = "done") => \A c \in Children : pump[c] # "send"

(* Close returns, whatever the pumps wait for: a full channel nobody drains,*)
(* a silent socket, a Recv that starts them meanwhile.                      *)
CloseReturns == \A k \in Closers : closer[k] # "idle" ~> closer[k] = "done"

(* Close leaves no goroutine behind. *)
NoLeak == stop ~> \A c \in Children : pump[c] \in {"none", "done"} /\ watch[c] # "wait"

(* A client that keeps receiving, and is there when a packet is. *)
ClientReceives == \A r \in Receivers : WF_vars(Recv(r)) /\ SF_vars(RecvPacket(r))

(* A reply on a sound link reaches a client that keeps receiving: no pump   *)
(* starves behind a busy one, and a full channel only delays.               *)
Waits(p) ==
  \E c \in Children \ broken :
    \/ hand[c] = <<p>> \/ \E i \in 1..Len(sock[c]) : sock[c][i] = p
    \/ \E i \in 1..Len(merged) : merged[i] = [link |-> c, pkt |-> p]

EveryReplyComes ==
  ClientReceives => \A p \in Replies : Waits(p) ~> stop \/ ~Waits(p)

=============================================================================
