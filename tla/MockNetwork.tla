---------------------------- MODULE MockNetwork ----------------------------
(***************************************************************************)
(* The mock device network of the hermetic tests: mocksbr.Network and its  *)
(* devices (mocksbr/handlers.go, device.go, network.go) behind one         *)
(* mocksbr.MockTransport (mocksbr/transport.go).  A Send runs the devices  *)
(* on the caller's goroutine, one critical section at a time; the replies  *)
(* of a slow device are queued by timers; Recv and Close run beside them.  *)
(***************************************************************************)
EXTENDS Naturals, Sequences, SequencesExt, Selection

CONSTANTS
  Devices,    \* Network.order
  Params, Vals,
  Factory,    \* the factory value of every parameter
  Senders,    \* goroutines that call Send
  Receivers,  \* goroutines that call Recv
  Writes,     \* the parameter maps a SetData may carry
  Slow,       \* devices with DeviceConfig.Slow > 0
  Unreachable,\* devices that hear nothing
  FailOn,     \* <<device, method>>: refused
  Drop,       \* <<device, method>>: ignored (DropGetData and its like)
  MaxSends    \* bound: requests sent

Nodes == Range(Devices)
Methods == {"AdvDisc", "GetData", "SetData", "Reset"}

ASSUME DevicesAssumption == Devices \in Seq(Nodes) /\ IsInjective(Devices) /\ Devices # <<>>
ASSUME FactoryAssumption == Factory \in Vals
ASSUME KnobAssumption ==
  /\ Slow \subseteq Nodes /\ Unreachable \subseteq Nodes
  /\ FailOn \subseteq Nodes \X Methods /\ Drop \subseteq Nodes \X {"GetData"}
ASSUME BoundAssumption == MaxSends \in Nat

Configs == UNION {[S -> Vals] : S \in SUBSET Params}
ASSUME WriteAssumption == Writes \subseteq Configs

VARIABLES
  work,    \* workingMemory of each device
  nvram,   \* nvram of each device
  window,  \* rebootDeadline: "none", "ahead" or "past"
  sends,   \* requests sent so far
  pc,      \* where each sender is
  op,      \* the request it is handling
  todo,    \* the devices it has still to ask
  replies, \* the replies it has collected and not yet scheduled
  timers,  \* the replies that wait for their AfterFunc
  rings,   \* goroutines between their critical section and notifyWaiter
  pending, \* MockTransport.pending
  wakeup,  \* a token is in the wakeup channel
  closed,  \* MockTransport.closed
  recv,    \* where each receiver is
  ctx,     \* the receivers whose context is done
  out,     \* ghost: what Recv has returned
  acked    \* ghost: the factory values and every acknowledged set, merged

memory == <<work, nvram, window, acked>>
sender == <<sends, pc, op, todo, replies>>
mailbox == <<pending, wakeup, closed>>
reader == <<recv, ctx, out>>
vars == <<work, nvram, window, acked, sends, pc, op, todo, replies, timers, rings,
          pending, wakeup, closed, recv, ctx, out>>

Nothing == [p \in {} |-> Factory]
Requests == [n : 1..MaxSends, method : Methods, node : Nodes, data : Configs]
Replies == [n : 1..MaxSends, node : Nodes, method : Methods \cup {"Error"}, data : Configs]

(* maps.Copy.  Here too X_Y is X with the bug Y. *)
Merge_Replaces(old, new) == new
Merge(old, new) == [p \in Params |-> IF p \in DOMAIN new THEN new[p] ELSE old[p]]

Init ==
  /\ work = [d \in Nodes |-> [p \in Params |-> Factory]] /\ nvram = work /\ acked = work
  /\ window = [d \in Nodes |-> "none"]
  /\ sends = 0 /\ pc = [s \in Senders |-> "idle"] /\ op = [s \in Senders |-> <<>>]
  /\ todo = [s \in Senders |-> <<>>] /\ replies = [s \in Senders |-> <<>>]
  /\ timers = {} /\ rings = 0
  /\ pending = <<>> /\ wakeup = FALSE /\ closed = FALSE
  /\ recv = [r \in Receivers |-> "idle"] /\ ctx = {} /\ out = <<>>

-----------------------------------------------------------------------------
(* Send: ask the devices concerned, in the network's order. *)

Goto(s, where) == pc' = [pc EXCEPT ![s] = where]

Send(s) ==
  /\ pc[s] = "idle" /\ sends < MaxSends /\ sends' = sends + 1
  /\ \E method \in Methods, d \in Nodes, data \in Writes \cup {Nothing} :
       /\ data \in IF method = "SetData" THEN Writes ELSE {Nothing}
       /\ op' = [op EXCEPT ![s] = <<[n |-> sends', method |-> method, node |-> d, data |-> data]>>]
       /\ todo' = [todo EXCEPT ![s] = IF method = "AdvDisc" THEN Devices ELSE <<d>>]
  /\ Goto(s, "ask")
  /\ UNCHANGED <<memory, replies, timers, rings, mailbox, reader>>

At(s) == Head(todo[s])
Op(s) == op[s][1]
Asks(s, method) == pc[s] = "handle" /\ Op(s).method = method /\ <<At(s), method>> \notin FailOn

Done(s) == todo' = [todo EXCEPT ![s] = Tail(@)] /\ Goto(s, "ask")

Answers(s, method, data) ==
  /\ replies' = [replies EXCEPT ![s] = Append(@,
       [n |-> Op(s).n, node |-> At(s), method |-> method, data |-> data])]
  /\ Done(s)

(* A device that rejects discovery does not reply. *)
Ignored(s) ==
  /\ pc[s] = "ask" /\ todo[s] # <<>>
  /\ At(s) \in Unreachable \/ (Op(s).method = "AdvDisc" /\ <<At(s), "AdvDisc">> \in FailOn)
  /\ Done(s)
  /\ UNCHANGED <<memory, sends, op, replies, timers, rings, mailbox, reader>>

Heard(s) ==
  /\ pc[s] = "ask" /\ todo[s] # <<>> /\ At(s) \notin Unreachable
  /\ Op(s).method = "AdvDisc" => <<At(s), "AdvDisc">> \notin FailOn

(* rebooting(): silence within the window; the first packet after it loads  *)
(* the saved configuration.                                                 *)
Rebooting(s) ==
  /\ Heard(s) /\ window[At(s)] = "ahead"
  /\ Done(s)
  /\ UNCHANGED <<memory, sends, op, replies, timers, rings, mailbox, reader>>

Awake_AnyTime(s) ==
  /\ Heard(s)
  /\ Goto(s, "handle")
  /\ UNCHANGED <<memory, sends, op, todo, replies, timers, rings, mailbox, reader>>

Awake(s) ==
  /\ Heard(s) /\ window[At(s)] # "ahead"
  /\ IF window[At(s)] = "past"
     THEN work' = [work EXCEPT ![At(s)] = nvram[At(s)]] /\ window' = [window EXCEPT ![At(s)] = "none"]
     ELSE UNCHANGED <<work, window>>
  /\ Goto(s, "handle")
  /\ UNCHANGED <<nvram, acked, sends, op, todo, replies, timers, rings, mailbox, reader>>

Refuses(s) ==
  /\ pc[s] = "handle" /\ <<At(s), Op(s).method>> \in FailOn
  /\ Answers(s, "Error", Nothing)
  /\ UNCHANGED <<memory, sends, op, timers, rings, mailbox, reader>>

Drops(s) ==
  /\ Asks(s, "GetData") /\ <<At(s), "GetData">> \in Drop
  /\ Done(s)
  /\ UNCHANGED <<memory, sends, op, replies, timers, rings, mailbox, reader>>

AnswersDiscovery(s) ==
  /\ Asks(s, "AdvDisc")
  /\ Answers(s, "AdvDisc", Nothing)
  /\ UNCHANGED <<memory, sends, op, timers, rings, mailbox, reader>>

AnswersGet(s) ==
  /\ Asks(s, "GetData") /\ <<At(s), "GetData">> \notin Drop
  /\ Answers(s, "GetData", work[At(s)])
  /\ UNCHANGED <<memory, sends, op, timers, rings, mailbox, reader>>

(* handleSetData: applySet, then applySave. *)
AppliesSet(s) ==
  /\ Asks(s, "SetData")
  /\ work' = [work EXCEPT ![At(s)] = Merge(@, Op(s).data)]
  /\ Goto(s, "save")
  /\ UNCHANGED <<nvram, window, acked, sends, op, todo, replies, timers, rings, mailbox, reader>>

Saves_Request(s) ==
  /\ pc[s] = "save"
  /\ nvram' = [nvram EXCEPT ![At(s)] = Merge([p \in Params |-> Factory], Op(s).data)]
  /\ acked' = [acked EXCEPT ![At(s)] = Merge(@, Op(s).data)]
  /\ Answers(s, "SetData", Nothing)
  /\ UNCHANGED <<work, window, sends, op, timers, rings, mailbox, reader>>

Saves(s) ==
  /\ pc[s] = "save"
  /\ nvram' = [nvram EXCEPT ![At(s)] = work[At(s)]]
  /\ acked' = [acked EXCEPT ![At(s)] = Merge(@, Op(s).data)]
  /\ Answers(s, "SetData", Nothing)
  /\ UNCHANGED <<work, window, sends, op, timers, rings, mailbox, reader>>

(* A reset opens the window (startReboot), then reloads (applyReset). *)
StartsReboot(s) ==
  /\ Asks(s, "Reset")
  /\ window' = [window EXCEPT ![At(s)] = "ahead"]
  /\ Goto(s, "reload")
  /\ UNCHANGED <<work, nvram, acked, sends, op, todo, replies, timers, rings, mailbox, reader>>

Reloads(s) ==
  /\ pc[s] = "reload"
  /\ work' = [work EXCEPT ![At(s)] = nvram[At(s)]]
  /\ Answers(s, "Reset", Nothing)
  /\ UNCHANGED <<nvram, window, acked, sends, op, timers, rings, mailbox, reader>>

(* RebootDelay elapses. *)
WindowCloses(d) ==
  /\ window[d] = "ahead"
  /\ window' = [window EXCEPT ![d] = "past"]
  /\ UNCHANGED <<work, nvram, acked, sender, timers, rings, mailbox, reader>>

-----------------------------------------------------------------------------
(* scheduleReply and enqueue, once every device has answered. *)

Scheduling(s) == pc[s] = "ask" /\ todo[s] = <<>> /\ replies[s] # <<>>

StartsTimer(s) ==
  /\ Scheduling(s) /\ Head(replies[s]).node \in Slow
  /\ timers' = timers \cup {Head(replies[s])}
  /\ replies' = [replies EXCEPT ![s] = Tail(@)]
  /\ UNCHANGED <<memory, sends, pc, op, todo, rings, mailbox, reader>>

Queued_Reversed(r) == pending' = IF closed THEN pending ELSE <<r>> \o pending
Queued(r) == pending' = IF closed THEN pending ELSE Append(pending, r)

Enqueues(s) ==
  /\ Scheduling(s) /\ Head(replies[s]).node \notin Slow
  /\ Queued(Head(replies[s]))
  /\ replies' = [replies EXCEPT ![s] = Tail(@)]
  /\ IF closed THEN UNCHANGED pc ELSE Goto(s, "notify")
  /\ UNCHANGED <<memory, sends, op, todo, timers, rings, wakeup, closed, reader>>

Notifies(s) ==
  /\ pc[s] = "notify"
  /\ wakeup' = TRUE
  /\ Goto(s, "ask")
  /\ UNCHANGED <<memory, sends, op, todo, replies, timers, rings, pending, closed, reader>>

SendReturns(s) ==
  /\ pc[s] = "ask" /\ todo[s] = <<>> /\ replies[s] = <<>>
  /\ Goto(s, "idle") /\ op' = [op EXCEPT ![s] = <<>>]
  /\ UNCHANGED <<memory, sends, todo, replies, timers, rings, mailbox, reader>>

TimerFires(r) ==
  /\ r \in timers
  /\ timers' = timers \ {r}
  /\ Queued(r)
  /\ rings' = IF closed THEN rings ELSE rings + 1
  /\ UNCHANGED <<memory, sender, wakeup, closed, reader>>

(* notifyWaiter in a timer's goroutine, or in Close: the channel holds one  *)
(* token, a second is dropped.                                              *)
Rings ==
  /\ rings > 0 /\ rings' = rings - 1
  /\ wakeup' = TRUE
  /\ UNCHANGED <<memory, sender, timers, pending, closed, reader>>

(* A second Close only rings again. *)
Close_Silent ==
  /\ ~closed /\ closed' = TRUE /\ pending' = <<>>
  /\ UNCHANGED <<memory, sender, timers, rings, wakeup, reader>>

Close ==
  /\ ~closed /\ closed' = TRUE /\ pending' = <<>>
  /\ rings' = rings + 1
  /\ UNCHANGED <<memory, sender, timers, wakeup, reader>>

-----------------------------------------------------------------------------
(* Recv: look under the lock, then sleep until a token or the context. *)

Recv(r) ==
  /\ recv[r] = "idle"
  /\ recv' = [recv EXCEPT ![r] = "look"]
  /\ UNCHANGED <<memory, sender, timers, rings, mailbox, ctx, out>>

RecvReturns(r) == recv' = [recv EXCEPT ![r] = "idle"] /\ ctx' = ctx \ {r}

RecvClosed(r) ==
  /\ recv[r] = "look" /\ closed
  /\ RecvReturns(r)
  /\ UNCHANGED <<memory, sender, timers, rings, mailbox, out>>

RecvTakes(r) ==
  /\ recv[r] = "look" /\ ~closed /\ pending # <<>>
  /\ out' = Append(out, Head(pending)) /\ pending' = Tail(pending)
  /\ RecvReturns(r)
  /\ UNCHANGED <<memory, sender, timers, rings, wakeup, closed>>

RecvSleeps(r) ==
  /\ recv[r] = "look" /\ ~closed /\ pending = <<>>
  /\ recv' = [recv EXCEPT ![r] = "sleep"]
  /\ UNCHANGED <<memory, sender, timers, rings, mailbox, ctx, out>>

RecvWakes(r) ==
  /\ recv[r] = "sleep" /\ wakeup
  /\ recv' = [recv EXCEPT ![r] = "look"] /\ wakeup' = FALSE
  /\ UNCHANGED <<memory, sender, timers, rings, pending, closed, ctx, out>>

RecvCancelled(r) ==
  /\ recv[r] = "sleep" /\ r \in ctx
  /\ RecvReturns(r)
  /\ UNCHANGED <<memory, sender, timers, rings, mailbox, out>>

ContextDone(r) ==
  /\ recv[r] = "sleep" /\ r \notin ctx
  /\ ctx' = ctx \cup {r}
  /\ UNCHANGED <<memory, sender, timers, rings, mailbox, recv, out>>

-----------------------------------------------------------------------------
SenderStep(s) ==
  \/ Ignored(s) \/ Rebooting(s) \/ Awake(s) \/ Refuses(s) \/ Drops(s)
  \/ AnswersDiscovery(s) \/ AnswersGet(s) \/ AppliesSet(s) \/ Saves(s)
  \/ StartsReboot(s) \/ Reloads(s)
  \/ StartsTimer(s) \/ Enqueues(s) \/ Notifies(s) \/ SendReturns(s)

ReceiverStep(r) ==
  RecvClosed(r) \/ RecvTakes(r) \/ RecvSleeps(r) \/ RecvWakes(r)

Next ==
  \/ \E s \in Senders : Send(s) \/ SenderStep(s)
  \/ \E d \in Nodes : WindowCloses(d)
  \/ (\E r \in timers : TimerFires(r)) \/ Rings \/ Close
  \/ \E r \in Receivers : Recv(r) \/ ReceiverStep(r) \/ RecvCancelled(r) \/ ContextDone(r)

Spec == Init /\ [][Next]_vars

-----------------------------------------------------------------------------
TypeOK ==
  /\ work \in [Nodes -> [Params -> Vals]] /\ nvram \in [Nodes -> [Params -> Vals]]
  /\ acked \in [Nodes -> [Params -> Vals]]
  /\ window \in [Nodes -> {"none", "ahead", "past"}]
  /\ sends \in 0..MaxSends
  /\ pc \in [Senders -> {"idle", "ask", "handle", "save", "reload", "notify"}]
  /\ op \in [Senders -> Seq(Requests)]
  /\ \A s \in Senders : op[s] = <<>> <=> pc[s] = "idle"
  /\ todo \in [Senders -> Seq(Nodes)] /\ replies \in [Senders -> Seq(Replies)]
  /\ timers \subseteq Replies /\ rings \in Nat
  /\ pending \in Seq(Replies) /\ wakeup \in BOOLEAN /\ closed \in BOOLEAN
  /\ recv \in [Receivers -> {"idle", "look", "sleep"}] /\ ctx \subseteq Receivers
  /\ out \in Seq(Replies)

(* The replies of a device that answers at once stay in order; each reply   *)
(* of a slow one has a timer of its own, and so a link of its own.          *)
Names == (1..MaxSends) \X Nodes
Name(r) == <<r.n, r.node>>
Link(name) == IF name[2] \in Slow THEN name ELSE <<0, name[2]>>
Links == {<<0, d>> : d \in Nodes \ Slow} \cup (1..MaxSends) \X Slow

Named(entries) == [i \in DOMAIN entries |-> Name(entries[i])]
Queue(l, names) == Selected(names, {name \in Names : Link(name) = l})
Late(l) == IF \E r \in timers : Link(Name(r)) = l THEN <<l>> ELSE <<>>
Owed(l) == Queue(l, Named(pending)) \o Late(l)

Port == INSTANCE PacketPort WITH
  Packets <- Names, queue <- [l \in Links |-> Owed(l)],
  out <- Named(out), open <- ~closed, deaf <- {}

(* The mock transport is the port UDP gives the client, and stricter: it    *)
(* loses nothing before Close (mocksbr/transport.go:44-123).                *)
IsPort == Port!Spec

(* An acknowledged set survives every reset and reboot that follows it      *)
(* (mocksbr/handlers.go:151-169, device.go:161-217): while no request is    *)
(* being handled, memory and NVRAM hold what was acknowledged.              *)
AckedSurvives ==
  (\A s \in Senders : todo[s] = <<>>) => \A d \in Nodes : work[d] = acked[d] /\ nvram[d] = acked[d]

(* "Devices in their post-Reset reboot window silently drop packets"        *)
(* (mocksbr/handlers.go:27): only the reset itself is answered within it.   *)
SilentInWindow ==
  [][\A s \in Senders :
       replies'[s] # replies[s] /\ todo[s] # <<>> /\ window[At(s)] = "ahead"
         => Op(s).method = "Reset"]_vars

(* No lost wake-up: while a reply is pending, or the transport is closed, a *)
(* receiver does not sleep unless somebody is about to wake one             *)
(* (mocksbr/transport.go:76-130).                                           *)
NoLostWakeup ==
  (pending # <<>> \/ closed) /\ (\E r \in Receivers : recv[r] = "sleep") =>
    \/ wakeup \/ rings > 0
    \/ \E s \in Senders : pc[s] = "notify"
    \/ \E r \in Receivers : recv[r] = "look"

=============================================================================
