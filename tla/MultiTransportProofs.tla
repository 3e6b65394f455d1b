------------------------ MODULE MultiTransportProofs ------------------------
(***************************************************************************)
(* Proofs about MultiTransport, for every set of children, receivers and   *)
(* closers and every capacity: its variables keep their types, the channel *)
(* its bound, and once a Close has returned no pump forwards anything.     *)
(***************************************************************************)
EXTENDS MultiTransport, SelectionProofs, SequenceTheorems, TLAPS

Entry == [link : Children, pkt : Replies]

(* The parts of TypeOK the steps disturb together. *)
NetworkType == arrived \in 0..Arrivals /\ sock \in [Children -> Seq(Packets)]
                 /\ closed \subseteq Children /\ broken \subseteq Children
PumpType ==
  /\ pump \in [Children -> {"none", "check", "read", "send", "done"}]
  /\ hand \in [Children -> {<<>>} \cup {<<p>> : p \in Replies}]
  /\ \A c \in Children : hand[c] # <<>> <=> pump[c] = "send"
  /\ watch \in [Children -> {"none", "wait", "gone"}] /\ cancelled \subseteq Children
ChannelType == merged \in Seq(Entry) /\ Len(merged) <= Capacity /\ out \in Seq(Replies)
ApiType ==
  /\ started \in BOOLEAN /\ stop \in BOOLEAN
  /\ closer \in [Closers -> {"idle", "once", "children", "done"}]
  /\ recv \in [Receivers -> {"idle", "spawn", "select"}] /\ ctx \subseteq Receivers

LEMMA Parts == TypeOK <=> NetworkType /\ PumpType /\ ChannelType /\ ApiType
  BY DEF TypeOK, NetworkType, PumpType, ChannelType, ApiType, Entry

(* What a socket or a hand holds. *)
LEMMA FromSocket ==
  ASSUME PumpType, NetworkType, NEW c \in Children, PumpReads(c)
  PROVE  NetworkType' /\ PumpType'
<1>1. /\ sock[c] \in Seq(Packets) /\ sock[c] # <<>> /\ sock' = [sock EXCEPT ![c] = Tail(@)]
      /\ UNCHANGED <<arrived, broken, closed, watch, cancelled>> /\ pump[c] = "read"
  BY DEF NetworkType, PumpReads
<1>2. Head(sock[c]) \in Packets /\ Tail(sock[c]) \in Seq(Packets)
  BY <1>1, HeadTailProperties
<1>3. NetworkType'
  BY <1>1, <1>2 DEF NetworkType
<1>4. CASE Head(sock[c]) = Echo
  <2>1. pump' = [pump EXCEPT ![c] = "check"] /\ hand' = hand
    BY <1>4 DEF PumpReads
  <2>2. QED
    BY <1>1, <1>3, <2>1 DEF PumpType
<1>5. CASE Head(sock[c]) # Echo
  <2>1. pump' = [pump EXCEPT ![c] = "send"] /\ hand' = [hand EXCEPT ![c] = <<Head(sock[c])>>]
    BY <1>5 DEF PumpReads
  <2>2. Head(sock[c]) \in Replies
    BY <1>2, <1>5 DEF Packets
  <2>3. <<Head(sock[c])>> \in {<<p>> : p \in Replies} /\ <<Head(sock[c])>> # <<>>
    BY <2>2
  <2>4. QED
    BY <1>1, <1>3, <2>1, <2>3 DEF PumpType
<1>6. QED
  BY <1>4, <1>5

LEMMA IntoChannel ==
  ASSUME PumpType, ChannelType, NEW c \in Children, PumpSends(c)
  PROVE  ChannelType' /\ PumpType'
<1>1. /\ pump[c] = "send" /\ Len(merged) < Capacity
      /\ merged' = Append(merged, [link |-> c, pkt |-> hand[c][1]])
      /\ pump' = [pump EXCEPT ![c] = "check"] /\ hand' = [hand EXCEPT ![c] = <<>>]
      /\ UNCHANGED <<watch, cancelled, out>>
  BY DEF PumpSends
<1>2. hand[c] \in {<<p>> : p \in Replies}
  BY <1>1 DEF PumpType
<1>3. hand[c][1] \in Replies
  BY <1>2
<1>4. [link |-> c, pkt |-> hand[c][1]] \in Entry
  BY <1>3 DEF Entry
<1>5. merged' \in Seq(Entry) /\ Len(merged') = Len(merged) + 1
  BY <1>1, <1>4, AppendProperties DEF ChannelType
<1>6. ChannelType'
  BY <1>1, <1>5, ChannelAssumption, LenProperties DEF ChannelType
<1>7. PumpType'
  BY <1>1 DEF PumpType
<1>8. QED
  BY <1>6, <1>7

LEMMA OutOfChannel ==
  ASSUME ChannelType, NEW r \in Receivers, RecvPacket(r)
  PROVE  ChannelType'
<1>1. /\ merged # <<>> /\ merged \in Seq(Entry) /\ merged' = Tail(merged)
      /\ out' = Append(out, Head(merged).pkt) /\ Len(merged) <= Capacity /\ out \in Seq(Replies)
  BY DEF RecvPacket, ChannelType
<1>2. Head(merged) \in Entry /\ Tail(merged) \in Seq(Entry) /\ Len(Tail(merged)) = Len(merged) - 1
  BY <1>1, HeadTailProperties
<1>3. out' \in Seq(Replies)
  BY <1>1, <1>2, AppendProperties DEF Entry
<1>4. Len(merged') <= Capacity
  BY <1>1, <1>2, ChannelAssumption, LenProperties
<1>5. QED
  BY <1>1, <1>2, <1>3, <1>4 DEF ChannelType

LEMMA Arrives ==
  ASSUME NetworkType, NEW c \in Children, PacketArrives(c)
  PROVE  NetworkType'
<1>1. arrived \in 0..Arrivals /\ arrived < Arrivals /\ arrived' = arrived + 1
  BY DEF NetworkType, PacketArrives
<1>2. arrived' \in 1..Arrivals
  BY <1>1, PacketAssumption
<1>3. PICK p \in {arrived + 1, Echo} : sock' = [sock EXCEPT ![c] = Append(@, p)]
  BY DEF PacketArrives
<1>4. p \in Packets
  BY <1>1, <1>2, <1>3 DEF Packets, Replies
<1>5. sock \in [Children -> Seq(Packets)] /\ sock[c] \in Seq(Packets)
  BY DEF NetworkType
<1>6. Append(sock[c], p) \in Seq(Packets)
  BY <1>4, <1>5, AppendProperties
<1>7. sock' \in [Children -> Seq(Packets)]
  BY <1>3, <1>5, <1>6
<1>8. arrived' \in 0..Arrivals
  BY <1>2, PacketAssumption
<1>9. QED
  BY <1>7, <1>8 DEF NetworkType, PacketArrives

-----------------------------------------------------------------------------
(* One lemma for each kind of goroutine. *)

LEMMA TypeReceivers ==
  ASSUME TypeOK, ReceiverStep
  PROVE  TypeOK'
<1>1. NetworkType /\ PumpType /\ ChannelType /\ ApiType
  BY Parts
<1>2. PICK r \in Receivers : \/ Recv(r) \/ RecvPacket(r) \/ RecvCancelled(r) \/ ContextDone(r)
                             \/ \E c \in Children : SpawnPump(r, c)
  BY DEF ReceiverStep
<1>3. CASE Recv(r)
  <2>1. NetworkType' /\ PumpType' /\ ChannelType'
    BY <1>1, <1>3 DEF Recv, network, pumps, NetworkType, PumpType, ChannelType
  <2>2. ApiType'
    BY <1>1, <1>3 DEF Recv, ApiType
  <2>3. QED
    BY <2>1, <2>2, Parts, PTL
<1>4. CASE RecvPacket(r)
  <2>1. NetworkType' /\ PumpType'
    BY <1>1, <1>4 DEF RecvPacket, network, pumps, NetworkType, PumpType
  <2>2. ChannelType'
    BY <1>1, <1>4, OutOfChannel
  <2>3. ApiType'
    BY <1>1, <1>4 DEF RecvPacket, Returns, ApiType
  <2>4. QED
    BY <2>1, <2>2, <2>3, Parts, PTL
<1>5. CASE RecvCancelled(r) \/ ContextDone(r)
  <2>1. NetworkType' /\ PumpType' /\ ChannelType'
    BY <1>1, <1>5 DEF RecvCancelled, ContextDone, network, pumps, NetworkType, PumpType,
                      ChannelType
  <2>2. ApiType'
    BY <1>1, <1>5 DEF RecvCancelled, ContextDone, Returns, ApiType
  <2>3. QED
    BY <2>1, <2>2, Parts, PTL
<1>6. ASSUME NEW c \in Children, SpawnPump(r, c)
      PROVE  TypeOK'
  <2>1. NetworkType' /\ ChannelType'
    BY <1>1, <1>6 DEF SpawnPump, network, NetworkType, ChannelType
  <2>2. PumpType'
    BY <1>1, <1>6 DEF SpawnPump, NotStarted, PumpType
  <2>3. ApiType'
    BY <1>1, <1>6 DEF SpawnPump, ApiType
  <2>4. QED
    BY <2>1, <2>2, <2>3, Parts, PTL
<1>7. QED
  BY <1>2, <1>3, <1>4, <1>5, <1>6

LEMMA TypePumps ==
  ASSUME TypeOK, PumpStep
  PROVE  TypeOK'
<1>1. NetworkType /\ PumpType /\ ChannelType /\ ApiType
  BY Parts
<1>2. PICK c \in Children : \/ PumpChecks(c) \/ PumpTimesOut(c) \/ PumpReads(c) \/ PumpFails(c)
                            \/ PumpSends(c) \/ PumpStops(c) \/ WatcherCancels(c)
  BY DEF PumpStep
<1>3. ApiType'
  BY <1>1, <1>2 DEF PumpChecks, PumpTimesOut, PumpReads, PumpFails, PumpSends, PumpStops,
                    WatcherCancels, api, ApiType
<1>4. CASE PumpReads(c)
  <2>1. ChannelType'
    BY <1>1, <1>4 DEF PumpReads, ChannelType
  <2>2. QED
    BY <1>1, <1>3, <1>4, <2>1, FromSocket, Parts, PTL
<1>5. CASE PumpSends(c)
  <2>1. NetworkType'
    BY <1>1, <1>5 DEF PumpSends, network, NetworkType
  <2>2. QED
    BY <1>1, <1>3, <1>5, <2>1, IntoChannel, Parts, PTL
<1>6. CASE PumpChecks(c) \/ PumpTimesOut(c) \/ PumpFails(c) \/ PumpStops(c) \/ WatcherCancels(c)
  <2>1. NetworkType' /\ ChannelType'
    BY <1>1, <1>6 DEF PumpChecks, PumpTimesOut, PumpFails, PumpStops, WatcherCancels, network,
                      NetworkType, ChannelType
  <2>2. PumpType'
    BY <1>1, <1>6 DEF PumpChecks, PumpTimesOut, PumpFails, PumpStops, WatcherCancels, Exit,
                      PumpType
  <2>3. QED
    BY <1>3, <2>1, <2>2, Parts, PTL
<1>7. QED
  BY <1>2, <1>4, <1>5, <1>6

LEMMA TypeClosers ==
  ASSUME TypeOK, CloserStep
  PROVE  TypeOK'
<1>1. NetworkType /\ PumpType /\ ChannelType /\ ApiType
  BY Parts
<1>2. PICK k \in Closers : CloseBegins(k) \/ CloseJoins(k) \/ CloseAgain(k)
                           \/ \E c \in Children : CloseChild(k, c)
  BY DEF CloserStep
<1>3. PumpType' /\ ChannelType'
  BY <1>1, <1>2 DEF CloseBegins, CloseJoins, CloseAgain, CloseChild, pumps, PumpType, ChannelType
<1>4. NetworkType'
  <2>1. CASE CloseBegins(k) \/ CloseJoins(k) \/ CloseAgain(k)
    BY <1>1, <2>1 DEF CloseBegins, CloseJoins, CloseAgain, network, NetworkType
  <2>2. ASSUME NEW c \in Children, CloseChild(k, c)
        PROVE  NetworkType'
    <3>1. <<>> \in Seq(Packets)
      OBVIOUS
    <3>2. QED
      BY <1>1, <2>2, <3>1 DEF CloseChild, NetworkType
  <2>3. QED
    BY <1>2, <2>1, <2>2
<1>5. ApiType'
  BY <1>1, <1>2 DEF CloseBegins, CloseJoins, CloseAgain, CloseChild, api, ApiType
<1>6. QED
  BY <1>3, <1>4, <1>5, Parts, PTL

(* Every variable keeps its type and the channel its bound. *)
THEOREM TypeCorrect == Spec => []TypeOK
<1>1. Init => TypeOK
  <2>1. ASSUME Init PROVE NetworkType /\ PumpType /\ ChannelType /\ ApiType
    <3>1. NetworkType
      BY <2>1, PacketAssumption, EmptySeq DEF Init, NetworkType
    <3>2. PumpType
      BY <2>1 DEF Init, PumpType
    <3>3. ChannelType
      BY <2>1, ChannelAssumption, EmptySeq DEF Init, ChannelType
    <3>4. ApiType
      BY <2>1 DEF Init, ApiType
    <3>5. QED
      BY <3>1, <3>2, <3>3, <3>4
  <2>2. QED
    BY <2>1, Parts
<1>2. TypeOK /\ [Next]_vars => TypeOK'
  <2>1. SUFFICES ASSUME TypeOK, [Next]_vars PROVE TypeOK'
    OBVIOUS
  <2>2. ASSUME NEW c \in Children, PacketArrives(c)
        PROVE  TypeOK'
    <3>1. NetworkType /\ PumpType /\ ChannelType /\ ApiType
      BY <2>1, Parts
    <3>2. PumpType' /\ ChannelType' /\ ApiType'
      BY <2>2, <3>1 DEF PacketArrives, pumps, api, PumpType, ChannelType, ApiType
    <3>3. QED
      BY <2>2, <3>1, <3>2, Arrives, Parts, PTL
  <2>3. CASE UNCHANGED vars
    BY <2>1, <2>3 DEF vars, TypeOK
  <2>4. QED
    BY <2>1, <2>2, <2>3, TypeReceivers, TypePumps, TypeClosers DEF Next
<1>3. QED
  BY <1>1, <1>2, PTL DEF Spec

-----------------------------------------------------------------------------
(* What makes silence after Close inductive: the sockets are closed, so a   *)
(* pump that starts late, or was past its check, finds nothing to read.     *)
Silenced ==
  (\E k \in Closers : closer[k] = "done") =>
    closed = Children /\ \A c \in Children : pump[c] # "send"

LEMMA SilencedKept ==
  ASSUME TypeOK, Silenced, Next
  PROVE  Silenced'
<1>1. /\ pump \in [Children -> {"none", "check", "read", "send", "done"}]
      /\ closed \subseteq Children
      /\ closer \in [Closers -> {"idle", "once", "children", "done"}]
  BY DEF TypeOK
<1>2. CASE ReceiverStep
  <2>1. PICK r \in Receivers : \/ Recv(r) \/ RecvPacket(r) \/ RecvCancelled(r) \/ ContextDone(r)
                               \/ \E c \in Children : SpawnPump(r, c)
    BY <1>2 DEF ReceiverStep
  <2>2. closed' = closed /\ closer' = closer
    BY <2>1 DEF Recv, RecvPacket, RecvCancelled, ContextDone, SpawnPump
  <2>3. \A c \in Children : pump'[c] = "send" => pump[c] = "send"
    BY <1>1, <2>1 DEF Recv, RecvPacket, RecvCancelled, ContextDone, SpawnPump, pumps
  <2>4. QED
    BY <2>2, <2>3 DEF Silenced
<1>3. CASE PumpStep
  <2>1. PICK c \in Children : \/ PumpChecks(c) \/ PumpTimesOut(c) \/ PumpReads(c) \/ PumpFails(c)
                              \/ PumpSends(c) \/ PumpStops(c) \/ WatcherCancels(c)
    BY <1>3 DEF PumpStep
  <2>2. closed' = closed /\ closer' = closer
    BY <2>1 DEF PumpChecks, PumpTimesOut, PumpReads, PumpFails, PumpSends, PumpStops,
                WatcherCancels, api
  <2>3. CASE PumpReads(c)
    BY <2>2, <2>3 DEF PumpReads, Silenced
  <2>4. CASE ~PumpReads(c)
    <3>1. \A d \in Children : pump'[d] = "send" => pump[d] = "send"
      BY <1>1, <2>1, <2>4 DEF PumpChecks, PumpTimesOut, PumpFails, PumpSends, PumpStops,
                              WatcherCancels, Exit
    <3>2. QED
      BY <2>2, <3>1 DEF Silenced
  <2>5. QED
    BY <2>3, <2>4
<1>4. CASE CloserStep
  <2>1. PICK k \in Closers : CloseBegins(k) \/ CloseJoins(k) \/ CloseAgain(k)
                             \/ \E c \in Children : CloseChild(k, c)
    BY <1>4 DEF CloserStep
  <2>2. pump' = pump
    BY <2>1 DEF CloseBegins, CloseJoins, CloseAgain, CloseChild, pumps
  <2>3. CASE CloseJoins(k)
    BY <1>1, <2>2, <2>3 DEF CloseJoins, Running, Silenced
  <2>4. CASE CloseBegins(k) \/ CloseAgain(k) \/ \E c \in Children : CloseChild(k, c)
    <3>1. (\E j \in Closers : closer'[j] = "done") => \E j \in Closers : closer[j] = "done"
      BY <1>1, <2>4 DEF CloseBegins, CloseAgain, CloseChild, api
    <3>2. closed \subseteq closed' /\ closed' \subseteq Children
      BY <1>1, <2>4 DEF CloseBegins, CloseAgain, CloseChild
    <3>3. QED
      BY <2>2, <3>1, <3>2 DEF Silenced
  <2>5. QED
    BY <2>1, <2>3, <2>4
<1>5. CASE \E c \in Children : PacketArrives(c)
  BY <1>5 DEF PacketArrives, pumps, api, Silenced
<1>6. QED
  BY <1>2, <1>3, <1>4, <1>5 DEF Next

(* Once a Close has returned, to whichever of its callers, no pump is left  *)
(* that could push a packet into merged, one started too late for wg.Wait   *)
(* included (multi_transport.go:91-96, 131-140).                            *)
THEOREM QuietAfterClose == Spec => []NothingAfterClose
<1>1. Init => Silenced
  BY DEF Init, Silenced
<1>2. TypeOK /\ Silenced /\ [Next]_vars => Silenced'
  <2>1. CASE UNCHANGED vars
    BY <2>1 DEF vars, Silenced
  <2>2. QED
    BY <2>1, SilencedKept
<1>3. Silenced => NothingAfterClose
  BY DEF Silenced, NothingAfterClose
<1>4. QED
  BY <1>1, <1>2, <1>3, TypeCorrect, PTL DEF Spec

-----------------------------------------------------------------------------
(* The port. What a child owes changes with one end of one sequence.        *)

PktOf == [e \in Entry |-> e.pkt]
Sent(c, entries) == Selected(entries, [link : {c}, pkt : Replies])

LEMMA ForwardedIs ==
  ASSUME NEW c \in Children, NEW m \in Seq(Entry)
  PROVE  /\ Sent(c, m) \in Seq(Entry)
         /\ Forwarded(c, m) = Renamed(PktOf, Sent(c, m))
         /\ Forwarded(c, m) \in Seq(Replies)
<1> DEFINE S == [link : {c}, pkt : Replies]
<1>1. Sent(c, m) \in Seq(Entry)
  <2>1. Selected(m, S) \in Seq(S \cap Entry)
    BY SelectedShape
  <2>2. Seq(S \cap Entry) \subseteq Seq(Entry)
    BY SeqMonotonic
  <2>3. QED
    BY <2>1, <2>2 DEF Sent
<1>2. \A i \in DOMAIN Sent(c, m) : PktOf[Sent(c, m)[i]] = Sent(c, m)[i].pkt
  <2>1. \A i \in DOMAIN Sent(c, m) : Sent(c, m)[i] \in Entry
    BY <1>1, ElementOfSeq, LenProperties
  <2>2. QED
    BY <2>1 DEF PktOf
<1>3. Forwarded(c, m) = Renamed(PktOf, Sent(c, m))
  BY <1>2 DEF Forwarded, Sent, Renamed
<1>4. PktOf \in [Entry -> Replies]
  BY DEF PktOf, Entry
<1>5. Renamed(PktOf, Sent(c, m)) \in Seq(Replies)
  BY <1>1, <1>4, RenamedShape
<1>6. QED
  BY <1>1, <1>3, <1>5

LEMMA ForwardedGrows ==
  ASSUME NEW c \in Children, NEW m \in Seq(Entry), NEW e \in Entry
  PROVE  Forwarded(c, Append(m, e))
           = IF e.link = c THEN Append(Forwarded(c, m), e.pkt) ELSE Forwarded(c, m)
<1> DEFINE S == [link : {c}, pkt : Replies]
<1>1. Append(m, e) \in Seq(Entry)
  BY AppendProperties
<1>2. e \in S <=> e.link = c
  BY DEF Entry
<1>3. Sent(c, Append(m, e)) = IF e.link = c THEN Append(Sent(c, m), e) ELSE Sent(c, m)
  <2>1. \A X : Selected(Append(m, e), X) = IF e \in X THEN Append(Selected(m, X), e) ELSE Selected(m, X)
    BY SelectedAppend
  <2>2. QED
    BY <1>2, <2>1 DEF Sent
<1>4. PktOf \in [Entry -> Replies] /\ PktOf[e] = e.pkt
  BY DEF PktOf, Entry
<1>5. Sent(c, m) \in Seq(Entry)
  BY ForwardedIs
<1>6. \A s \in Seq(Entry) : Renamed(PktOf, Append(s, e)) = Append(Renamed(PktOf, s), PktOf[e])
  <2>1. PktOf \in [Entry -> Replies]
    BY <1>4
  <2>2. QED
    BY <2>1, RenamedAppend, ZenonT(30)
<1>7. Renamed(PktOf, Append(Sent(c, m), e)) = Append(Renamed(PktOf, Sent(c, m)), PktOf[e])
  BY <1>5, <1>6, Zenon
<1>8. /\ Forwarded(c, m) = Renamed(PktOf, Sent(c, m))
      /\ Forwarded(c, Append(m, e)) = Renamed(PktOf, Sent(c, Append(m, e)))
  BY <1>1, ForwardedIs
<1>9. QED
  BY <1>3, <1>4, <1>7, <1>8

LEMMA ForwardedShrinks ==
  ASSUME NEW c \in Children, NEW m \in Seq(Entry), m # <<>>
  PROVE  /\ Head(m) \in Entry
         /\ Head(m).link # c => Forwarded(c, Tail(m)) = Forwarded(c, m)
         /\ Head(m).link = c => /\ Forwarded(c, m) # <<>>
                                /\ Head(Forwarded(c, m)) = Head(m).pkt
                                /\ Tail(Forwarded(c, m)) = Forwarded(c, Tail(m))
<1> DEFINE S == [link : {c}, pkt : Replies]
<1>1. Head(m) \in Entry /\ Tail(m) \in Seq(Entry)
  BY HeadTailProperties
<1>2. Head(m) \in S <=> Head(m).link = c
  BY <1>1 DEF Entry
<1>3. /\ Head(m).link # c => Sent(c, Tail(m)) = Sent(c, m)
      /\ Head(m).link = c => /\ Sent(c, m) # <<>> /\ Head(Sent(c, m)) = Head(m)
                             /\ Tail(Sent(c, m)) = Sent(c, Tail(m))
  BY <1>2, SelectedTail DEF Sent
<1>4. PktOf \in [Entry -> Replies] /\ PktOf[Head(m)] = Head(m).pkt
  BY <1>1 DEF PktOf, Entry
<1>5. \A s \in Seq(Entry) : s # <<>> =>
        /\ Renamed(PktOf, s) # <<>> /\ Head(Renamed(PktOf, s)) = PktOf[Head(s)]
        /\ Tail(Renamed(PktOf, s)) = Renamed(PktOf, Tail(s))
  <2>1. PktOf \in [Entry -> Replies]
    BY <1>4
  <2>2. QED
    BY <2>1, RenamedTail, ZenonT(30)
<1>6. Sent(c, m) \in Seq(Entry)
  BY ForwardedIs
<1>7. Sent(c, m) # <<>> =>
        /\ Renamed(PktOf, Sent(c, m)) # <<>>
        /\ Head(Renamed(PktOf, Sent(c, m))) = PktOf[Head(Sent(c, m))]
        /\ Tail(Renamed(PktOf, Sent(c, m))) = Renamed(PktOf, Tail(Sent(c, m)))
  BY <1>5, <1>6, Zenon
<1>8. /\ Forwarded(c, m) = Renamed(PktOf, Sent(c, m))
      /\ Forwarded(c, Tail(m)) = Renamed(PktOf, Sent(c, Tail(m)))
  BY <1>1, ForwardedIs
<1>9. QED
  BY <1>1, <1>3, <1>4, <1>7, <1>8

LEMMA OwedType ==
  ASSUME TypeOK, NEW c \in Children
  PROVE  /\ Forwarded(c, merged) \in Seq(Replies)
         /\ hand[c] \in Seq(Replies) /\ Selected(sock[c], Replies) \in Seq(Replies)
         /\ Unread(c) \in Seq(Replies) /\ Owed(c) \in Seq(Replies)
<1>1. merged \in Seq(Entry) /\ sock[c] \in Seq(Packets) /\ hand[c] \in {<<>>} \cup {<<p>> : p \in Replies}
  BY DEF TypeOK, Entry
<1>2. Forwarded(c, merged) \in Seq(Replies)
  BY <1>1, ForwardedIs
<1>3. hand[c] \in Seq(Replies)
  <2>1. \A p \in Replies : <<p>> \in Seq(Replies)
    OBVIOUS
  <2>2. QED
    BY <1>1, <2>1, EmptySeq
<1>4. Selected(sock[c], Replies) \in Seq(Replies)
  <2>1. Selected(sock[c], Replies) \in Seq(Replies \cap Packets)
    BY <1>1, SelectedShape
  <2>2. Replies \cap Packets = Replies
    BY DEF Packets
  <2>3. QED
    BY <2>1, <2>2
<1>5. Unread(c) \in Seq(Replies)
  BY <1>3, <1>4, ConcatProperties, EmptySeq DEF Unread
<1>6. QED
  BY <1>2, <1>3, <1>4, <1>5, ConcatProperties DEF Owed

(* Before Close has begun no socket is closed and no pump cancelled.        *)
Stopping ==
  closed # {} \/ cancelled # {} \/ (\E k \in Closers : closer[k] = "children") => stop

LEMMA StoppingKept ==
  ASSUME TypeOK, Stopping, [Next]_vars
  PROVE  Stopping'
<1>1. closer \in [Closers -> {"idle", "once", "children", "done"}]
  BY DEF TypeOK
<1>2. CASE ReceiverStep
  BY <1>2 DEF ReceiverStep, Recv, RecvPacket, RecvCancelled, ContextDone, SpawnPump, pumps, Stopping
<1>3. CASE PumpStep
  BY <1>3 DEF PumpStep, PumpChecks, PumpTimesOut, PumpReads, PumpFails, PumpSends, PumpStops,
              WatcherCancels, api, Stopping
<1>4. CASE CloserStep
  <2>1. PICK k \in Closers : CloseBegins(k) \/ CloseJoins(k) \/ CloseAgain(k)
                             \/ \E c \in Children : CloseChild(k, c)
    BY <1>4 DEF CloserStep
  <2>2. CASE CloseBegins(k)
    BY <1>1, <2>2 DEF CloseBegins, pumps, Stopping
  <2>3. CASE CloseJoins(k) \/ CloseAgain(k)
    BY <1>1, <2>3 DEF CloseJoins, CloseAgain, pumps, Stopping
  <2>4. CASE \E c \in Children : CloseChild(k, c)
    BY <1>1, <2>4 DEF CloseChild, pumps, api, Stopping
  <2>5. QED
    BY <2>1, <2>2, <2>3, <2>4
<1>5. CASE \E c \in Children : PacketArrives(c)
  BY <1>5 DEF PacketArrives, pumps, api, Stopping
<1>6. CASE UNCHANGED vars
  BY <1>6 DEF vars, Stopping
<1>7. QED
  BY <1>2, <1>3, <1>4, <1>5, <1>6 DEF Next

LEMMA OwedKept ==
  ASSUME NEW d \in Children, hand'[d] = hand[d], sock'[d] = sock[d],
         pump'[d] = "done" <=> pump[d] = "done",
         Forwarded(d, merged)' = Forwarded(d, merged)
  PROVE  Owed(d)' = Owed(d)
<1>1. Unread(d)' = Unread(d)
  BY DEF Unread
<1>2. QED
  BY <1>1 DEF Owed

LEMMA PortStutters ==
  ASSUME \A c \in Children : Owed(c)' = Owed(c), UNCHANGED <<out, stop, broken>>
  PROVE  UNCHANGED Port!portVars
BY DEF Port!portVars

(* Whatever ends a pump, or closes its socket, loses the end of what its    *)
(* child owes: what was forwarded stays.                                    *)
PrefixOf(s, t) == \E n \in 0..Len(t) : s = SubSeq(t, 1, n)

LEMMA ForwardedBegins ==
  ASSUME TypeOK, NEW c \in Children
  PROVE  PrefixOf(Forwarded(c, merged), Owed(c)) /\ PrefixOf(Forwarded(c, merged) \o hand[c],
                Forwarded(c, merged) \o (hand[c] \o Selected(sock[c], Replies)))
<1> DEFINE F == Forwarded(c, merged)
           H == hand[c]
           S == Selected(sock[c], Replies)
<1>1. F \in Seq(Replies) /\ H \in Seq(Replies) /\ S \in Seq(Replies) /\ Unread(c) \in Seq(Replies)
  BY OwedType
<1>2. \E n \in 0..Len(F \o Unread(c)) : F = SubSeq(F \o Unread(c), 1, n)
  BY <1>1, PrefixOfConcat
<1>3. F \o H \in Seq(Replies)
  BY <1>1, ConcatProperties
<1>4. \E n \in 0..Len((F \o H) \o S) : F \o H = SubSeq((F \o H) \o S, 1, n)
  BY <1>1, <1>3, PrefixOfConcat
<1>5. (F \o H) \o S = F \o (H \o S)
  <2>1. \A f, h, t \in Seq(Replies) : (f \o h) \o t = f \o (h \o t)
    BY ConcatAssociative
  <2>2. F \in Seq(Replies) /\ H \in Seq(Replies) /\ S \in Seq(Replies)
    BY <1>1
  <2> HIDE DEF F, H, S
  <2>3. QED
    BY <2>1, <2>2
<1>6. QED
  BY <1>2, <1>4, <1>5 DEF PrefixOf, Owed

LEMMA PortCut ==
  ASSUME TypeOK, NEW links \in SUBSET Children,
         \A d \in Children : \/ Owed(d)' = Owed(d)
                             \/ d \in links /\ PrefixOf(Owed(d)', Owed(d))
  PROVE  Port!Cut(links)
<1>1. ASSUME NEW d \in Children
      PROVE  \E n \in 0..Len(Owed(d)) :
               Owed(d)' = SubSeq(Owed(d), 1, n) /\ (d \notin links => n = Len(Owed(d)))
  <2>1. Owed(d) \in Seq(Replies) /\ Len(Owed(d)) \in 0..Len(Owed(d))
    BY OwedType, LenProperties
  <2>2. CASE Owed(d)' = Owed(d)
    <3>1. SubSeq(Owed(d), 1, Len(Owed(d))) = Owed(d)
      BY <2>1, SubSeqFull
    <3>2. QED
      BY <2>1, <2>2, <3>1
  <2>3. CASE d \in links /\ PrefixOf(Owed(d)', Owed(d))
    BY <2>3 DEF PrefixOf
  <2>4. QED
    BY <2>2, <2>3
<1>2. QED
  BY <1>1 DEF Port!Cut

LEMMA PortLoses ==
  ASSUME TypeOK, NEW c \in Children, stop, UNCHANGED <<out, stop, broken>>,
         \A d \in Children : \/ Owed(d)' = Owed(d)
                             \/ d = c /\ PrefixOf(Owed(d)', Owed(d))
  PROVE  Port!Next \/ UNCHANGED Port!portVars
<1>1. CASE Owed(c)' = Owed(c)
  BY <1>1, PortStutters
<1>2. CASE Owed(c)' # Owed(c)
  <2>1. Port!Cut({c})
    BY PortCut
  <2>2. Port!Lose(c)
    BY <2>1 DEF Port!Lose
  <2>3. QED
    BY <1>2, <2>2 DEF Port!Next
<1>3. QED
  BY <1>1, <1>2

LEMMA ExitCuts ==
  ASSUME TypeOK, NEW c \in Children, Exit(c), UNCHANGED <<sock, merged>>
  PROVE  \A d \in Children : \/ Owed(d)' = Owed(d)
                             \/ d = c /\ PrefixOf(Owed(d)', Owed(d))
<1>1. SUFFICES ASSUME NEW d \in Children
               PROVE  Owed(d)' = Owed(d) \/ (d = c /\ PrefixOf(Owed(d)', Owed(d)))
  OBVIOUS
<1>2. /\ pump \in [Children -> {"none", "check", "read", "send", "done"}]
      /\ hand \in [Children -> {<<>>} \cup {<<p>> : p \in Replies}]
  BY DEF TypeOK
<1>3. CASE d = c
  <2>1. Unread(d)' = <<>>
    BY <1>2, <1>3 DEF Exit, Unread
  <2>2. Owed(d)' = Forwarded(d, merged) \o <<>>
    BY <2>1 DEF Owed
  <2>3. Owed(d)' = Forwarded(d, merged)
    BY <2>2, OwedType, ConcatEmptySeq
  <2>4. QED
    BY <1>3, <2>3, ForwardedBegins
<1>4. CASE d # c
  <2>1. pump'[d] = pump[d] /\ hand'[d] = hand[d] /\ sock'[d] = sock[d]
    BY <1>2, <1>4 DEF Exit
  <2>2. QED
    BY <2>1 DEF Owed, Unread
<1>5. QED
  BY <1>3, <1>4

LEMMA PortReceivers ==
  ASSUME TypeOK, ReceiverStep
  PROVE  Port!Next \/ UNCHANGED Port!portVars
<1>1. PICK r \in Receivers : \/ Recv(r) \/ RecvPacket(r) \/ RecvCancelled(r) \/ ContextDone(r)
                             \/ \E c \in Children : SpawnPump(r, c)
  BY DEF ReceiverStep
<1>2. CASE Recv(r) \/ RecvCancelled(r) \/ ContextDone(r)
  <2>1. UNCHANGED <<pump, hand, sock, merged, out, stop, broken>>
    BY <1>2 DEF Recv, RecvCancelled, ContextDone, network, pumps
  <2>2. \A c \in Children : Owed(c)' = Owed(c)
    BY <2>1 DEF Owed, Unread
  <2>3. QED
    BY <2>1, <2>2, PortStutters
<1>3. ASSUME NEW c \in Children, SpawnPump(r, c)
      PROVE  Port!Next \/ UNCHANGED Port!portVars
  <2>1. /\ pump[c] = "none" /\ pump' = [pump EXCEPT ![c] = "check"]
        /\ UNCHANGED <<hand, sock, merged, out, stop, broken>>
    BY <1>3 DEF SpawnPump, NotStarted, network
  <2>2. \A d \in Children : pump'[d] = "done" <=> pump[d] = "done"
    BY <2>1 DEF TypeOK
  <2>3. \A d \in Children : Owed(d)' = Owed(d)
    BY <2>1, <2>2 DEF Owed, Unread
  <2>4. QED
    BY <2>1, <2>3, PortStutters
<1>4. CASE RecvPacket(r)
  <2>0. PICK l : l = Head(merged).link
    OBVIOUS
  <2>1. /\ merged # <<>> /\ merged' = Tail(merged) /\ out' = Append(out, Head(merged).pkt)
        /\ UNCHANGED <<pump, hand, sock, stop, broken>>
    BY <1>4 DEF RecvPacket, network, pumps
  <2>2. merged \in Seq(Entry)
    BY DEF TypeOK, Entry
  <2>3. l \in Children
    <3>1. Head(merged) \in Entry
      BY <2>1, <2>2, HeadTailProperties
    <3>2. QED
      BY <2>0, <3>1 DEF Entry
  <2>4. \A d \in Children \ {l} : Owed(d)' = Owed(d)
    <3>1. \A d \in Children : Unread(d)' = Unread(d)
      BY <2>1 DEF Unread
    <3>2. \A d \in Children \ {l} : Forwarded(d, Tail(merged)) = Forwarded(d, merged)
      BY <2>0, <2>1, <2>2, ForwardedShrinks
    <3>3. QED
      BY <2>1, <3>1, <3>2 DEF Owed
  <2>5. /\ Forwarded(l, merged) # <<>>
        /\ Head(Forwarded(l, merged)) = Head(merged).pkt
        /\ Tail(Forwarded(l, merged)) = Forwarded(l, Tail(merged))
    BY <2>0, <2>1, <2>2, <2>3, ForwardedShrinks
  <2>6. /\ Owed(l) # <<>>
        /\ Head(Owed(l)) = Head(merged).pkt
        /\ Owed(l)' = Tail(Owed(l))
    <3>1. /\ Forwarded(l, merged) \in Seq(Replies) /\ Unread(l) \in Seq(Replies)
      BY <2>3, OwedType
    <3>2. /\ Owed(l) # <<>> /\ Head(Owed(l)) = Head(Forwarded(l, merged))
          /\ Tail(Owed(l)) = Tail(Forwarded(l, merged)) \o Unread(l)
      BY <2>5, <3>1, HeadTailConcat DEF Owed
    <3>3. Owed(l)' = Forwarded(l, Tail(merged)) \o Unread(l)
      <4>1. Unread(l)' = Unread(l)
        BY <2>1 DEF Unread
      <4>2. Forwarded(l, merged)' = Forwarded(l, Tail(merged))
        BY <2>1
      <4>3. QED
        BY <4>1, <4>2 DEF Owed
    <3>4. QED
      BY <2>3, <2>5, <3>2, <3>3
  <2>7. [d \in Children |-> Owed(d)]' = [[d \in Children |-> Owed(d)] EXCEPT ![l] = Tail(@)]
    BY <2>3, <2>4, <2>6
  <2>8. Port!Deliver(l)
    BY <2>1, <2>3, <2>6, <2>7 DEF Port!Deliver
  <2>9. Owed(l)' # Owed(l)
    <3>1. Owed(l) \in Seq(Replies)
      BY <2>3, OwedType
    <3>2. Len(Tail(Owed(l))) = Len(Owed(l)) - 1 /\ Len(Owed(l)) \in Nat
      BY <2>6, <3>1, HeadTailProperties, LenProperties
    <3>3. Tail(Owed(l)) # Owed(l)
      BY <3>2
    <3>4. QED
      BY <2>6, <3>3
  <2>10. QED
    BY <2>3, <2>8, <2>9 DEF Port!Next
<1>5. QED
  BY <1>1, <1>2, <1>3, <1>4

LEMMA PortReads ==
  ASSUME TypeOK, NEW c \in Children, PumpReads(c)
  PROVE  UNCHANGED Port!portVars
<1>1. /\ pump[c] = "read" /\ sock[c] # <<>> /\ sock' = [sock EXCEPT ![c] = Tail(@)]
      /\ UNCHANGED <<merged, out, stop, broken>>
  BY DEF PumpReads, api
<1>2. /\ pump \in [Children -> {"none", "check", "read", "send", "done"}]
      /\ hand \in [Children -> {<<>>} \cup {<<p>> : p \in Replies}]
      /\ sock \in [Children -> Seq(Packets)]
      /\ hand[c] = <<>>
  BY <1>1 DEF TypeOK
<1>3. \A d \in Children \ {c} : pump'[d] = pump[d] /\ hand'[d] = hand[d] /\ sock'[d] = sock[d]
  BY <1>2 DEF PumpReads
<1>4. sock'[c] = Tail(sock[c]) /\ Head(sock[c]) \in Packets
  BY <1>1, <1>2, HeadTailProperties
<1>5. Unread(c) = Selected(sock[c], Replies) /\ Selected(sock[c], Replies) \in Seq(Replies)
  <2>1. Selected(sock[c], Replies) \in Seq(Replies)
    BY OwedType
  <2>2. Unread(c) = hand[c] \o Selected(sock[c], Replies)
    BY <1>1 DEF Unread
  <2>3. QED
    BY <1>2, <2>1, <2>2, ConcatEmptySeq
<1>6. Unread(c)' = Unread(c)
  <2>1. CASE Head(sock[c]) = Echo
    <3>1. pump'[c] = "check" /\ hand'[c] = <<>>
      BY <1>2, <2>1 DEF PumpReads
    <3>2. Head(sock[c]) \notin Replies
      BY <2>1, PacketAssumption
    <3>3. Selected(Tail(sock[c]), Replies) = Selected(sock[c], Replies)
      BY <1>1, <1>2, <3>2, SelectedTail
    <3>4. Unread(c)' = <<>> \o Selected(Tail(sock[c]), Replies)
      BY <1>4, <3>1 DEF Unread
    <3>5. QED
      BY <1>5, <3>3, <3>4, ConcatEmptySeq
  <2>2. CASE Head(sock[c]) # Echo
    <3>1. pump'[c] = "send" /\ hand'[c] = <<Head(sock[c])>>
      BY <1>2, <2>2 DEF PumpReads
    <3>2. Head(sock[c]) \in Replies
      BY <1>4, <2>2 DEF Packets
    <3>3. /\ Selected(sock[c], Replies) # <<>>
          /\ Head(Selected(sock[c], Replies)) = Head(sock[c])
          /\ Tail(Selected(sock[c], Replies)) = Selected(Tail(sock[c]), Replies)
      BY <1>1, <1>2, <3>2, SelectedTail
    <3>4. Unread(c)' = <<Head(sock[c])>> \o Selected(Tail(sock[c]), Replies)
      BY <1>4, <3>1 DEF Unread
    <3>5. ASSUME NEW s \in Seq(Replies), s # <<>>
          PROVE  s = <<Head(s)>> \o Tail(s)
      BY <3>5
    <3>6. QED
      BY <1>5, <3>3, <3>4, <3>5
  <2>3. QED
    BY <2>1, <2>2
<1>7. ASSUME NEW d \in Children
      PROVE  Owed(d)' = Owed(d)
  <2>1. Forwarded(d, merged)' = Forwarded(d, merged)
    BY <1>1
  <2>2. CASE d = c
    BY <1>6, <2>1, <2>2 DEF Owed
  <2>3. CASE d # c
    <3>1. hand'[d] = hand[d] /\ sock'[d] = sock[d] /\ (pump'[d] = "done" <=> pump[d] = "done")
      BY <1>3, <2>3
    <3>2. QED
      BY <2>1, <3>1, OwedKept
  <2>4. QED
    BY <2>2, <2>3
<1>8. QED
  BY <1>1, <1>7, PortStutters

LEMMA PortSends ==
  ASSUME TypeOK, NEW c \in Children, PumpSends(c)
  PROVE  UNCHANGED Port!portVars
<1> DEFINE e == [link |-> c, pkt |-> hand[c][1]]
<1>1. /\ pump[c] = "send" /\ merged' = Append(merged, e)
      /\ pump' = [pump EXCEPT ![c] = "check"] /\ hand' = [hand EXCEPT ![c] = <<>>]
      /\ UNCHANGED <<sock, out, stop, broken>>
  BY DEF PumpSends, network
<1>2. /\ pump \in [Children -> {"none", "check", "read", "send", "done"}]
      /\ hand \in [Children -> {<<>>} \cup {<<p>> : p \in Replies}]
      /\ hand[c] # <<>> /\ merged \in Seq(Entry)
  BY <1>1 DEF TypeOK, Entry
<1>3. PICK p \in Replies : hand[c] = <<p>>
  BY <1>2
<1>4. e = [link |-> c, pkt |-> p] /\ e \in Entry
  BY <1>3 DEF Entry
<1>5. ASSUME NEW d \in Children
      PROVE  Owed(d)' = Owed(d)
  <2>1. CASE d # c
    <3>1. Forwarded(d, Append(merged, e)) = Forwarded(d, merged)
      BY <1>2, <1>4, <2>1, ForwardedGrows
    <3>2. /\ hand'[d] = hand[d] /\ sock'[d] = sock[d]
          /\ pump'[d] = "done" <=> pump[d] = "done"
      BY <1>1, <1>2, <2>1
    <3>3. Forwarded(d, merged)' = Forwarded(d, merged)
      BY <1>1, <3>1
    <3>4. QED
      BY <3>2, <3>3, OwedKept
  <2>2. CASE d = c
    <3> DEFINE F == Forwarded(c, merged)
               U == Selected(sock[c], Replies)
    <3>1. F \in Seq(Replies) /\ U \in Seq(Replies) /\ <<p>> \in Seq(Replies)
      BY <1>3, OwedType
    <3>2. Owed(c) = F \o (<<p>> \o U)
      BY <1>1, <1>3 DEF Owed, Unread
    <3>3. Forwarded(c, Append(merged, e)) = Append(F, p)
      BY <1>2, <1>4, ForwardedGrows
    <3>4. Append(F, p) = F \o <<p>>
      BY <3>1, AppendIsConcat
    <3>5. Owed(c)' = Append(F, p) \o (<<>> \o U)
      <4>1. pump'[c] = "check" /\ hand'[c] = <<>>
        BY <1>1, <1>2
      <4>2. Owed(c)' = Forwarded(c, Append(merged, e)) \o (<<>> \o U)
        BY <1>1, <4>1 DEF Owed, Unread
      <4>3. QED
        BY <3>3, <4>2
    <3>6. <<>> \o U = U
      BY <3>1, ConcatEmptySeq
    <3>7. (F \o <<p>>) \o U = F \o (<<p>> \o U)
      BY <3>1, ConcatAssociative
    <3>8. QED
      BY <2>2, <3>2, <3>4, <3>5, <3>6, <3>7
  <2>3. QED
    BY <2>1, <2>2
<1>6. QED
  BY <1>1, <1>5, PortStutters

LEMMA PortPumps ==
  ASSUME TypeOK, Stopping, PumpStep
  PROVE  Port!Next \/ UNCHANGED Port!portVars
<1>1. PICK c \in Children : \/ PumpChecks(c) \/ PumpTimesOut(c) \/ PumpReads(c) \/ PumpFails(c)
                            \/ PumpSends(c) \/ PumpStops(c) \/ WatcherCancels(c)
  BY DEF PumpStep
<1>2. pump \in [Children -> {"none", "check", "read", "send", "done"}]
  BY DEF TypeOK
<1>3. CASE PumpReads(c) \/ PumpSends(c)
  BY <1>3, PortReads, PortSends
<1>4. CASE PumpTimesOut(c) \/ WatcherCancels(c) \/ (PumpChecks(c) /\ c \notin cancelled)
  <2>1. UNCHANGED <<hand, sock, merged, out, stop, broken>>
    BY <1>4 DEF PumpTimesOut, WatcherCancels, PumpChecks, network, api
  <2>2. \A d \in Children : pump'[d] = "done" <=> pump[d] = "done"
    BY <1>2, <1>4 DEF PumpTimesOut, WatcherCancels, PumpChecks
  <2>3. \A d \in Children : Owed(d)' = Owed(d)
    BY <2>1, <2>2 DEF Owed, Unread
  <2>4. QED
    BY <2>1, <2>3, PortStutters
<1>5. CASE (PumpChecks(c) /\ c \in cancelled) \/ PumpStops(c) \/ (PumpFails(c) /\ c \in closed)
  <2>1. stop
    BY <1>5 DEF Stopping, PumpStops
  <2>2. Exit(c) /\ UNCHANGED <<sock, merged, out, stop>>
    BY <1>5 DEF PumpChecks, PumpStops, PumpFails, network, api
  <2>3. broken' = broken
    BY <1>5 DEF PumpChecks, PumpStops, PumpFails, network
  <2>4. QED
    BY <2>1, <2>2, <2>3, ExitCuts, PortLoses
<1>6. CASE PumpFails(c) /\ c \notin closed
  <2>1. /\ Exit(c) /\ broken' = broken \cup {c} /\ UNCHANGED <<sock, merged, out, stop>>
    BY <1>6 DEF PumpFails, api
  <2>2. Port!Cut({c})
    BY <2>1, ExitCuts, PortCut
  <2>3. Port!Fail(c)
    BY <2>1, <2>2 DEF Port!Fail
  <2>4. QED
    BY <2>3 DEF Port!Next
<1>7. QED
  BY <1>1, <1>3, <1>4, <1>5, <1>6

LEMMA PortClosers ==
  ASSUME TypeOK, Stopping, CloserStep
  PROVE  Port!Next \/ UNCHANGED Port!portVars
<1>1. PICK k \in Closers : CloseBegins(k) \/ CloseJoins(k) \/ CloseAgain(k)
                           \/ \E c \in Children : CloseChild(k, c)
  BY DEF CloserStep
<1>2. CASE CloseBegins(k) \/ CloseJoins(k) \/ CloseAgain(k)
  <2>1. UNCHANGED <<pump, hand, sock, merged, out, broken>>
    BY <1>2 DEF CloseBegins, CloseJoins, CloseAgain, network, pumps
  <2>2. \A c \in Children : Owed(c)' = Owed(c)
    BY <2>1 DEF Owed, Unread
  <2>3. CASE stop' = stop
    BY <2>1, <2>2, <2>3, PortStutters
  <2>4. CASE stop' # stop
    <3>1. ~stop /\ stop'
      BY <1>2, <2>4 DEF CloseBegins, CloseJoins, CloseAgain, TypeOK
    <3>2. Port!Cut(Children)
      BY <2>2, PortCut
    <3>3. Port!Close
      BY <2>1, <3>1, <3>2 DEF Port!Close
    <3>4. QED
      BY <3>3 DEF Port!Next
  <2>5. QED
    BY <2>3, <2>4
<1>3. ASSUME NEW c \in Children, CloseChild(k, c)
      PROVE  Port!Next \/ UNCHANGED Port!portVars
  <2>1. /\ stop /\ sock' = [sock EXCEPT ![c] = <<>>]
        /\ UNCHANGED <<pump, hand, merged, out, stop, broken>>
    BY <1>3 DEF CloseChild, Stopping, pumps, api
  <2>2. sock \in [Children -> Seq(Packets)]
    BY DEF TypeOK
  <2>3. ASSUME NEW d \in Children
        PROVE  Owed(d)' = Owed(d) \/ (d = c /\ PrefixOf(Owed(d)', Owed(d)))
    <3>1. CASE d # c
      <4>1. sock'[d] = sock[d] /\ hand'[d] = hand[d] /\ (pump'[d] = "done" <=> pump[d] = "done")
        BY <2>1, <2>2, <3>1
      <4>2. Forwarded(d, merged)' = Forwarded(d, merged)
        BY <2>1
      <4>3. QED
        BY <4>1, <4>2, OwedKept
    <3>2. CASE pump[d] = "done"
      BY <2>1, <3>2 DEF Owed, Unread
    <3>3. CASE d = c /\ pump[d] # "done"
      <4>1. sock'[d] = <<>>
        BY <2>1, <2>2, <3>3
      <4>2. Owed(d)' = Forwarded(d, merged) \o (hand[d] \o Selected(<<>>, Replies))
        BY <2>1, <3>3, <4>1 DEF Owed, Unread
      <4>3. hand[d] \o <<>> = hand[d]
        BY OwedType, ConcatEmptySeq
      <4>4. Owed(d)' = Forwarded(d, merged) \o hand[d]
        BY <4>2, <4>3, SelectedNone
      <4>5. Owed(d) = Forwarded(d, merged) \o (hand[d] \o Selected(sock[d], Replies))
        BY <3>3 DEF Owed, Unread
      <4>6. QED
        BY <3>3, <4>4, <4>5, ForwardedBegins
    <3>4. QED
      BY <3>1, <3>2, <3>3
  <2>4. QED
    BY <2>1, <2>3, PortLoses
<1>4. QED
  BY <1>1, <1>2, <1>3

LEMMA OwesMore ==
  ASSUME NEW f \in Seq(Replies), NEW h \in Seq(Replies), NEW t \in Seq(Replies), NEW p \in Replies
  PROVE  f \o (h \o Append(t, p)) = Append(f \o (h \o t), p)
<1>1. /\ <<p>> \in Seq(Replies) /\ h \o t \in Seq(Replies)
      /\ f \o (h \o t) \in Seq(Replies)
  BY ConcatProperties
<1>2. Append(t, p) = t \o <<p>> /\ Append(f \o (h \o t), p) = (f \o (h \o t)) \o <<p>>
  BY <1>1, AppendIsConcat
<1>3. h \o (t \o <<p>>) = (h \o t) \o <<p>>
  BY <1>1, ConcatAssociative
<1>4. f \o ((h \o t) \o <<p>>) = (f \o (h \o t)) \o <<p>>
  BY <1>1, ConcatAssociative
<1>5. QED
  BY <1>2, <1>3, <1>4

LEMMA PortArrives ==
  ASSUME TypeOK, NEW c \in Children, PacketArrives(c)
  PROVE  Port!Next \/ UNCHANGED Port!portVars
<1>1. /\ sock \in [Children -> Seq(Packets)] /\ sock[c] \in Seq(Packets)
      /\ UNCHANGED <<pump, hand, merged, out, stop, broken>>
  BY DEF TypeOK, PacketArrives, pumps
<1>2. PICK p \in {arrived + 1, Echo} : sock' = [sock EXCEPT ![c] = Append(@, p)]
  BY DEF PacketArrives
<1>3. p \in Packets
  <2>1. arrived \in 0..Arrivals /\ arrived < Arrivals
    BY DEF TypeOK, PacketArrives
  <2>2. arrived + 1 \in Replies
    BY <2>1, PacketAssumption DEF Replies
  <2>3. QED
    BY <2>2 DEF Packets
<1>4. sock'[c] = Append(sock[c], p)
  BY <1>1, <1>2
<1>5. ASSUME NEW d \in Children \ {c}
      PROVE  Owed(d)' = Owed(d)
  <2>1. sock'[d] = sock[d] /\ hand'[d] = hand[d] /\ (pump'[d] = "done" <=> pump[d] = "done")
    BY <1>1, <1>2
  <2>2. Forwarded(d, merged)' = Forwarded(d, merged)
    BY <1>1
  <2>3. QED
    BY <2>1, <2>2, OwedKept
<1>6. Selected(Append(sock[c], p), Replies)
        = IF p \in Replies THEN Append(Selected(sock[c], Replies), p) ELSE Selected(sock[c], Replies)
  BY <1>1, <1>3, SelectedAppend
<1>7. CASE pump[c] = "done" \/ p \notin Replies
  <2>1. Unread(c)' = Unread(c)
    BY <1>1, <1>4, <1>6, <1>7 DEF Unread
  <2>2. Forwarded(c, merged)' = Forwarded(c, merged)
    BY <1>1
  <2>3. Owed(c)' = Owed(c)
    BY <2>1, <2>2 DEF Owed
  <2>4. QED
    BY <1>1, <1>5, <2>3, PortStutters
<1>8. CASE pump[c] # "done" /\ p \in Replies
  <2>1. Owed(c)' = Append(Owed(c), p)
    <3> DEFINE F == Forwarded(c, merged)
               H == hand[c]
               S == Selected(sock[c], Replies)
    <3>1. F \in Seq(Replies) /\ H \in Seq(Replies) /\ S \in Seq(Replies)
      BY OwedType
    <3>2. Owed(c) = F \o (H \o S)
      BY <1>8 DEF Owed, Unread
    <3>3. Unread(c)' = H \o Append(S, p)
      BY <1>1, <1>4, <1>6, <1>8 DEF Unread
    <3>4. Owed(c)' = F \o (H \o Append(S, p))
      <4>1. Forwarded(c, merged)' = F
        BY <1>1
      <4>2. QED
        BY <3>3, <4>1 DEF Owed
    <3>5. ASSUME NEW f \in Seq(Replies), NEW h \in Seq(Replies), NEW t \in Seq(Replies)
          PROVE  f \o (h \o Append(t, p)) = Append(f \o (h \o t), p)
      <4>1. p \in Replies
        BY <1>8
      <4>2. QED
        BY <4>1, OwesMore, SMTT(30)
    <3>6. F \o (H \o Append(S, p)) = Append(F \o (H \o S), p)
      <4> HIDE DEF F, H, S
      <4>1. QED
        BY <3>1, <3>5
    <3>7. QED
      BY <3>2, <3>4, <3>6
  <2>2. [d \in Children |-> Owed(d)]' = [[d \in Children |-> Owed(d)] EXCEPT ![c] = Append(@, p)]
    BY <1>5, <2>1
  <2>3. Port!Arrive(c)
    BY <1>1, <1>8, <2>2 DEF Port!Arrive
  <2>4. Owed(c)' # Owed(c)
    <3>1. Owed(c) \in Seq(Replies)
      BY OwedType
    <3>2. Len(Append(Owed(c), p)) = Len(Owed(c)) + 1 /\ Len(Owed(c)) \in Nat
      BY <1>8, <3>1, AppendProperties, LenProperties
    <3>3. Append(Owed(c), p) # Owed(c)
      BY <3>2
    <3>4. QED
      BY <2>1, <3>3
  <2>5. QED
    BY <2>3, <2>4 DEF Port!Next
<1>9. QED
  BY <1>7, <1>8

(* The detailed transport implements the port: every reply of a link that   *)
(* has not failed is delivered once and in order until Close has begun, the *)
(* request echoes are dropped, and afterwards only the end of what a link   *)
(* still owed can be lost.  Close itself must have begun before a socket is *)
(* closed or a context cancelled (multi_transport.go:60-140).               *)
THEOREM PortKept == Spec => IsPort
<1>1. Init => Stopping
  BY DEF Init, Stopping
<1>2. Spec => []Stopping
  <2>1. TypeOK /\ Stopping /\ [Next]_vars => Stopping'
    BY StoppingKept
  <2>2. QED
    BY <1>1, <2>1, TypeCorrect, PTL DEF Spec
<1>3. Init => Port!Init
  <2> SUFFICES ASSUME Init PROVE Port!Init
    OBVIOUS
  <2>1. /\ pump = [c \in Children |-> "none"] /\ hand = [c \in Children |-> <<>>]
        /\ sock = [c \in Children |-> <<>>] /\ merged = <<>>
    BY DEF Init
  <2>2. ASSUME NEW c \in Children
        PROVE  Owed(c) = <<>>
    <3>1. Unread(c) = <<>> \o Selected(<<>>, Replies)
      BY <2>1 DEF Unread
    <3>2. \A S : Selected(<<>>, S) = <<>>
      BY SelectedNone
    <3>3. Forwarded(c, <<>>) = <<>>
      BY <3>2 DEF Forwarded
    <3>4. QED
      BY <2>1, <3>1, <3>2, <3>3 DEF Owed
  <2>3. QED
    BY <2>2 DEF Init, Port!Init
<1>4. TypeOK /\ Stopping /\ [Next]_vars => [Port!Next]_(Port!portVars)
  <2> SUFFICES ASSUME TypeOK, Stopping, [Next]_vars
               PROVE  Port!Next \/ UNCHANGED Port!portVars
    OBVIOUS
  <2>1. CASE UNCHANGED vars
    <3>1. UNCHANGED <<pump, hand, sock, merged, out, stop, broken>>
      BY <2>1 DEF vars
    <3>2. \A c \in Children : Owed(c)' = Owed(c)
      BY <3>1 DEF Owed, Unread
    <3>3. QED
      BY <3>1, <3>2, PortStutters
  <2>2. QED
    BY <2>1, PortReceivers, PortPumps, PortClosers, PortArrives DEF Next
<1>5. QED
  BY <1>2, <1>3, <1>4, TypeCorrect, PTL DEF Spec, IsPort, Port!Spec

=============================================================================
