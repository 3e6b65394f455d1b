---------------------------- MODULE UdapSession ----------------------------
(***************************************************************************)
(* One udap.Client, driven by a caller that runs a script of operations on *)
(* one device, over the UDP transport: udap/client.go, config.go,          *)
(* discovery.go, getip.go, getuuid.go and transport.go, with the callers   *)
(* in cli/.  The client broadcasts numbered requests and waits for a reply *)
(* of the device it addresses.  No code ever compares the sequence number  *)
(* of a reply with that of the request: the model carries it as ghost data *)
(* (the wire holds its low 16 bits) to say which request a reply answers.  *)
(*                                                                         *)
(* The device answers as mocksbr/handlers.go does, each request in one     *)
(* step (its lock-level interleavings are the business of a module of its  *)
(* own), except that a real Squeezebox may blank the parameters a SetData  *)
(* leaves out: udap/config.go says so where it explains the read that      *)
(* precedes every write.                                                   *)
(***************************************************************************)
EXTENDS Naturals, Sequences

CONSTANTS
  Nodes,       \* the MAC addresses on the network
  Target,      \* the MAC address the caller works on
  Addrs,       \* IP addresses the target may hold
  NoAddr,      \* Device.IP = "", a Device no discovery has filled in
  Params,      \* parameter names
  Vals,        \* parameter values
  Zero,        \* the value of a blanked NVRAM region
  Retries,     \* Client.retries
  Links,       \* the interfaces on which a broadcast reaches the nodes
  OneShot,     \* TRUE: a CLI command; FALSE: a library user's session
  Scripts,     \* the operation sequences the caller may run
  Rejectable,  \* the methods a device may be set to refuse
  MaxLoss,     \* bound: packets the network may lose
  ForeignParams, \* bound: parameters another controller may write, once each
  Patient      \* TRUE: a deadline fires only when there is nothing to wait for

Methods == {"AdvDisc", "GetData", "SetData", "Reset", "GetIP", "GetUUID"}
Discoveries == {"discover", "find"}
Steps == Discoveries \cup {"getall", "get", "set", "reset", "getip", "getuuid"}

(* What each subcommand of the CLI asks of the client, in order. *)
DiscoverScripts == { <<"discover">>, <<"discover", "getuuid", "getip">> }  \* with --info
InfoScript == <<"find", "getuuid">>
GetIPScript == <<"find", "getip">>
GetScript == <<"find", "get">>
ReadScript == <<"find", "getall">>
SetScripts == { <<"find", "getall", "set">>, <<"find", "getall", "set", "reset">> }  \* with --reboot
RebootScript == <<"find", "reset">>

CliScripts ==
  DiscoverScripts \cup SetScripts
    \cup {InfoScript, GetIPScript, GetScript, ReadScript, RebootScript}

ASSUME NodeAssumption == Target \in Nodes /\ NoAddr \notin Addrs
ASSUME ValueAssumption == Zero \in Vals
ASSUME SendAssumption == Retries \in Nat /\ Links # {}
ASSUME ScriptAssumption ==
  /\ OneShot \in BOOLEAN /\ Patient \in BOOLEAN
  /\ \A s \in Scripts : s \in Seq(Steps) /\ s # <<>>
(* A command discovers once, first; discoverAndFind belongs to the CLI. *)
ASSUME DiscoveryAssumption ==
  \A s \in Scripts : \A i \in 1..Len(s) :
    /\ s[i] = "find" => OneShot
    /\ OneShot /\ s[i] \in Discoveries => i = 1
ASSUME BoundAssumption == MaxLoss \in Nat /\ ForeignParams \subseteq Params

VARIABLES
  script,     \* the operations the caller runs
  at,         \* how many of them it has begun
  phase,      \* "idle", "prelude" (the read inside a set) or "wait"
  reading,    \* Recv has passed its context check and reads the socket
  expired,    \* the caller's context is done
  seq,        \* Client.sequence
  known,      \* the client's map has an entry for Target ...
  meta,       \* ... made from a reply to this method
  ip,         \* Device.IP
  cache,      \* Device.Parameters
  cfg,        \* the config argument of the last set
  last,       \* the last operation to return, and how
  wire,       \* requests in flight
  inbox,      \* replies in flight or in the socket's buffer
  nv,         \* the target's parameters
  addr,       \* the target's current address
  rebooting,  \* the target is in its reboot window
  rejects,    \* the methods the target is set to refuse
  losses,     \* packets lost so far
  foreign,    \* parameters another controller has written
  held,       \* ghost: every value each parameter has had
  served      \* ghost: numbers of the requests the target carried out

caller == <<script, at>>
recv == <<phase, reading, expired>>
entry == <<known, meta, ip, cache>>
target == <<nv, addr, rebooting, rejects, held, served>>
world == <<losses, foreign>>
vars == <<script, at, phase, reading, expired, seq, known, meta, ip, cache, cfg,
          last, wire, inbox, nv, addr, rebooting, rejects, losses, foreign, held, served>>

-----------------------------------------------------------------------------
(* Data. *)

(* Parameter maps: any subset of the parameters, each with a value. *)
Configs == UNION {[S -> Vals] : S \in SUBSET Params}
Empty == [p \in {} |-> Zero]

(* maps.Copy(old, new): the entries of new replace those of old. *)
Merge(old, new) ==
  [p \in DOMAIN old \cup DOMAIN new |-> IF p \in DOMAIN new THEN new[p] ELSE old[p]]

(* The definitions named X_Y are wrong variants of X, each with the bug Y   *)
(* of one line of code; the runs refute a property with each of them.       *)
Copies_OneMore == (0..(Retries + 1)) \X Links
Copies_OneLess == (0..(Retries - 1)) \X Links

(* sendRetried transmits Retries + 1 times, on every interface. *)
Copies == (0..Retries) \X Links

Requests == [node : Nodes, method : Methods, seq : Nat, copy : Copies,
             want : SUBSET Params, write : Configs]
Replies == [node : Nodes, method : Methods \cup {"Error"}, seq : Nat, copy : Copies,
            ip : Addrs, data : Configs]

Method(step) ==
  CASE step \in Discoveries      -> "AdvDisc"
    [] step \in {"getall", "get"} -> "GetData"
    [] step = "set"              -> "SetData"
    [] step = "reset"            -> "Reset"
    [] step = "getip"            -> "GetIP"
    [] OTHER                     -> "GetUUID"

Accepted_AnyReply(step) ==
  IF step = "set" THEN {"SetData", "GetData", "GetIP"} ELSE Methods \cup {"Error"}

(* The reply methods an operation takes for a success. *)
Accepted(step) ==
  IF step = "set" THEN {"SetData", "GetData", "GetIP"} ELSE {Method(step)}

Step == script[at]
ToTarget == {m \in wire : m.node = Target}
FromTarget == {r \in inbox : r.node = Target}

-----------------------------------------------------------------------------
Init ==
  /\ script \in Scripts /\ at = 0
  /\ phase = "idle" /\ reading = FALSE /\ expired = FALSE
  /\ seq = 0
  /\ known = FALSE /\ meta = "none" /\ ip = NoAddr /\ cache = Empty
  /\ cfg = Empty
  /\ last = [step |-> "none", res |-> "none"]
  /\ wire = {} /\ inbox = {}
  /\ nv \in [Params -> Vals] /\ addr \in Addrs
  /\ rebooting = FALSE /\ rejects \in SUBSET Rejectable
  /\ losses = 0 /\ foreign = {}
  /\ held = [p \in Params |-> {nv[p]}] /\ served = {}

-----------------------------------------------------------------------------
(* The caller and the operations it starts. *)

Conclude_KeepsReading(pos, res) ==
  /\ phase' = "idle" /\ UNCHANGED reading
  /\ last' = [step |-> script[pos], res |-> res]
  /\ at' = pos

(* An operation returns: "ok" and "error" rest on a reply (or on a send that *)
(* failed), "unknown" on the deadline, "broken" on the socket; "assumed" is *)
(* the success of a reset that nobody acknowledged.  Nobody goes on with a  *)
(* broken socket, and a failure ends a CLI command, except in the queries   *)
(* of discover --info, whose failures are soft; a library user goes on.     *)
Conclude(pos, res) ==
  /\ phase' = "idle" /\ reading' = FALSE
  /\ last' = [step |-> script[pos], res |-> res]
  /\ at' = IF \/ res = "broken"
              \/ OneShot /\ res \in {"error", "unknown"} /\ ~(script[1] = "discover" /\ pos > 1)
           THEN Len(script) ELSE pos

Begin_FreshContext(step) ==
  /\ phase = "idle" /\ at < Len(script) /\ script[at + 1] = step
  /\ expired' = FALSE

Begin(step) ==
  /\ phase = "idle" /\ at < Len(script) /\ script[at + 1] = step
  /\ expired' = (OneShot /\ expired)

(* Build a packet with the next sequence number and send every copy. *)
Transmit(method, dsts, want, write) ==
  /\ seq' = seq + 1
  /\ wire' = wire \cup [node : dsts, method : {method}, seq : {seq + 1},
                        copy : Copies, want : {want}, write : {write}]

Wait(as) == phase' = as /\ reading' = FALSE /\ at' = at + 1 /\ UNCHANGED last

StartDiscovery ==
  \E step \in Discoveries :
    /\ Begin(step) /\ Wait("wait")
    /\ Transmit("AdvDisc", Nodes, {}, Empty)
    /\ UNCHANGED <<script, entry, cfg, inbox, target, world>>

StartRead ==
  \E step \in {"getall", "get"}, want \in SUBSET Params :
    /\ want # {} /\ (step = "getall" => want = Params)
    /\ Begin(step) /\ Wait("wait")
    /\ Transmit("GetData", {Target}, want, Empty)
    /\ UNCHANGED <<script, entry, cfg, inbox, target, world>>

StartSet_NoMerge ==
  \E config \in Configs \ {Empty} :
    /\ Begin("set") /\ cfg' = config
    /\ \/ cache = Empty /\ Wait("prelude") /\ Transmit("GetData", {Target}, Params, Empty)
       \/ cache # Empty /\ Wait("wait") /\ Transmit("SetData", {Target}, {}, config)
    /\ UNCHANGED <<script, entry, inbox, target, world>>

StartSet_CachesFirst ==
  \E config \in Configs \ {Empty} :
    /\ Begin("set") /\ cfg' = config
    /\ cache # Empty /\ cache' = Merge(cache, config) /\ Wait("wait")
    /\ Transmit("SetData", {Target}, {}, Merge(cache, config))
    /\ UNCHANGED <<script, known, meta, ip, inbox, target, world>>

(* A set reads the device first unless Device.Parameters is populated. *)
StartSet ==
  \E config \in Configs \ {Empty} :
    /\ Begin("set") /\ cfg' = config
    /\ \/ cache = Empty /\ Wait("prelude") /\ Transmit("GetData", {Target}, Params, Empty)
       \/ cache # Empty /\ Wait("wait")
          /\ Transmit("SetData", {Target}, {}, Merge(cache, config))
    /\ UNCHANGED <<script, entry, inbox, target, world>>

StartSimple ==
  \E step \in {"reset", "getip", "getuuid"} :
    /\ Begin(step) /\ Wait("wait")
    /\ Transmit(Method(step), {Target}, {}, Empty)
    /\ UNCHANGED <<script, entry, cfg, inbox, target, world>>

(* sendRetried fails: none of the copies could be sent. *)
SendFails ==
  /\ phase = "idle" /\ at < Len(script)
  /\ Begin(script[at + 1])
  /\ seq' = seq + 1
  /\ Conclude(at + 1, "error")
  /\ UNCHANGED <<script, entry, cfg, wire, inbox, target, world>>

(* get_uuid is skipped for a device whose discovery reply had its UUID, and *)
(* discover --info asks nothing of a device that did not answer.            *)
SkipQuery ==
  /\ phase = "idle" /\ at < Len(script)
  /\ \/ script[at + 1] = "getuuid"
     \/ script[1] = "discover" /\ at > 0 /\ ~known
  /\ at' = at + 1
  /\ UNCHANGED <<script, recv, seq, entry, cfg, last, wire, inbox, target, world>>

-----------------------------------------------------------------------------
(* Recv: check the context, read the socket for at most 200 ms, repeat. *)

RecvCheck_NoContext ==
  /\ phase # "idle" /\ ~reading
  /\ reading' = TRUE
  /\ UNCHANGED <<caller, phase, expired, seq, entry, cfg, last, wire, inbox, target, world>>

RecvCheck ==
  /\ phase # "idle" /\ ~reading /\ ~expired
  /\ reading' = TRUE
  /\ UNCHANGED <<caller, phase, expired, seq, entry, cfg, last, wire, inbox, target, world>>

ReadTimesOut ==
  /\ reading
  /\ reading' = FALSE
  /\ UNCHANGED <<caller, phase, expired, seq, entry, cfg, last, wire, inbox, target, world>>

TimesOut_AfterOneRead ==
  /\ phase # "idle" /\ ~reading
  /\ Conclude(at, IF Step = "reset" THEN "assumed" ELSE "unknown")
  /\ UNCHANGED <<script, expired, seq, entry, cfg, wire, inbox, target, world>>

(* The context check fails.  Discovery has then simply run its course, and  *)
(* a reset is taken to have happened; a find looks at the map once more.    *)
TimesOut ==
  /\ phase # "idle" /\ ~reading /\ expired
  /\ Conclude(at, CASE Step = "discover" -> "ok"
                    [] Step = "find"     -> IF known THEN "ok" ELSE "unknown"
                    [] Step = "reset"    -> "assumed"
                    [] OTHER             -> "unknown")
  /\ UNCHANGED <<script, expired, seq, entry, cfg, wire, inbox, target, world>>

(* The socket fails under Recv. *)
RecvFails ==
  /\ reading
  /\ Conclude(at, IF Step = "find" /\ known THEN "ok" ELSE "broken")
  /\ UNCHANGED <<script, expired, seq, entry, cfg, wire, inbox, target, world>>

(* The deadline of the context: a CLI command has one for all it does.  A   *)
(* patient one leaves the target and the network the time they need.        *)
Deadline ==
  /\ ~expired /\ (OneShot \/ phase # "idle")
  /\ Patient => /\ phase # "idle" /\ ~(Step = "find" /\ known)
                /\ ToTarget = {} /\ FromTarget = {}
  /\ expired' = TRUE
  /\ UNCHANGED <<caller, phase, reading, seq, entry, cfg, last, wire, inbox, target, world>>

(* handleDiscoveryReply: whatever answer arrives is read as a discovery     *)
(* reply, and recordDevice replaces the entry by a fresh one.               *)
HandleDiscoveryReply(r) ==
  /\ reading /\ Step \in Discoveries
  /\ inbox' = inbox \ {r} /\ reading' = FALSE
  /\ IF r.node = Target
     THEN known' = TRUE /\ meta' = r.method /\ ip' = r.ip /\ cache' = Empty
     ELSE UNCHANGED entry
  /\ UNCHANGED <<caller, phase, expired, seq, cfg, last, wire, target, world>>

(* discoverAndFind sees the target in the map, cancels the discovery and    *)
(* waits for it to return.                                                  *)
FindReturns ==
  /\ phase = "wait" /\ Step = "find" /\ known
  /\ Conclude(at, "ok")
  /\ UNCHANGED <<script, expired, seq, entry, cfg, wire, inbox, target, world>>

(* waitForDeviceReply takes a reply by its MAC and, when the Device has an  *)
(* address, by its source.                                                  *)
FromDevice(r) == r.node = Target /\ (ip = NoAddr \/ r.ip = ip)

IgnoreReply(r) ==
  /\ reading /\ Step \notin Discoveries /\ ~FromDevice(r)
  /\ inbox' = inbox \ {r} /\ reading' = FALSE
  /\ UNCHANGED <<caller, phase, expired, seq, entry, cfg, last, wire, target, world>>

Take(r) ==
  /\ reading /\ Step \notin Discoveries /\ FromDevice(r)
  /\ inbox' = inbox \ {r}

(* The read inside a set: failure aborts the set, success sends the merge.  *)
PreludeReply(r) ==
  /\ Take(r) /\ phase = "prelude"
  /\ \/ /\ r.method # "GetData"
        /\ Conclude(at, "error")
        /\ UNCHANGED <<seq, entry, wire>>
     \/ /\ r.method = "GetData"
        /\ cache' = Merge(cache, r.data)
        /\ phase' = "wait" /\ reading' = FALSE /\ UNCHANGED <<at, last, known, meta, ip>>
        /\ Transmit("SetData", {Target}, {}, Merge(Merge(cache, r.data), cfg))
  /\ UNCHANGED <<script, expired, cfg, target, world>>

PreludeSendFails(r) ==
  /\ Take(r) /\ phase = "prelude" /\ r.method = "GetData"
  /\ cache' = Merge(cache, r.data) /\ UNCHANGED <<known, meta, ip>>
  /\ seq' = seq + 1
  /\ Conclude(at, "error")
  /\ UNCHANGED <<script, expired, cfg, wire, target, world>>

Learnt_ForgetsSet(r) == IF Step = "getall" THEN Merge(cache, r.data) ELSE cache

(* The reply that decides an operation. *)
Learnt(r) ==
  CASE Step = "getall" -> Merge(cache, r.data)
    [] Step = "set"    -> Merge(cache, cfg)
    [] OTHER           -> cache

OperationReply(r) ==
  /\ Take(r) /\ phase = "wait"
  /\ \/ /\ r.method \in Accepted(Step)
        /\ cache' = Learnt(r) /\ UNCHANGED <<known, meta, ip>>
        /\ Conclude(at, "ok")
     \/ /\ r.method \notin Accepted(Step)
        /\ UNCHANGED entry
        /\ Conclude(at, "error")
  /\ UNCHANGED <<script, expired, seq, cfg, wire, target, world>>

-----------------------------------------------------------------------------
(* The devices. *)

Answer(m, method, data, from) ==
  inbox' = inbox \cup {[node |-> m.node, method |-> method, seq |-> m.seq,
                        copy |-> m.copy, ip |-> from, data |-> data]}

Client == <<caller, recv, seq, entry, cfg, last>>

(* The other nodes only ever see the broadcast discovery. *)
OtherAnswers(m) ==
  /\ m.node # Target
  /\ wire' = wire \ {m}
  /\ \E from \in Addrs : Answer(m, m.method, Empty, from)
  /\ UNCHANGED <<Client, target, world>>

(* A rebooting device hears nothing, one set to refuse discovery is silent. *)
TargetSilent(m) ==
  /\ m.node = Target
  /\ rebooting \/ (m.method = "AdvDisc" /\ "AdvDisc" \in rejects)
  /\ wire' = wire \ {m}
  /\ UNCHANGED <<Client, inbox, target, world>>

TargetRejects(m) ==
  /\ m.node = Target /\ ~rebooting
  /\ m.method \in rejects \ {"AdvDisc"}
  /\ wire' = wire \ {m}
  /\ Answer(m, "Error", Empty, addr)
  /\ UNCHANGED <<Client, target, world>>

Serves(m, method) ==
  /\ m.node = Target /\ ~rebooting
  /\ m.method = method /\ method \notin rejects
  /\ wire' = wire \ {m} /\ served' = served \cup {m.seq}

TargetReads(m) ==
  /\ \E method \in Methods \ {"SetData", "Reset"} : Serves(m, method)
  /\ Answer(m, m.method, [p \in m.want |-> nv[p]], addr)
  /\ UNCHANGED <<Client, nv, addr, rebooting, rejects, held, world>>

(* A SetData stores what it lists and may blank what it leaves out. *)
TargetWrites(m) ==
  /\ Serves(m, "SetData")
  /\ \E blanked \in SUBSET (Params \ DOMAIN m.write) :
       nv' = [p \in Params |-> IF p \in DOMAIN m.write THEN m.write[p]
                               ELSE IF p \in blanked THEN Zero ELSE nv[p]]
  /\ held' = [p \in Params |-> held[p] \cup {nv'[p]}]
  /\ Answer(m, "SetData", Empty, addr)
  /\ UNCHANGED <<Client, addr, rebooting, rejects, world>>

(* A device may reboot before its acknowledgement leaves. *)
TargetResets(m) ==
  /\ Serves(m, "Reset")
  /\ rebooting' = TRUE
  /\ UNCHANGED inbox \/ Answer(m, "Reset", Empty, addr)
  /\ UNCHANGED <<Client, nv, addr, rejects, held, world>>

TargetBoots ==
  /\ rebooting
  /\ rebooting' = FALSE /\ addr' \in Addrs
  /\ UNCHANGED <<Client, wire, inbox, nv, rejects, held, served, world>>

(* Another controller of the device writes a parameter (each once). *)
ForeignWrite ==
  /\ ~rebooting
  /\ \E p \in ForeignParams \ foreign, v \in Vals :
       /\ nv' = [nv EXCEPT ![p] = v]
       /\ held' = [held EXCEPT ![p] = @ \cup {v}]
       /\ foreign' = foreign \cup {p}
  /\ UNCHANGED <<Client, wire, inbox, addr, rebooting, rejects, served, losses>>

Lose ==
  /\ losses < MaxLoss /\ losses' = losses + 1
  /\ \/ \E m \in wire : wire' = wire \ {m} /\ UNCHANGED inbox
     \/ \E r \in inbox : inbox' = inbox \ {r} /\ UNCHANGED wire
  /\ UNCHANGED <<Client, target, foreign>>

-----------------------------------------------------------------------------
(* One request at a time: nothing is sent twice, and a request has met its  *)
(* answer, or its loss, before the next one goes out or nobody listens any  *)
(* more.  A deadline longer than the round trip gives a library user what   *)
(* the one context of a command gives the CLI.                              *)
InTurn == Retries = 0 /\ (\E l \in Links : Links = {l}) /\ (OneShot \/ Patient)

Start == StartDiscovery \/ StartRead \/ StartSet \/ StartSimple \/ SendFails \/ SkipQuery

Receive ==
  \/ RecvCheck \/ ReadTimesOut \/ TimesOut \/ RecvFails \/ FindReturns
  \/ \E r \in inbox : \/ HandleDiscoveryReply(r) \/ IgnoreReply(r)
                      \/ PreludeReply(r) \/ PreludeSendFails(r) \/ OperationReply(r)

Device ==
  \E m \in wire : \/ OtherAnswers(m) \/ TargetSilent(m) \/ TargetRejects(m)
                  \/ TargetReads(m) \/ TargetWrites(m) \/ TargetResets(m)

Next == Start \/ Receive \/ Deadline \/ Device \/ TargetBoots \/ ForeignWrite \/ Lose

Spec == Init /\ [][Next]_vars

(* The goroutines run and the clock of the context does, and a packet on    *)
(* the wire meets its device; nothing is owed by a socket that fails.       *)
Fairness ==
  /\ WF_vars(StartDiscovery \/ StartRead \/ StartSet \/ StartSimple)
  /\ WF_vars(RecvCheck) /\ WF_vars(ReadTimesOut) /\ WF_vars(TimesOut)
  /\ WF_vars(\E r \in inbox : HandleDiscoveryReply(r) \/ IgnoreReply(r)
                              \/ PreludeReply(r) \/ OperationReply(r))
  /\ WF_vars(Deadline) /\ WF_vars(Device)

FairSpec == Spec /\ Fairness

-----------------------------------------------------------------------------
CallerType ==
  /\ script \in Scripts /\ at \in 0..Len(script)
  /\ phase \in {"idle", "prelude", "wait"} /\ (phase # "idle" => at > 0)
  /\ reading \in BOOLEAN /\ (reading => phase # "idle") /\ expired \in BOOLEAN
  /\ last \in [step : Steps \cup {"none"},
               res : {"none", "ok", "assumed", "error", "unknown", "broken"}]

EntryType ==
  /\ known \in BOOLEAN /\ meta \in Methods \cup {"Error", "none"}
  /\ ip \in Addrs \cup {NoAddr} /\ cache \in Configs /\ cfg \in Configs

NetworkType ==
  /\ seq \in Nat
  /\ wire \subseteq Requests /\ inbox \subseteq Replies
  /\ losses \in 0..MaxLoss

DeviceType ==
  /\ nv \in [Params -> Vals] /\ addr \in Addrs
  /\ rebooting \in BOOLEAN /\ rejects \subseteq Rejectable
  /\ foreign \subseteq Params
  /\ held \in [Params -> SUBSET Vals] /\ served \subseteq Nat

TypeOK == CallerType /\ EntryType /\ NetworkType /\ DeviceType

(* The entry in the client's map comes from a discovery reply, though       *)
(* handleDiscoveryReply takes any packet for one (discovery.go:37-54).      *)
EntryFromDiscovery == known => meta = "AdvDisc"

(* The operation in progress can only be handed replies to its own request: *)
(* the sequence check waitForDeviceReply does not make (config.go:24-48) is *)
(* not needed as long as one request of the session is unanswered at a time.*)
CorrelatedReplies == reading => \A r \in FromTarget : r.seq = seq

(* What an operation returns is what the device did: a success was carried  *)
(* out, a failure reported by the device was not (config.go:145-165,        *)
(* 204-216).  A deadline says nothing either way.                           *)
VerdictIsTrue ==
  phase = "idle" /\ last.step \notin {"none", "discover"} =>
    /\ last.res = "ok" => seq \in served
    /\ last.res = "error" => seq \notin served

(* Device.Parameters never shows a value the device has not held: a write   *)
(* enters the cache "only after the device has acknowledged" it             *)
(* (config.go:148-151, mocksbr/failure_injection_test.go:170-178).          *)
CacheNeverPhantom == \A p \in DOMAIN cache : cache[p] \in held[p]

(* While the session succeeds, the cache agrees with the device on every    *)
(* parameter no other controller has written: what read prints and what a   *)
(* later set writes back is the present configuration (config.go:80-111,    *)
(* 121-151).                                                                *)
CacheIsCurrent ==
  phase = "idle" /\ last.res \in {"ok", "assumed"} =>
    \A p \in DOMAIN cache \ foreign : cache[p] = nv[p]

(* A set changes no parameter its caller did not name: the read-modify-     *)
(* write keeps the neighbouring regions (config.go:112-132).                *)
OnlyNamedWritten ==
  [][\A p \in Params : nv'[p] # nv[p] => p \in DOMAIN cfg \cup foreign']_vars

(* A command keeps the promises of DeviceCalls: whatever is lost, refused   *)
(* or late, each call is carried out at most once and in its time, its      *)
(* verdict says so, and only a set that ran out of time may come late       *)
(* (config.go:24-48, 120-170).                                              *)
Calls == INSTANCE DeviceCalls WITH
  Calls <- Steps, Blind <- {"discover"}, Foreign <- ForeignParams,
  call <- IF phase = "idle" THEN "none" ELSE Step,
  config <- cfg,
  done <- phase = "wait" /\ seq \in served,
  verdict <- IF phase = "idle" THEN last.res ELSE "none",
  late <- phase = "idle" /\ \E m \in ToTarget : m.method = "SetData",
  mem <- nv, touched <- foreign

KeepsCalls == Calls!Spec

(* The command returns whatever the network and the device do: every wait   *)
(* is bounded by the context (transport.go:85-112, discovery.go:24-32).     *)
Terminates == <>(phase = "idle" /\ at = Len(script))

(* Re-transmission hides the loss of as many packets as there are repeats   *)
(* (client.go:68-97): only a further loss, or a device that is silent or    *)
(* rebooting, leaves an operation without any answer; and a reset taken for *)
(* done when nobody has answered until the deadline (config.go:186-191) was *)
(* carried out.                                                             *)
RetriesMaskLoss ==
  /\ last.res = "unknown" => losses > Retries \/ rebooting \/ "AdvDisc" \in rejects
  /\ last.res = "assumed" => seq \in served \/ losses > Retries \/ "AdvDisc" \in rejects

(* discover --info reports a device that answered get_ip: its network "is   *)
(* null when the device didn't answer get_ip" (reference/commands/          *)
(* discover.mdx), and only then.                                            *)
InfoAnswered ==
  phase = "idle" /\ last.step = "getip" /\ seq \in served => last.res # "unknown"

=============================================================================
