-------------------------- MODULE CliProcessProofs --------------------------
(***************************************************************************)
(* Theorems of CliProcess, for every set of invocations: nothing is ever   *)
(* written over the bar, one goroutine receives at a time, and a command   *)
(* leaves nothing behind.  They are three sides of one inductive invariant *)
(* (IInv): what a command still has to do covers what it has started       *)
(* (Covered), each goroutine is where main lets it be (Main, Discovering), *)
(* and the lock of stderrSync orders what is on the screen (Screen).       *)
(***************************************************************************)
EXTENDS CliProcess, SequenceTheorems, TLAPS

-----------------------------------------------------------------------------
(* What is still to do, t, given the client c and the bar b. *)

Kinds == {"input", "sources", "open", "bar", "discover", "list", "find", "call", "soft", "reset",
          "default", "stop", "render", "cancel", "close", "enumerate"}
Live(b) == b \notin {"none", "done"}
NeedsClient == {"bar", "discover", "find"} \cup Calls
Bare == {"render", "bar", "close"}    \* never while the bar lives

(* A stop comes before anything the bar must not live to see. *)
Shielded(t) ==
  \E k \in 1..Len(t) : t[k] = "stop" /\ \A j \in 1..k : t[j] \notin Bare

(* Each open is closed, last of all; each bar is stopped in time. *)
Sound(t) ==
  /\ t \in Seq(Kinds)
  /\ \A i \in 1..Len(t) : t[i] = "open" => t[Len(t)] = "close"
  /\ \A i \in 1..Len(t) : t[i] = "close" => i = Len(t)
  /\ \A i \in 1..Len(t) :
       t[i] = "bar" =>
         \E k \in (i+1)..Len(t) : t[k] = "stop" /\ \A j \in (i+1)..k : t[j] \notin Bare

Covered(t, c, b) ==
  /\ Sound(t)
  /\ c = "open" => t # <<>> /\ t[Len(t)] = "close"
  /\ c # "open" =>
       \A i \in 1..Len(t) : t[i] \in NeedsClient => \E j \in 1..i : t[j] = "open"
  /\ Live(b) => c = "open" /\ Shielded(t)

-----------------------------------------------------------------------------
Idle == {"parse", "prerun", "groups", "returned", "exit"}
Waiting == {"await", "poll", "select", "join"}

Typed ==
  /\ pc \in Idle \cup Waiting \cup {"run", "stopping", "recv", "reading"}
  /\ inv \in AllInvocations
  /\ client \in {"none", "open", "closed"}
  /\ disc \in {"none", "send", "check", "read", "ended", "failed"}
  /\ bar \in {"none", "delay", "draw", "drawn", "tick", "clear", "done"}
  /\ lock \in Writers \cup {"free", "bar"} /\ active \in BOOLEAN /\ row \in {"blank", "bar"}
  /\ line \in [Writers -> {"none", "wait", "write"}] /\ smashed \in BOOLEAN

Main ==
  /\ pc \in Idle => todo = <<>>
  /\ pc = "stopping" => todo # <<>> /\ Head(todo) = "stop"
  /\ pc \in {"recv", "reading"} => todo # <<>> /\ Head(todo) \in Calls
  /\ pc \in Waiting => todo # <<>> /\ Head(todo) \in {"discover", "find"}
  /\ line["main"] # "none" => pc \in {"run", "recv"}

Discovering ==
  /\ disc \in {"send", "check", "read"} => pc \in Waiting /\ client = "open"
  /\ line["disc"] # "none" => pc \in Waiting
  /\ disc = "read" => line["disc"] = "none"

Screen ==
  /\ lock = "bar" <=> bar = "drawn"
  /\ \A w \in Writers : lock = w <=> line[w] = "write"
  /\ row = "bar" => active \/ bar = "drawn"
  /\ active => bar \in {"draw", "drawn", "tick", "clear"}
  /\ \A w \in Writers : line[w] = "write" => row = "blank"
  /\ ~smashed

IInv == Typed /\ Covered(todo, client, bar) /\ Main /\ Discovering /\ Screen

-----------------------------------------------------------------------------
(* Facts about what is to do. *)

(* With nothing left to do, nothing is open and no bar lives. *)
LEMMA NothingOpen ==
  ASSUME NEW c, NEW b
  PROVE  /\ Covered(<<>>, c, b) => c # "open" /\ ~Live(b)
         /\ c # "open" /\ ~Live(b) => Covered(<<>>, c, b)
<1>1. <<>> \in Seq(Kinds) /\ Len(<<>>) = 0
  OBVIOUS
<1> QED
  BY <1>1 DEF Covered, Sound

(* The commands' own plans cover what they start. *)
LEMMA PlansCovered ==
  ASSUME NEW cmd \in Commands, NEW c, c # "open", NEW b, ~Live(b)
  PROVE  Covered(Plan(cmd), c, b)
<1> DEFINE p == Plan(cmd)
<1>1. CASE cmd = "discover"
  <2>1. /\ p \in Seq(Kinds) /\ Len(p) = 9
        /\ p[1] = "open" /\ p[2] = "bar" /\ p[3] = "discover" /\ p[4] = "stop"
        /\ p[5] = "list" /\ p[6] = "render" /\ p[7] = "stop" /\ p[8] = "cancel"
        /\ p[9] = "close"
    BY <1>1 DEF Plan, Kinds
  <2> QED
    BY <2>1 DEF Covered, Sound, NeedsClient, Calls, Bare
<1>2. CASE cmd = "discover --info"
  <2>1. p = <<"open", "bar", "discover", "stop", "list", "soft", "soft",
             "render", "stop", "cancel", "close">>
    BY <1>2 DEF Plan
  <2>2. p \in Seq(Kinds)
    BY <2>1 DEF Kinds
  <2>3. /\ Len(p) = 11
        /\ p[1] = "open" /\ p[2] = "bar" /\ p[3] = "discover" /\ p[4] = "stop"
        /\ p[5] = "list" /\ p[6] = "soft" /\ p[7] = "soft" /\ p[8] = "render"
        /\ p[9] = "stop" /\ p[10] = "cancel" /\ p[11] = "close"
    BY <2>1
  <2> QED
    BY <2>2, <2>3 DEF Covered, Sound, NeedsClient, Calls, Bare
<1>3. CASE cmd = "info"
  <2>1. /\ p \in Seq(Kinds) /\ Len(p) = 10
        /\ p[1] = "input" /\ p[2] = "open" /\ p[3] = "bar" /\ p[4] = "find"
        /\ p[5] = "stop" /\ p[6] = "soft" /\ p[7] = "render" /\ p[8] = "stop"
        /\ p[9] = "cancel" /\ p[10] = "close"
    BY <1>3 DEF Plan, Kinds
  <2> QED
    BY <2>1 DEF Covered, Sound, NeedsClient, Calls, Bare
<1>4. CASE cmd \in {"getip", "get", "read"}
  <2>1. p = <<"input", "open", "bar", "find", "call", "stop", "render",
             "stop", "cancel", "close">>
    BY <1>4 DEF Plan
  <2>2. p \in Seq(Kinds)
    BY <2>1 DEF Kinds
  <2>3. /\ Len(p) = 10
        /\ p[1] = "input" /\ p[2] = "open" /\ p[3] = "bar" /\ p[4] = "find"
        /\ p[5] = "call" /\ p[6] = "stop" /\ p[7] = "render" /\ p[8] = "stop"
        /\ p[9] = "cancel" /\ p[10] = "close"
    BY <2>1
  <2> QED
    BY <2>2, <2>3 DEF Covered, Sound, NeedsClient, Calls, Bare
<1>5. CASE cmd = "set"
  <2>1. /\ p \in Seq(Kinds) /\ Len(p) = 13
        /\ p[1] = "input" /\ p[2] = "sources" /\ p[3] = "open" /\ p[4] = "bar"
        /\ p[5] = "find" /\ p[6] = "call" /\ p[7] = "default" /\ p[8] = "call"
        /\ p[9] = "stop" /\ p[10] = "render" /\ p[11] = "stop" /\ p[12] = "cancel"
        /\ p[13] = "close"
    BY <1>5 DEF Plan, Kinds
  <2> QED
    BY <2>1 DEF Covered, Sound, NeedsClient, Calls, Bare
<1>6. CASE cmd = "set --reboot"
  <2>1. p = <<"input", "sources", "open", "bar", "find", "call", "default",
             "call", "reset", "stop", "render", "stop", "cancel", "close">>
    BY <1>6 DEF Plan
  <2>2. p \in Seq(Kinds)
    BY <2>1 DEF Kinds
  <2>3. /\ Len(p) = 14
        /\ p[1] = "input" /\ p[2] = "sources" /\ p[3] = "open" /\ p[4] = "bar"
        /\ p[5] = "find" /\ p[6] = "call" /\ p[7] = "default" /\ p[8] = "call"
        /\ p[9] = "reset" /\ p[10] = "stop" /\ p[11] = "render" /\ p[12] = "stop"
        /\ p[13] = "cancel" /\ p[14] = "close"
    BY <2>1
  <2> QED
    BY <2>2, <2>3 DEF Covered, Sound, NeedsClient, Calls, Bare
<1>7. CASE cmd = "reboot"
  <2>1. /\ p \in Seq(Kinds) /\ Len(p) = 8
        /\ p[1] = "input" /\ p[2] = "open" /\ p[3] = "bar" /\ p[4] = "find"
        /\ p[5] = "reset" /\ p[6] = "stop" /\ p[7] = "cancel" /\ p[8] = "close"
    BY <1>7 DEF Plan, Kinds
  <2> QED
    BY <2>1 DEF Covered, Sound, NeedsClient, Calls, Bare
<1>8. CASE cmd = "interfaces"
  BY <1>8 DEF Plan, Covered, Sound, NeedsClient, Calls, Kinds
<1>9. CASE cmd = "--version"
  BY <1>9 DEF Plan, Covered, Sound, NeedsClient, Calls, Kinds
<1>10. CASE cmd = ""
  <2>1. p = <<>>
    BY <1>10 DEF Plan
  <2> QED
    BY <2>1, NothingOpen
<1> QED
  BY <1>1, <1>2, <1>3, <1>4, <1>5, <1>6, <1>7, <1>8, <1>9, <1>10 DEF Commands, DeviceCommands

(* So do the deferred calls of a command that fails, whatever its bar does. *)
LEMMA DeferredCovers ==
  ASSUME NEW b
  PROVE  Covered(Deferred, "open", b)
<1>1. /\ Deferred \in Seq(Kinds) /\ Len(Deferred) = 3
      /\ Deferred[1] = "stop" /\ Deferred[2] = "cancel" /\ Deferred[3] = "close"
  BY DEF Deferred, Kinds
<1>2. Sound(Deferred)
  BY <1>1 DEF Sound
<1>3. Shielded(Deferred)
  <2>1. 1 \in 1..Len(Deferred) /\ \A j \in 1..1 : Deferred[j] \notin Bare
    BY <1>1 DEF Bare
  <2> QED
    BY <1>1, <2>1 DEF Shielded
<1> QED
  BY <1>1, <1>2, <1>3 DEF Covered

(* What a step finds when it is its turn, and the step behind it. *)
LEMMA Turns ==
  ASSUME NEW t, NEW c, NEW b, Covered(t, c, b), t # <<>>
  PROVE  /\ Head(t) \in NeedsClient => c = "open"
         /\ Head(t) \in Bare => ~Live(b)
<1>1. t \in Seq(Kinds) /\ Len(t) \in Nat /\ 1 \in 1..Len(t) /\ Head(t) = t[1]
  BY DEF Covered, Sound
<1>2. Head(t) \in NeedsClient => c = "open"
  BY <1>1 DEF Covered, NeedsClient, Calls
<1>3. Head(t) \in Bare => ~Live(b)
  BY <1>1 DEF Covered, Shielded, Bare
<1> QED
  BY <1>2, <1>3

LEMMA TailIsSound ==
  ASSUME NEW t, Sound(t), t # <<>>
  PROVE  /\ Sound(Tail(t))
         /\ Len(t) \in Nat \ {0} /\ Len(Tail(t)) = Len(t) - 1
         /\ \A i \in 1..Len(Tail(t)) : Tail(t)[i] = t[i+1]
         /\ Head(t) = t[1]
<1>1. /\ t \in Seq(Kinds) /\ Len(t) \in Nat \ {0}
      /\ Tail(t) \in Seq(Kinds) /\ Len(Tail(t)) = Len(t) - 1
      /\ \A i \in 1..Len(Tail(t)) : Tail(t)[i] = t[i+1]
      /\ Head(t) = t[1]
  BY DEF Sound
<1>2. ASSUME NEW i \in 1..Len(Tail(t)), Tail(t)[i] = "open"
      PROVE  Tail(t)[Len(Tail(t))] = "close"
  <2>1. i+1 \in 1..Len(t) /\ t[i+1] = "open"
    BY <1>1, <1>2
  <2>2. t[Len(t)] = "close"
    BY <2>1 DEF Sound
  <2>3. Len(Tail(t)) \in 1..Len(Tail(t)) /\ Len(Tail(t)) + 1 = Len(t)
    BY <1>1, <1>2
  <2> QED
    BY <1>1, <2>2, <2>3
<1>3. ASSUME NEW i \in 1..Len(Tail(t)), Tail(t)[i] = "close"
      PROVE  i = Len(Tail(t))
  <2>1. i+1 \in 1..Len(t) /\ t[i+1] = "close"
    BY <1>1, <1>3
  <2>2. i+1 = Len(t)
    BY <2>1 DEF Sound
  <2>3. i \in Nat /\ Len(t) \in Nat /\ Len(Tail(t)) = Len(t) - 1
    BY <1>1
  <2> QED
    BY <2>2, <2>3
<1>4. ASSUME NEW i \in 1..Len(Tail(t)), Tail(t)[i] = "bar"
      PROVE  \E k \in (i+1)..Len(Tail(t)) :
                Tail(t)[k] = "stop" /\ \A j \in (i+1)..k : Tail(t)[j] \notin Bare
  <2>0. i+1 \in 1..Len(t) /\ t[i+1] = "bar" /\ i+1+1 = i+2
    BY <1>1, <1>4
  <2>1. PICK k \in (i+1+1)..Len(t) :
             t[k] = "stop" /\ \A j \in (i+1+1)..k : t[j] \notin Bare
    BY <2>0 DEF Sound
  <2>2. k-1 \in (i+1)..Len(Tail(t)) /\ Tail(t)[k-1] = "stop"
    BY <1>1, <2>1
  <2>3. \A j \in (i+1)..(k-1) : Tail(t)[j] \notin Bare
    BY <1>1, <2>1
  <2> QED
    BY <2>2, <2>3
<1> QED
  BY <1>1, <1>2, <1>3, <1>4 DEF Sound

(* A step that opens, starts, stops and closes nothing leaves the rest      *)
(* covered.                                                                 *)
LEMMA Advance ==
  ASSUME NEW t, NEW c, NEW b, Covered(t, c, b), t # <<>>,
         Head(t) # "open", Head(t) # "close", Head(t) = "stop" => ~Live(b)
  PROVE  Covered(Tail(t), c, b)
<1>1. /\ Sound(Tail(t))
      /\ Len(t) \in Nat \ {0} /\ Len(Tail(t)) = Len(t) - 1
      /\ \A i \in 1..Len(Tail(t)) : Tail(t)[i] = t[i+1]
      /\ Head(t) = t[1]
  BY TailIsSound DEF Covered
<1>2. ASSUME c = "open"
      PROVE  Tail(t) # <<>> /\ Tail(t)[Len(Tail(t))] = "close"
  <2>1. t[Len(t)] = "close"
    BY <1>2 DEF Covered
  <2>2. Len(t) # 1
    BY <1>1, <2>1
  <2>3. Len(Tail(t)) \in 1..Len(Tail(t)) /\ Len(Tail(t)) + 1 = Len(t)
    BY <1>1, <2>2
  <2>4. Tail(t)[Len(Tail(t))] = t[Len(t)]
    BY <1>1, <2>3
  <2>5. Tail(t) # <<>>
    BY <2>3
  <2> QED
    BY <2>1, <2>4, <2>5
<1>3. ASSUME c # "open", NEW i \in 1..Len(Tail(t)), Tail(t)[i] \in NeedsClient
      PROVE  \E j \in 1..i : Tail(t)[j] = "open"
  <2>0. i+1 \in 1..Len(t) /\ t[i+1] \in NeedsClient
    BY <1>1, <1>3
  <2>1. PICK j \in 1..(i+1) : t[j] = "open"
    BY <1>3, <2>0 DEF Covered
  <2>2. j-1 \in 1..i /\ Tail(t)[j-1] = "open"
    BY <1>1, <2>1
  <2> QED
    BY <2>2
<1>4. ASSUME Live(b)
      PROVE  c = "open" /\ Shielded(Tail(t))
  <2>1. PICK k \in 1..Len(t) : t[k] = "stop" /\ \A j \in 1..k : t[j] \notin Bare
    BY <1>4 DEF Covered, Shielded
  <2>2. k-1 \in 1..Len(Tail(t)) /\ Tail(t)[k-1] = "stop"
    BY <1>1, <1>4, <2>1
  <2>3. \A j \in 1..(k-1) : Tail(t)[j] \notin Bare
    BY <1>1, <2>1
  <2> QED
    BY <1>4, <2>2, <2>3 DEF Covered, Shielded
<1> QED
  BY <1>1, <1>2, <1>3, <1>4 DEF Covered

(* The three steps that do. *)
LEMMA OpenCovers ==
  ASSUME NEW t, NEW c, NEW b, Covered(t, c, b), t # <<>>, Head(t) = "open"
  PROVE  Covered(Tail(t), "open", b)
<1>1. /\ Sound(Tail(t))
      /\ Len(t) \in Nat \ {0} /\ Len(Tail(t)) = Len(t) - 1
      /\ \A i \in 1..Len(Tail(t)) : Tail(t)[i] = t[i+1]
      /\ Head(t) = t[1]
  BY TailIsSound DEF Covered
<1>2. Tail(t) # <<>> /\ Tail(t)[Len(Tail(t))] = "close"
  <2>1. 1 \in 1..Len(t) /\ t[1] = "open"
    BY <1>1
  <2>2. t[Len(t)] = "close"
    BY <2>1 DEF Covered, Sound
  <2>3. Len(t) # 1
    BY <1>1, <2>2
  <2>4. Len(Tail(t)) \in 1..Len(Tail(t)) /\ Len(Tail(t)) + 1 = Len(t)
    BY <1>1, <2>3
  <2> QED
    BY <1>1, <2>2, <2>4
<1>3. ASSUME Live(b)
      PROVE  Shielded(Tail(t))
  <2>1. PICK k \in 1..Len(t) : t[k] = "stop" /\ \A j \in 1..k : t[j] \notin Bare
    BY <1>3 DEF Covered, Shielded
  <2>2. k-1 \in 1..Len(Tail(t)) /\ Tail(t)[k-1] = "stop"
    BY <1>1, <2>1
  <2>3. \A j \in 1..(k-1) : Tail(t)[j] \notin Bare
    BY <1>1, <2>1
  <2> QED
    BY <2>2, <2>3 DEF Shielded
<1> QED
  BY <1>1, <1>2, <1>3 DEF Covered

LEMMA BarCovers ==
  ASSUME NEW t, NEW c, NEW b, Covered(t, c, b), t # <<>>, Head(t) = "bar", NEW b2
  PROVE  Covered(Tail(t), c, b2)
<1>1. /\ Sound(Tail(t))
      /\ Len(t) \in Nat \ {0} /\ Len(Tail(t)) = Len(t) - 1
      /\ \A i \in 1..Len(Tail(t)) : Tail(t)[i] = t[i+1]
      /\ Head(t) = t[1]
  BY TailIsSound DEF Covered
<1>2. c = "open" /\ ~Live(b)
  BY Turns DEF NeedsClient, Bare
<1>3. Covered(Tail(t), c, b)
  BY <1>2, Advance
<1>4. Shielded(Tail(t))
  <2>0. 1 \in 1..Len(t) /\ t[1] = "bar"
    BY <1>1
  <2>1. PICK k \in (1+1)..Len(t) : t[k] = "stop" /\ \A j \in (1+1)..k : t[j] \notin Bare
    BY <2>0 DEF Covered, Sound
  <2>2. k-1 \in 1..Len(Tail(t)) /\ Tail(t)[k-1] = "stop"
    BY <1>1, <2>1
  <2>3. \A j \in 1..(k-1) : Tail(t)[j] \notin Bare
    BY <1>1, <2>1
  <2> QED
    BY <2>2, <2>3 DEF Shielded
<1> QED
  BY <1>2, <1>3, <1>4 DEF Covered

LEMMA CloseIsLast ==
  ASSUME NEW t, Sound(t), t # <<>>, Head(t) = "close"
  PROVE  Tail(t) = <<>>
<1>1. /\ Sound(Tail(t))
      /\ Len(t) \in Nat \ {0} /\ Len(Tail(t)) = Len(t) - 1
      /\ Head(t) = t[1]
  BY TailIsSound
<1>2. Len(Tail(t)) = 0
  <2>1. 1 \in 1..Len(t) /\ t[1] = "close"
    BY <1>1
  <2>2. 1 = Len(t)
    BY <2>1 DEF Sound
  <2>3. Len(t) \in Nat /\ Len(Tail(t)) = Len(t) - 1
    BY <1>1
  <2> QED
    BY <2>2, <2>3
<1>3. Tail(t) \in Seq(Kinds)
  BY <1>1 DEF Sound
<1> QED
  BY <1>2, <1>3, EmptySeq

LEMMA CloseCovers ==
  ASSUME NEW t, NEW c, NEW b, Covered(t, c, b), t # <<>>, Head(t) = "close"
  PROVE  Covered(Tail(t), "closed", b)
<1>1. Tail(t) = <<>>
  BY CloseIsLast DEF Covered
<1>2. ~Live(b)
  BY Turns DEF Bare
<1> QED
  BY <1>1, <1>2, NothingOpen

(* A failing step runs the deferred calls, if there is a client. *)
LEMMA FailCovers ==
  ASSUME NEW c, NEW b, Live(b) => c = "open"
  PROVE  Covered(IF c = "open" THEN Deferred ELSE <<>>, c, b)
BY DeferredCovers, NothingOpen

-----------------------------------------------------------------------------
(* The invariant. *)

LEMMA InitHolds == Init => IInv
<1> SUFFICES ASSUME Init PROVE IInv
  OBVIOUS
<1>1. Typed
  BY InvocationAssumption DEF Init, Typed, Idle, Writers
<1>2. Covered(todo, client, bar)
  <2>1. todo = <<>> /\ client # "open" /\ ~Live(bar)
    BY DEF Init, Live
  <2> QED
    BY <2>1, NothingOpen
<1>3. Main /\ Discovering
  BY DEF Init, Main, Discovering, Idle, Waiting, Writers
<1>4. Screen
  BY DEF Init, Screen, Writers
<1> QED
  BY <1>1, <1>2, <1>3, <1>4 DEF IInv

(* The goroutines beside main, the clock and the terminal.                  *)
LEMMA AsideKeeps ==
  ASSUME IInv, StdinEnds \/ Deadline \/ Discovers
  PROVE  IInv'
<1> USE DEF process, flow, work, discovery, progress, screen
<1>1. CASE StdinEnds \/ Deadline
  BY <1>1 DEF IInv, Typed, Main, Discovering, Screen, StdinEnds, Deadline
<1>2. CASE DiscSends
  <2>1. Covered(todo, client, bar)' /\ Main' /\ Typed'
    BY <1>2 DEF IInv, Typed, Main, Writers, Quiet, MayLog, DiscSends
  <2>2. Discovering' /\ Screen'
    BY <1>2 DEF IInv, Typed, Discovering, Screen, Writers, Quiet, MayLog, DiscSends
  <2> QED
    BY <2>1, <2>2 DEF IInv
<1>3. CASE DiscReads
  <2>1. Covered(todo, client, bar)' /\ Main' /\ Typed'
    BY <1>3 DEF IInv, Typed, Main, Writers, MayLog, DiscReads
  <2>2. Discovering' /\ Screen'
    BY <1>3 DEF IInv, Typed, Discovering, Screen, Writers, MayLog, DiscReads
  <2> QED
    BY <2>1, <2>2 DEF IInv
<1>4. CASE DiscChecks
  BY <1>4 DEF IInv, Typed, Main, Discovering, Screen, DiscChecks, Quiet
<1>5. CASE DiscTimesOut \/ DiscFails
  BY <1>5 DEF IInv, Typed, Main, Discovering, Screen, DiscTimesOut, DiscFails
<1> QED
  BY <1>1, <1>2, <1>3, <1>4, <1>5 DEF Discovers

LEMMA WritersKeep ==
  ASSUME IInv, NEW w \in Writers, WriteLocks(w) \/ WriteEnds(w)
  PROVE  IInv'
<1> USE DEF process, flow, work, discovery, progress
<1>1. UNCHANGED <<inv, pc, todo, client, disc, bar>>
  BY DEF WriteLocks, WriteEnds
<1>2. line[w] # "none"
  BY DEF WriteLocks, WriteEnds
<1>3. /\ \A v \in Writers : v # w => line'[v] = line[v]
      /\ line' \in [Writers -> {"none", "wait", "write"}]
      /\ lock' \in {w, "free"}
  BY DEF IInv, Typed, WriteLocks, WriteEnds
<1>4. Covered(todo, client, bar)' /\ Main' /\ Discovering'
  BY <1>1, <1>2, <1>3 DEF IInv, Main, Discovering, Writers
<1>5. CASE WriteLocks(w)
  <2>1. /\ lock = "free" /\ lock' = w /\ line'[w] = "write" /\ ~active'
        /\ row' = (IF active THEN "blank" ELSE row) /\ smashed' = smashed
    BY <1>5 DEF IInv, Typed, WriteLocks
  <2>2. Typed'
    BY <1>1, <1>3, <2>1, <1>5 DEF IInv, Typed, WriteLocks
  <2>3. Screen'
    BY <1>1, <1>3, <2>1 DEF IInv, Typed, Screen, Writers
  <2> QED
    BY <1>4, <2>2, <2>3 DEF IInv
<1>6. CASE WriteEnds(w)
  <2>1. /\ line[w] = "write" /\ lock' = "free" /\ line'[w] = "none"
        /\ active' = active /\ row' = row /\ smashed' = (smashed \/ row = "bar")
    BY <1>6 DEF IInv, Typed, WriteEnds
  <2>2. Typed'
    BY <1>1, <1>3, <2>1 DEF IInv, Typed
  <2>3. Screen'
    BY <1>1, <1>3, <2>1 DEF IInv, Typed, Screen, Writers
  <2> QED
    BY <1>4, <2>2, <2>3 DEF IInv
<1> QED
  BY <1>5, <1>6

(* The bar's goroutine starts nothing anew: it lives only on. *)
LEMMA BarKeeps ==
  ASSUME IInv, Bar
  PROVE  IInv'
<1> USE DEF process, flow, work, discovery, screen
<1>1. Live(bar) /\ UNCHANGED <<inv, pc, todo, client, disc, line, smashed>>
  BY DEF Bar, Live, BarCancelled, BarShows, BarDraws, BarDrawn, BarTicks, BarStops, BarClears
<1>2. Covered(todo, client, bar)' /\ Main' /\ Discovering'
  BY <1>1 DEF IInv, Covered, Main, Discovering
<1>3. CASE BarCancelled \/ BarShows \/ BarTicks \/ BarStops
  BY <1>1, <1>2, <1>3
     DEF IInv, Typed, Screen, BarCancelled, BarShows, BarTicks, BarStops
<1>4. CASE BarDraws
  BY <1>1, <1>2, <1>4 DEF IInv, Typed, Screen, Writers, BarDraws
<1>5. CASE BarDrawn
  BY <1>1, <1>2, <1>5 DEF IInv, Typed, Screen, Writers, BarDrawn
<1>6. CASE BarClears
  <2>1. /\ lock = "free" /\ bar = "clear" /\ bar' = "done" /\ lock' = lock /\ ~active'
        /\ row' = (IF active THEN "blank" ELSE row) /\ active' = FALSE
    BY <1>6 DEF BarClears
  <2>2. Typed'
    BY <1>1, <2>1 DEF IInv, Typed
  <2>3. Screen'
    BY <1>1, <2>1 DEF IInv, Typed, Screen
  <2> QED
    BY <1>2, <2>2, <2>3 DEF IInv
<1> QED
  BY <1>3, <1>4, <1>5, <1>6 DEF Bar

-----------------------------------------------------------------------------
(* The main goroutine. *)

(* With no living bar the line is blank. *)
LEMMA BlankWithoutBar ==
  ASSUME IInv, ~Live(bar)
  PROVE  row = "blank" /\ ~active /\ lock # "bar"
BY DEF IInv, Typed, Screen, Live

LEMMA LoggingKeeps ==
  ASSUME IInv, line["main"] = "none", UNCHANGED screen \/ MayLog("main")
  PROVE  /\ lock' = lock /\ active' = active /\ row' = row /\ smashed' = smashed
         /\ line' \in [Writers -> {"none", "wait", "write"}]
         /\ line'["disc"] = line["disc"] /\ line'["main"] \in {"none", "wait"}
BY DEF IInv, Typed, Writers, MayLog, screen

(* Main goes on with its steps. *)
LEMMA RunsOn ==
  ASSUME IInv, pc' = "run", UNCHANGED <<inv, disc>>,
         disc \notin {"send", "check", "read"}, line["disc"] = "none", line["main"] = "none",
         UNCHANGED screen \/ MayLog("main"),
         bar' = bar \/ (~Live(bar) /\ bar' \in {"none", "delay"}),
         client' \in {"none", "open", "closed"}, Covered(todo', client', bar')
  PROVE  IInv'
<1>1. /\ lock' = lock /\ active' = active /\ row' = row /\ smashed' = smashed
      /\ line' \in [Writers -> {"none", "wait", "write"}]
      /\ line'["disc"] = line["disc"] /\ line'["main"] \in {"none", "wait"}
  BY LoggingKeeps
<1>2. Typed'
  BY <1>1 DEF IInv, Typed
<1>3. Main' /\ Discovering'
  BY <1>1 DEF IInv, Main, Discovering, Idle, Waiting
<1>4. Screen'
  <2>1. \A w \in Writers : line'[w] = "write" <=> line[w] = "write"
    BY <1>1 DEF Writers
  <2>2. CASE bar' = bar
    BY <1>1, <2>1, <2>2 DEF IInv, Screen
  <2>3. CASE ~Live(bar) /\ bar' \in {"none", "delay"}
    BY <1>1, <2>1, <2>3, BlankWithoutBar DEF IInv, Screen
  <2> QED
    BY <2>2, <2>3
<1> QED
  BY <1>2, <1>3, <1>4 DEF IInv

(* Where it stands when it does so. *)
LEMMA StandsStill ==
  ASSUME IInv, \/ pc \in {"run", "stopping", "reading"} /\ Quiet("main")
               \/ pc = "recv" /\ Quiet("main")
               \/ pc \in Waiting /\ Over
  PROVE  /\ disc \notin {"send", "check", "read"}
         /\ line["disc"] = "none" /\ line["main"] = "none"
         /\ Live(bar) => client = "open"
         /\ client \in {"none", "open", "closed"}
<1>1. Live(bar) => client = "open"
  BY DEF IInv, Covered
<1> QED
  BY <1>1 DEF IInv, Typed, Main, Discovering, Waiting, Quiet, Over

LEMMA CobraKeeps ==
  ASSUME IInv, Cobra \/ PreRunFails
  PROVE  IInv'
<1> USE DEF process, flow, work, discovery, progress, screen
<1>1. pc \in Idle /\ todo = <<>>
  BY DEF IInv, Main, Idle, Cobra, Parse, PreRun, Groups, PreRunFails
<1>2. UNCHANGED <<inv, client, disc, bar, lock, active, row, line, smashed>>
  BY DEF Cobra, Parse, PreRun, Groups, PreRunFails
<1>3. \/ pc' \in Idle /\ todo' = <<>>
      \/ pc' = "run" /\ todo' = Plan(inv.cmd)
  BY <1>1 DEF Cobra, Parse, PreRun, Groups, PreRunFails, Rejected, Idle
<1>4. client # "open" /\ ~Live(bar)
  BY <1>1, NothingOpen DEF IInv
<1>5. Covered(todo', client, bar)
  <2>1. inv.cmd \in Commands
    BY DEF IInv, Typed, AllInvocations
  <2> QED
    BY <1>3, <1>4, <2>1, NothingOpen, PlansCovered
<1>6. Typed' /\ Screen'
  BY <1>2, <1>3 DEF IInv, Typed, Screen
<1>7. Main' /\ Discovering'
  BY <1>1, <1>2, <1>3, <1>4 DEF IInv, Typed, Main, Discovering, Idle, Waiting
<1> QED
  BY <1>2, <1>5, <1>6, <1>7 DEF IInv

(* A step that is done, or fails. *)
LEMMA DoneCovers ==
  ASSUME IInv, todo # <<>>, Head(todo) \notin {"open", "close"},
         Head(todo) = "stop" => ~Live(bar)
  PROVE  Covered(Tail(todo), client, bar)
BY Advance DEF IInv

LEMMA FailRunsOn ==
  ASSUME IInv, NEW kind, Fail(kind), UNCHANGED <<inv, disc, bar, client>>,
         disc \notin {"send", "check", "read"}, line["disc"] = "none", line["main"] = "none",
         UNCHANGED screen \/ MayLog("main")
  PROVE  IInv'
<1>1. Live(bar) => client = "open"
  BY DEF IInv, Covered
<1>2. Covered(todo', client', bar')
  BY <1>1, FailCovers DEF Fail
<1> QED
  BY <1>2, RunsOn DEF Fail, IInv, Typed

LEMMA DoneRunsOn ==
  ASSUME IInv, Done, UNCHANGED <<inv, disc, bar, client>>,
         disc \notin {"send", "check", "read"}, line["disc"] = "none", line["main"] = "none",
         UNCHANGED screen \/ MayLog("main"),
         todo # <<>>, Head(todo) \notin {"open", "close"},
         Head(todo) = "stop" => ~Live(bar)
  PROVE  IInv'
<1>1. Covered(todo', client', bar')
  BY DoneCovers DEF Done
<1> QED
  BY <1>1, RunsOn DEF Done, IInv, Typed

(* The steps that neither open, start, stop nor close anything. *)
LEMMA PlainStepsKeep ==
  ASSUME IInv, Input \/ Sources \/ OpenFails \/ List \/ Enumerate \/ Cancel
  PROVE  IInv'
<1> USE DEF process, flow, work, discovery, progress
<1>1. /\ pc = "run" /\ Quiet("main") /\ todo # <<>>
      /\ UNCHANGED <<inv, disc, bar, client>>
  BY DEF Input, Sources, OpenFails, List, Enumerate, Cancel, Do
<1>2. /\ disc \notin {"send", "check", "read"}
      /\ line["disc"] = "none" /\ line["main"] = "none"
  BY <1>1, StandsStill
<1>3. \/ /\ Done /\ (UNCHANGED screen \/ MayLog("main"))
         /\ Head(todo) \notin {"open", "close", "stop"}
      \/ \E kind : Fail(kind) /\ (UNCHANGED screen \/ MayLog("main"))
  <2>1. CASE Input
    BY <2>1 DEF Input, Do
  <2>2. CASE Sources
    BY <2>2 DEF Sources, Do
  <2> QED
    BY <2>1, <2>2 DEF OpenFails, List, Enumerate, Cancel, Do
<1> QED
  BY <1>1, <1>2, <1>3, DoneRunsOn, FailRunsOn

LEMMA ClientStepsKeep ==
  ASSUME IInv, Open \/ StartBar \/ Close
  PROVE  IInv'
<1> USE DEF process, flow, work, discovery, progress
<1>1. /\ pc = "run" /\ Quiet("main") /\ todo # <<>>
      /\ UNCHANGED <<inv, disc>> /\ Done
  BY DEF Open, StartBar, Close, Do
<1>2. /\ disc \notin {"send", "check", "read"}
      /\ line["disc"] = "none" /\ line["main"] = "none"
      /\ client \in {"none", "open", "closed"}
  BY <1>1, StandsStill
<1>3. CASE Open
  <2>1. client' = "open" /\ bar' = bar /\ MayLog("main") /\ Head(todo) = "open"
    BY <1>3 DEF Open, Do
  <2>2. Covered(todo', client', bar')
    BY <1>1, <2>1, OpenCovers DEF Done, IInv
  <2> QED
    BY <1>1, <1>2, <2>1, <2>2, RunsOn DEF Done
<1>4. CASE StartBar
  <2>1. client' = client /\ bar' \in {"none", "delay"} /\ Head(todo) = "bar" /\ UNCHANGED screen
    BY <1>4 DEF StartBar, Do
  <2>2. ~Live(bar)
    BY <1>1, <2>1, Turns DEF IInv, Bare
  <2>3. Covered(todo', client', bar')
    BY <1>1, <2>1, BarCovers DEF Done, IInv
  <2> QED
    BY <1>1, <1>2, <2>1, <2>2, <2>3, RunsOn DEF Done
<1>5. CASE Close
  <2>1. client' = "closed" /\ bar' = bar /\ Head(todo) = "close" /\ UNCHANGED screen
    BY <1>5 DEF Close, Do
  <2>2. Covered(todo', client', bar')
    BY <1>1, <2>1, CloseCovers DEF Done, IInv
  <2> QED
    BY <1>1, <1>2, <2>1, <2>2, RunsOn DEF Done
<1> QED
  BY <1>3, <1>4, <1>5

(* The result is written when no bar can be on the screen. *)
LEMMA RenderKeeps ==
  ASSUME IInv, Render
  PROVE  IInv'
<1> USE DEF process, work, discovery, progress
<1>1. /\ pc = "run" /\ Quiet("main") /\ todo # <<>> /\ Head(todo) = "render"
      /\ UNCHANGED <<inv, disc, bar, client>>
  BY DEF Render, Do
<1>2. /\ disc \notin {"send", "check", "read"}
      /\ line["disc"] = "none" /\ line["main"] = "none"
  BY <1>1, StandsStill
<1>3. ~Live(bar)
  BY <1>1, Turns DEF IInv, Bare
<1>4. UNCHANGED screen
  BY <1>3, BlankWithoutBar DEF Render, Writes, IInv, Typed, screen
<1>5. Done \/ Fail("failure")
  BY DEF Render
<1> QED
  BY <1>1, <1>2, <1>4, <1>5, DoneRunsOn, FailRunsOn

(* stop() and its wait for the goroutine. *)
LEMMA StopKeeps ==
  ASSUME IInv, Stop \/ StopReturns
  PROVE  IInv'
<1> USE DEF process, work, discovery, progress
<1>1. CASE Stop
  <2>1. /\ pc = "run" /\ Quiet("main") /\ todo # <<>> /\ Head(todo) = "stop"
        /\ pc' = "stopping"
        /\ UNCHANGED <<inv, todo, disc, bar, client, lock, active, row, line, smashed>>
    BY <1>1 DEF Stop, Do, screen
  <2>2. /\ disc \notin {"send", "check", "read"}
        /\ line["disc"] = "none" /\ line["main"] = "none"
    BY <2>1, StandsStill
  <2> QED
    BY <2>1, <2>2 DEF IInv, Typed, Main, Discovering, Screen, Idle, Waiting
<1>2. CASE StopReturns
  <2>1. /\ pc = "stopping" /\ ~Live(bar) /\ Done /\ UNCHANGED screen
        /\ UNCHANGED <<inv, disc, bar, client>>
    BY <1>2 DEF StopReturns, Live
  <2>2. todo # <<>> /\ Head(todo) = "stop" /\ Quiet("main")
    BY <2>1 DEF IInv, Typed, Main, Writers, Quiet
  <2>3. /\ disc \notin {"send", "check", "read"}
        /\ line["disc"] = "none" /\ line["main"] = "none"
    BY <2>1, <2>2, StandsStill
  <2> QED
    BY <2>1, <2>2, <2>3, DoneRunsOn
<1> QED
  BY <1>1, <1>2

(* The operations on a device. *)
LEMMA CallsKeep ==
  ASSUME IInv,
         CallSends \/ CallSkipped \/ CallSendFails \/ CallChecks \/ CallReadsOn \/ CallAnswered
  PROVE  IInv'
<1> USE DEF process, work, discovery, progress
<1>1. /\ pc \in {"run", "recv", "reading"} /\ todo # <<>> /\ Head(todo) \in Calls
      /\ Quiet("main") /\ UNCHANGED <<inv, disc, bar, client>>
  BY DEF IInv, Typed, Main, Writers, Quiet, Calls, Do,
         CallSends, CallSkipped, CallSendFails, CallChecks, CallReadsOn, CallAnswered
<1>2. /\ disc \notin {"send", "check", "read"}
      /\ line["disc"] = "none" /\ line["main"] = "none"
  BY <1>1, StandsStill
<1>3. \/ Done /\ (UNCHANGED screen \/ MayLog("main"))
      \/ Fail("failure") /\ UNCHANGED screen
      \/ pc' \in {"recv", "reading"} /\ UNCHANGED todo
           /\ \/ UNCHANGED screen /\ pc' = "reading"
              \/ MayLog("main") /\ pc' = "recv"
  <2>1. CASE CallSends \/ CallReadsOn
    BY <2>1 DEF CallSends, CallReadsOn, flow
  <2>2. CASE CallSkipped \/ CallSendFails \/ CallAnswered
    BY <2>2 DEF CallSkipped, CallSendFails, CallAnswered, CallFails
  <2>3. CASE CallChecks
    <3>1. \/ pc' = "reading" /\ UNCHANGED todo /\ UNCHANGED screen
          \/ Done /\ UNCHANGED screen
          \/ CallFails
      BY <2>3 DEF CallChecks
    <3>2. CASE pc' = "reading" /\ UNCHANGED todo /\ UNCHANGED screen
      BY <3>2 DEF screen
    <3>3. CASE Done /\ UNCHANGED screen
      BY <3>3
    <3>4. CASE CallFails
      BY <3>4 DEF CallFails
    <3> QED
      BY <3>1, <3>2, <3>3, <3>4
  <2> QED
    BY <2>1, <2>2, <2>3
<1>4. CASE Done /\ (UNCHANGED screen \/ MayLog("main"))
  <2>1. Head(todo) \notin {"open", "close", "stop"}
    BY <1>1 DEF Calls
  <2> QED
    BY <1>1, <1>2, <1>4, <2>1, DoneRunsOn
<1>5. CASE Fail("failure") /\ UNCHANGED screen
  BY <1>1, <1>2, <1>5, FailRunsOn
<1>6. CASE /\ pc' \in {"recv", "reading"} /\ UNCHANGED todo
           /\ \/ UNCHANGED screen /\ pc' = "reading"
              \/ MayLog("main") /\ pc' = "recv"
  <2>1. /\ lock' = lock /\ active' = active /\ row' = row /\ smashed' = smashed
        /\ line' \in [Writers -> {"none", "wait", "write"}]
        /\ line'["disc"] = line["disc"] /\ line'["main"] \in {"none", "wait"}
        /\ line'["main"] # "none" => pc' = "recv"
    <3>1. line["main"] = "none"
      BY <1>2
    <3> QED
      BY <1>6, <3>1, LoggingKeeps DEF screen
  <2>2. \A w \in Writers : line'[w] = "write" <=> line[w] = "write"
    BY <1>2, <2>1 DEF Writers
  <2>3. Typed' /\ Screen' /\ Covered(todo, client, bar)'
    BY <1>1, <1>6, <2>1, <2>2 DEF IInv, Typed, Screen
  <2>4. Main' /\ Discovering'
    BY <1>1, <1>2, <1>6, <2>1 DEF Main, Discovering, Idle, Waiting
  <2> QED
    BY <2>3, <2>4 DEF IInv
<1> QED
  BY <1>3, <1>4, <1>5, <1>6

(* The discovery is started when the client is open. *)
LEMMA DiscoveryStartKeeps ==
  ASSUME IInv, Discover \/ FindStarts
  PROVE  IInv'
<1> USE DEF process, work, screen, progress
<1>1. /\ pc = "run" /\ Quiet("main") /\ todo # <<>> /\ Head(todo) \in {"discover", "find"}
      /\ disc' = "send" /\ pc' \in {"await", "poll"}
      /\ UNCHANGED <<inv, todo, bar, client, lock, active, row, line, smashed>>
  BY DEF Discover, FindStarts, Do
<1>2. line["disc"] = "none" /\ line["main"] = "none"
  BY <1>1, StandsStill
<1>3. client = "open"
  BY <1>1, Turns DEF IInv, NeedsClient
<1> QED
  BY <1>1, <1>2, <1>3 DEF IInv, Typed, Main, Discovering, Screen, Idle, Waiting

(* Main waits for it, and goes on when it is over. *)
LEMMA WaitingKeeps ==
  ASSUME IInv, FindPolls \/ FindTicks \/ DiscoverReturns \/ FindJoins \/ FindEnds
  PROVE  IInv'
<1> USE DEF process, work, progress
<1>1. pc \in Waiting
  BY DEF Waiting, FindPolls, FindTicks, DiscoverReturns, FindJoins, FindEnds
<1>2. todo # <<>> /\ Head(todo) \notin {"open", "close", "stop"}
  BY <1>1 DEF IInv, Main
<1>3. CASE FindPolls \/ FindTicks
  <2>1. /\ pc' \in {"join", "select", "poll"}
        /\ UNCHANGED <<inv, todo, disc, bar, client, lock, active, row, line, smashed>>
    BY <1>3 DEF FindPolls, FindTicks, discovery, screen
  <2>2. line["main"] = "none"
    BY <1>1 DEF IInv, Main, Waiting
  <2> QED
    BY <1>1, <2>1, <2>2 DEF IInv, Typed, Main, Discovering, Screen, Idle, Waiting
<1>4. CASE DiscoverReturns \/ FindJoins \/ FindEnds
  <2>1. /\ Over /\ UNCHANGED <<inv, disc, bar, client>> /\ UNCHANGED screen
        /\ Done \/ \E kind : Fail(kind)
    BY <1>4 DEF DiscoverReturns, FindJoins, FindEnds, discovery
  <2>2. /\ disc \notin {"send", "check", "read"}
        /\ line["disc"] = "none" /\ line["main"] = "none"
    BY <1>1, <2>1, StandsStill
  <2> QED
    BY <1>2, <2>1, <2>2, DoneRunsOn, FailRunsOn
<1> QED
  BY <1>3, <1>4

(* The command returns, and main says so. *)
LEMMA EndKeeps ==
  ASSUME IInv, RunReturns \/ Exit
  PROVE  IInv'
<1> USE DEF process, work, discovery, progress
<1>1. /\ todo = <<>> /\ line["main"] = "none" /\ pc \in {"run", "returned"}
      /\ pc' \in {"returned", "exit"}
      /\ UNCHANGED <<inv, todo, disc, bar, client>>
  BY DEF IInv, Main, Idle, RunReturns, Exit, Quiet
<1>2. client # "open" /\ ~Live(bar)
  BY <1>1, NothingOpen DEF IInv
<1>3. UNCHANGED <<lock, active, row, line, smashed>>
  BY <1>2, BlankWithoutBar DEF RunReturns, Exit, Writes, IInv, Typed, screen
<1>4. disc \notin {"send", "check", "read"} /\ line["disc"] = "none"
  BY <1>1 DEF IInv, Discovering, Waiting
<1> QED
  BY <1>1, <1>3, <1>4 DEF IInv, Typed, Main, Discovering, Screen, Idle, Waiting

-----------------------------------------------------------------------------
(* Every step. *)

LEMMA StepHolds == IInv /\ [Next]_vars => IInv'
<1> SUFFICES ASSUME IInv, [Next]_vars PROVE IInv'
  OBVIOUS
<1>1. CASE Cobra \/ PreRunFails
  BY <1>1, CobraKeeps
<1>2. CASE Input \/ Sources \/ OpenFails \/ List \/ Enumerate \/ Cancel
  BY <1>2, PlainStepsKeep
<1>3. CASE Open \/ StartBar \/ Close
  BY <1>3, ClientStepsKeep
<1>4. CASE Render
  BY <1>4, RenderKeeps
<1>5. CASE Stop \/ StopReturns
  BY <1>5, StopKeeps
<1>6. CASE CallSends \/ CallSkipped \/ CallSendFails \/ CallChecks \/ CallReadsOn \/ CallAnswered
  BY <1>6, CallsKeep
<1>7. CASE Discover \/ FindStarts
  BY <1>7, DiscoveryStartKeeps
<1>8. CASE FindPolls \/ FindTicks \/ DiscoverReturns \/ FindJoins \/ FindEnds
  BY <1>8, WaitingKeeps
<1>9. CASE RunReturns \/ Exit
  BY <1>9, EndKeeps
<1>10. CASE StdinEnds \/ Deadline \/ Discovers
  BY <1>10, AsideKeeps
<1>11. CASE Bar
  BY <1>11, BarKeeps
<1>12. ASSUME NEW w \in Writers, WriteLocks(w) \/ WriteEnds(w)
       PROVE  IInv'
  BY <1>12, WritersKeep
<1>13. CASE UNCHANGED vars
  BY <1>13 DEF vars, IInv, Typed, Main, Discovering, Screen
<1> QED
  BY <1>1, <1>2, <1>3, <1>4, <1>5, <1>6, <1>7, <1>8, <1>9, <1>10, <1>11, <1>12, <1>13
     DEF Next, Steps, Choices

LEMMA InvHolds == Spec => []IInv
BY InitHolds, StepHolds, PTL DEF Spec

-----------------------------------------------------------------------------
(* No line is ever written over the bar: not a log line, nor the result,    *)
(* nor main's message, for any invocation and schedule (stderr.go:41-70,    *)
(* progress.go:66-92).                                                      *)
THEOREM NothingSmashed == Spec => []NeverSmashed
<1>1. IInv => NeverSmashed
  BY DEF IInv, Screen, NeverSmashed
<1> QED
  BY <1>1, InvHolds, PTL

(* The discovery and an operation never receive at the same time, nor does  *)
(* a discovery from a closed client (find.go:96-121).                       *)
THEOREM ReceivesAlone == Spec => []OneReceiver
<1>1. IInv => OneReceiver
  BY DEF IInv, Discovering, Waiting, OneReceiver
<1> QED
  BY <1>1, InvHolds, PTL

(* However a command ends, when Execute returns the bar and the discovery   *)
(* have ended, the client is closed and the screen is clean.                *)
THEOREM LeavesNothing == Spec => []NothingLeft
<1>1. ASSUME IInv, pc = "returned"
      PROVE  /\ bar \in {"none", "done"} /\ disc \in {"none", "ended", "failed"}
             /\ client # "open" /\ row = "blank" /\ lock = "free"
  <2>1. todo = <<>> /\ line["main"] = "none"
    BY <1>1 DEF IInv, Main, Idle
  <2>2. client # "open" /\ ~Live(bar)
    BY <1>1, <2>1, NothingOpen DEF IInv
  <2>3. row = "blank" /\ lock # "bar"
    BY <1>1, <2>2, BlankWithoutBar
  <2>4. disc \in {"none", "ended", "failed"} /\ line["disc"] = "none"
    BY <1>1 DEF IInv, Typed, Discovering, Waiting
  <2>5. lock = "free"
    BY <1>1, <2>1, <2>3, <2>4 DEF IInv, Typed, Screen, Writers
  <2> QED
    BY <2>2, <2>3, <2>4, <2>5 DEF Live
<1>2. IInv => NothingLeft
  BY <1>1 DEF NothingLeft
<1> QED
  BY <1>2, InvHolds, PTL


-----------------------------------------------------------------------------
(* "not found".  A command opens once, so a discovery that has ended of     *)
(* itself has run out of the command's own time; and nothing is searched,   *)
(* or heard, after the verdict.                                             *)

Has(t, step) == \E i \in 1..Len(t) : t[i] = step
OpensOnce(t) == \A i, j \in 1..Len(t) : t[i] = "open" /\ t[j] = "open" => i = j
Settled(t) == \A i \in 1..Len(t) : t[i] \notin {"find", "discover", "open"}

Searched ==
  /\ disc = "ended" => ctx = "done" \/ stopped
  /\ stopped => known
  /\ client = "none" => disc = "none"
  /\ client # "none" => ~Has(todo, "open")
  /\ OpensOnce(todo)
  /\ pc \in {"parse", "prerun", "groups"} => client = "none" /\ err = "none"

Verdict ==
  err = "not found" =>
    /\ ~known /\ ctx = "done" /\ disc \notin {"send", "check", "read"}
    /\ pc \notin Waiting /\ Settled(todo)

LEMMA PlansOpenOnce ==
  ASSUME NEW cmd \in Commands
  PROVE  OpensOnce(Plan(cmd))
<1> DEFINE At(n) == \A i \in 1..Len(Plan(cmd)) : Plan(cmd)[i] = "open" => i = n
<1>1. cmd = "discover" => At(1)
  BY DEF Plan, DeviceCommands
<1>2. cmd = "discover --info" => At(1)
  <2>1. SUFFICES ASSUME cmd = "discover --info" PROVE At(1)
    OBVIOUS
  <2>2. Plan(cmd) =
          <<"open", "bar", "discover", "stop", "list", "soft", "soft", "render", "stop",
            "cancel", "close">>
    BY <2>1 DEF Plan
  <2>3. QED
    BY <2>2
<1>3. cmd = "info" => At(2)
  BY DEF Plan, DeviceCommands
<1>4. cmd = "reboot" => At(2)
  BY DEF Plan, DeviceCommands
<1>5. cmd = "set" => At(3)
  BY DEF Plan, DeviceCommands
<1>6. cmd = "set --reboot" => At(3)
  <2>1. SUFFICES ASSUME cmd = "set --reboot" PROVE At(3)
    OBVIOUS
  <2>2. Plan(cmd) =
          <<"input", "sources", "open", "bar", "find", "call", "default", "call", "reset",
            "stop", "render", "stop", "cancel", "close">>
    BY <2>1 DEF Plan
  <2>3. QED
    BY <2>2
<1>7. cmd = "interfaces" => At(0)
  BY DEF Plan, DeviceCommands
<1>8. cmd = "--version" => At(0)
  BY DEF Plan, DeviceCommands
<1>9. cmd = "" => At(0)
  <2>1. cmd = "" => Plan(cmd) = <<>>
    BY DEF Plan, DeviceCommands
  <2>2. Len(<<>>) = 0 /\ 1..0 = {}
    OBVIOUS
  <2>3. QED
    BY <2>1, <2>2
<1>10. cmd \in {"getip", "get", "read"} => At(2)
  <2>1. SUFFICES ASSUME cmd \in {"getip", "get", "read"} PROVE At(2)
    OBVIOUS
  <2>2. Plan(cmd) =
          <<"input", "open", "bar", "find", "call", "stop", "render", "stop", "cancel",
            "close">>
    BY <2>1 DEF Plan
  <2>3. QED
    BY <2>2
<1> HIDE DEF At
<1>11. At(0) \/ At(1) \/ At(2) \/ At(3)
  BY <1>1, <1>2, <1>3, <1>4, <1>5, <1>6, <1>7, <1>8, <1>9, <1>10 DEF Commands, DeviceCommands
<1>12. QED
  BY <1>11 DEF OpensOnce, At

LEMMA TailHas ==
  ASSUME NEW t \in Seq(Kinds), t # <<>>
  PROVE  /\ \A step : Has(Tail(t), step) => Has(t, step)
         /\ OpensOnce(t) => OpensOnce(Tail(t))
         /\ OpensOnce(t) /\ Head(t) = "open" => ~Has(Tail(t), "open")
         /\ Settled(t) => Settled(Tail(t))
<1>1. /\ Len(t) \in Nat \ {0} /\ Len(Tail(t)) = Len(t) - 1 /\ Head(t) = t[1]
      /\ \A i \in 1..Len(Tail(t)) : i + 1 \in 1..Len(t) /\ Tail(t)[i] = t[i + 1]
  OBVIOUS
<1>2. \A step : Has(Tail(t), step) => Has(t, step)
  BY <1>1 DEF Has
<1>3. OpensOnce(t) => OpensOnce(Tail(t))
  BY <1>1 DEF OpensOnce
<1>4. OpensOnce(t) /\ Head(t) = "open" => ~Has(Tail(t), "open")
  BY <1>1 DEF OpensOnce, Has
<1>5. Settled(t) => Settled(Tail(t))
  BY <1>1 DEF Settled
<1>6. QED
  BY <1>2, <1>3, <1>4, <1>5

LEMMA DeferredIsSettled ==
  \A t \in {Deferred, <<>>} : ~Has(t, "open") /\ OpensOnce(t) /\ Settled(t)
<1>1. \A i \in 1..Len(Deferred) : Deferred[i] \notin {"find", "discover", "open"}
  BY DEF Deferred
<1>2. QED
  BY <1>1 DEF Has, OpensOnce, Settled

(* The step whose turn it is. *)
LEMMA HeadHas ==
  ASSUME IInv, NEW step, Do(step)
  PROVE  todo \in Seq(Kinds) /\ todo # <<>> /\ Has(todo, step) /\ pc = "run"
<1>1. todo \in Seq(Kinds) /\ todo # <<>> /\ Head(todo) = step /\ pc = "run"
  BY DEF IInv, Covered, Sound, Do
<1>2. 1 \in 1..Len(todo) /\ todo[1] = step
  BY <1>1
<1>3. QED
  BY <1>1, <1>2 DEF Has

(* A step of main that neither opens nor searches. *)
LEMMA OrdinaryKeeps ==
  ASSUME IInv, Searched, Verdict,
         pc \in {"run", "recv", "reading", "stopping", "returned"},
         pc' \in {"run", "recv", "reading", "stopping", "returned", "exit"},
         \/ todo' = todo
         \/ todo # <<>> /\ todo' = Tail(todo)
         \/ todo' \in {Deferred, <<>>},
         err' = err \/ err' # "not found",
         UNCHANGED <<disc, known, stopped>>,
         ctx' = ctx \/ ctx' = "done",
         client' = client \/ (client' = "closed" /\ ~Has(todo', "open"))
  PROVE  Searched' /\ Verdict'
<1>1. todo \in Seq(Kinds)
  BY DEF IInv, Covered, Sound
<1>2. /\ OpensOnce(todo')
      /\ ~Has(todo, "open") => ~Has(todo', "open")
      /\ Settled(todo) => Settled(todo')
  BY <1>1, TailHas, DeferredIsSettled DEF Searched
<1>3. Searched'
  BY <1>2 DEF Searched
<1>4. Verdict'
  BY <1>2 DEF Verdict, Waiting
<1>5. QED
  BY <1>3, <1>4

LEMMA OrdinarySteps ==
  ASSUME IInv, Searched, Verdict,
         \/ Input \/ Sources \/ OpenFails \/ StartBar \/ Stop \/ StopReturns \/ List \/ Enumerate
         \/ Render \/ Cancel \/ Close
         \/ CallSends \/ CallSkipped \/ CallSendFails \/ CallChecks \/ CallReadsOn \/ CallAnswered
         \/ RunReturns \/ Exit
  PROVE  Searched' /\ Verdict'
<1> USE DEF process, work, discovery, progress, flow
<1>1. CASE Close
  <2>1. todo # <<>> /\ Head(todo) = "close" /\ Sound(todo)
    BY <1>1 DEF Close, Do, IInv, Covered
  <2>2. todo' = <<>>
    BY <1>1, <2>1, CloseIsLast DEF Close, Done
  <2>3. ~Has(todo', "open")
    BY <2>2, DeferredIsSettled
  <2>4. QED
    BY <1>1, <2>1, <2>3, OrdinaryKeeps DEF Close, Do, Done
<1>2. CASE Input \/ Sources \/ OpenFails \/ StartBar \/ List \/ Enumerate \/ Render \/ Cancel
  BY <1>2, OrdinaryKeeps
     DEF Input, Sources, OpenFails, StartBar, List, Enumerate, Render, Cancel, Do, Done, Fail
<1>3. CASE Stop \/ StopReturns
  <2>1. pc = "stopping" => todo # <<>>
    BY DEF IInv, Main
  <2>2. QED
    BY <1>3, <2>1, OrdinaryKeeps DEF Stop, StopReturns, Do, Done
<1>4. CASE CallSends \/ CallSkipped \/ CallSendFails \/ CallChecks \/ CallReadsOn \/ CallAnswered
  <2>1. pc \in {"recv", "reading"} => todo # <<>>
    BY DEF IInv, Main
  <2>2. QED
    BY <1>4, <2>1, OrdinaryKeeps
       DEF CallSends, CallSkipped, CallSendFails, CallChecks, CallReadsOn, CallAnswered,
           CallFails, Do, Done, Fail
<1>5. CASE RunReturns \/ Exit
  BY <1>5, OrdinaryKeeps DEF RunReturns, Exit
<1>6. QED
  BY <1>1, <1>2, <1>3, <1>4, <1>5

(* Until RunE starts, nothing has been opened, searched or decided. *)
LEMMA CobraSteps ==
  ASSUME IInv, Searched, Verdict, Cobra \/ PreRunFails
  PROVE  Searched' /\ Verdict'
<1>1. /\ pc \in {"parse", "prerun", "groups"} /\ todo = <<>> /\ client = "none" /\ err = "none"
      /\ err' # "not found" /\ UNCHANGED <<client, disc, known, stopped, ctx, inv>>
      /\ pc' \in {"prerun", "groups", "run", "returned"}
      /\ pc' \in {"prerun", "groups"} => err' = err
      /\ todo' = todo \/ todo' = Plan(inv.cmd)
  BY DEF Cobra, PreRunFails, Parse, PreRun, Groups, Rejected, Searched, IInv, Main, Idle,
         work, discovery
<1>2. inv.cmd \in Commands
  BY DEF IInv, Typed, AllInvocations
<1>3. OpensOnce(todo')
  BY <1>1, <1>2, PlansOpenOnce DEF Searched
<1>4. QED
  BY <1>1, <1>3 DEF Searched, Verdict

(* The client is opened, and a search begun, before there is a verdict. *)
LEMMA OpenStep ==
  ASSUME IInv, Searched, Verdict, Open
  PROVE  Searched' /\ Verdict'
<1>1. /\ todo \in Seq(Kinds) /\ todo # <<>> /\ Has(todo, "open") /\ Head(todo) = "open"
      /\ pc = "run" /\ pc' = "run" /\ todo' = Tail(todo) /\ err' = err
      /\ client' = "open" /\ UNCHANGED <<disc, known, stopped>>
  BY HeadHas DEF Open, Do, Done, discovery
<1>2. disc = "none" /\ ~Settled(todo)
  BY <1>1 DEF Searched, Has, Settled, IInv, Typed
<1>3. OpensOnce(todo') /\ ~Has(todo', "open")
  BY <1>1, TailHas DEF Searched
<1>4. Searched'
  BY <1>1, <1>2, <1>3 DEF Searched
<1>5. Verdict'
  BY <1>1, <1>2 DEF Verdict
<1>6. QED
  BY <1>4, <1>5

LEMMA SearchStarts ==
  ASSUME IInv, Searched, Verdict, Discover \/ FindStarts
  PROVE  Searched' /\ Verdict'
<1>1. /\ pc = "run" /\ pc' \in {"await", "poll"} /\ disc' = "send"
      /\ UNCHANGED <<todo, err, client, ctx, known, stopped>>
      /\ todo # <<>> /\ Head(todo) \in {"discover", "find"}
  BY DEF Discover, FindStarts, Do, work
<1>2. client = "open"
  BY <1>1, Turns DEF IInv, NeedsClient
<1>3. ~Settled(todo)
  BY <1>1, HeadHas DEF Discover, FindStarts, Has, Settled
<1>4. QED
  BY <1>1, <1>2, <1>3 DEF Searched, Verdict

(* Main looks at the map: "not found" is said only here, at the end. *)
LEMMA SearchSteps ==
  ASSUME IInv, Searched, Verdict,
         FindPolls \/ FindTicks \/ DiscoverReturns \/ FindJoins \/ FindEnds
  PROVE  Searched' /\ Verdict'
<1>1. /\ pc \in Waiting /\ err # "not found"
      /\ todo \in Seq(Kinds) /\ todo # <<>>
      /\ UNCHANGED <<disc, known, client, ctx>>
  BY DEF FindPolls, FindTicks, DiscoverReturns, FindJoins, FindEnds, Waiting, Verdict,
         IInv, Covered, Sound, Main, work, discovery
<1>2. CASE FindPolls \/ FindTicks
  <2>1. /\ pc' \in {"join", "select", "poll"} /\ UNCHANGED <<todo, err>>
        /\ (stopped => stopped') /\ (stopped' => stopped \/ known)
    <3>1. CASE FindPolls
      BY <3>1 DEF FindPolls
    <3>2. CASE FindTicks
      BY <3>2 DEF FindTicks, discovery
    <3>3. QED
      BY <1>2, <3>1, <3>2
  <2>2. QED
    BY <1>1, <2>1 DEF Searched, Verdict, Waiting
<1>3. CASE DiscoverReturns \/ FindJoins \/ FindEnds
  <2>1. /\ pc' = "run" /\ UNCHANGED stopped
        /\ todo' \in {Tail(todo), Deferred, <<>>}
        /\ err' = "not found" =>
             /\ ~known /\ Over /\ todo' \in {Deferred, <<>>} /\ (disc # "failed" \/ ctx = "done")
    BY <1>1, <1>3 DEF DiscoverReturns, FindJoins, FindEnds, Done, Fail, discovery
  <2>2. OpensOnce(todo') /\ (~Has(todo, "open") => ~Has(todo', "open"))
    BY <1>1, <2>1, TailHas, DeferredIsSettled DEF Searched
  <2>3. Searched'
    BY <1>1, <2>1, <2>2 DEF Searched
  <2>4. Verdict'
    BY <1>1, <2>1, DeferredIsSettled DEF Verdict, Searched, Over, Waiting
  <2>5. QED
    BY <2>3, <2>4
<1>4. QED
  BY <1>2, <1>3

(* The discovery itself ends when it has been stopped or its time is up. *)
LEMMA DiscoverySteps ==
  ASSUME IInv, Searched, Verdict, Discovers
  PROVE  Searched' /\ Verdict'
<1>1. /\ disc \in {"send", "check", "read"} /\ err # "not found"
      /\ UNCHANGED <<pc, todo, err, client, ctx, stopped>>
      /\ known => known' = TRUE
      /\ disc' = "ended" => ctx = "done" \/ stopped
  BY DEF Discovers, DiscSends, DiscChecks, DiscTimesOut, DiscReads, DiscFails, Verdict,
         flow, work
<1>2. client # "none"
  BY <1>1 DEF Searched
<1>3. QED
  BY <1>1, <1>2 DEF Searched, Verdict

(* The rest touches neither the search nor the verdict. *)
LEMMA OtherSteps ==
  ASSUME IInv, Searched, Verdict,
         \/ StdinEnds \/ Deadline \/ Bar
         \/ \E w \in Writers : WriteLocks(w) \/ WriteEnds(w)
         \/ UNCHANGED vars
  PROVE  Searched' /\ Verdict'
<1>1. /\ UNCHANGED <<pc, todo, err, client, disc, known, stopped>>
      /\ ctx' = ctx \/ ctx' = "done"
  BY DEF StdinEnds, Deadline, Bar, BarCancelled, BarShows, BarDraws, BarDrawn, BarTicks,
         BarStops, BarClears, WriteLocks, WriteEnds, flow, work, discovery, vars
<1>2. QED
  BY <1>1 DEF Searched, Verdict

LEMMA VerdictHolds == Spec => [](Searched /\ Verdict)
<1>1. Init => Searched /\ Verdict
  <2>1. 1..Len(<<>>) = {}
    OBVIOUS
  <2>2. QED
    BY <2>1 DEF Init, Searched, Verdict, Has, OpensOnce
<1>2. ASSUME IInv, Searched, Verdict, [Next]_vars
      PROVE  Searched' /\ Verdict'
  <2>1. CASE UNCHANGED vars
    BY <1>2, <2>1, OtherSteps
  <2>2. CASE Next
    BY <1>2, <2>2, OrdinarySteps, CobraSteps, OpenStep, SearchStarts, SearchSteps,
       DiscoverySteps, OtherSteps
       DEF Next, Steps, Choices
  <2>3. QED
    BY <1>2, <2>1, <2>2
<1>3. QED
  BY <1>1, <1>2, InvHolds, PTL DEF Spec

(* "not found" is only ever said of a device that is not in the map, and    *)
(* when the command's time has run out: never because the discovery stopped *)
(* early, nor of a device heard between the last look and the verdict       *)
(* (find.go:96-121).                                                        *)
THEOREM NotFoundTrue == Spec => []NotFoundIsTrue
<1>1. Verdict => NotFoundIsTrue
  BY DEF Verdict, NotFoundIsTrue
<1>2. QED
  BY <1>1, VerdictHolds, PTL

-----------------------------------------------------------------------------
(* Exit codes.  What is wrong with an invocation is found before anything   *)
(* is opened, and what fails once nothing is wrong any more is a failure.   *)

Checks == {"input", "sources"}
ChecksFirst(t) == \A i \in 1..Len(t) : t[i] \in Checks => \A j \in 1..i : t[j] \in Checks
Unchecked(t) == \A i \in 1..Len(t) : t[i] \notin Checks

(* How far cobra has come. *)
Begun ==
  /\ inv \in Invocations /\ reached \in BOOLEAN
  /\ reached => WellFormed /\ pc \notin {"parse", "prerun", "groups"}
  /\ ~reached => client = "none" /\ pc \in Idle
  /\ ~reached /\ pc \in {"returned", "exit"} => err # "none"
  /\ pc \in {"prerun", "groups"} => inv.parses
  /\ pc = "groups" =>
       /\ WritesResult(inv.cmd) \/ inv.format = "default"
       /\ inv.iface # "both" /\ (inv.iface = "named" => inv.usable)

(* Nothing is opened or sent before all the checks have passed. *)
ChecksCome ==
  /\ ChecksFirst(todo)
  /\ client # "none" => Unchecked(todo)
  /\ sent => client # "none"
  /\ reached /\ err = "none" =>
       /\ inv.wrong = "argument" => Has(todo, "input")
       /\ inv.wrong = "source" => Has(todo, "sources")

(* The result is printed by the command that has one. *)
ResultComes ==
  /\ printed \in BOOLEAN
  /\ printed \/ Has(todo, "render") => WritesResult(inv.cmd)
  /\ reached /\ err = "none" /\ WritesResult(inv.cmd) => printed \/ Has(todo, "render")

Blamed ==
  /\ err \in {"none", "untyped", "usage", "failure", "not found"}
  /\ err = "untyped" => ~reached /\ ~WellFormed
  /\ err = "usage" =>
       client = "none" /\ todo = <<>> /\ ~(WellFormed /\ inv.wrong = "nothing")
  /\ err \in {"failure", "not found"} =>
       inv.iface = "named" \/ (WellFormed /\ inv.wrong = "nothing")
  /\ pc = "exit" => code = ExitCode(err)

Told == Begun /\ ChecksCome /\ ResultComes /\ Blamed

(* Every plan checks first, and renders what the command has to say. *)
LEMMA PlansCheckFirst ==
  ASSUME NEW cmd \in Commands
  PROVE  ChecksFirst(Plan(cmd)) /\ (Has(Plan(cmd), "render") <=> WritesResult(cmd))
<1> DEFINE p == Plan(cmd)
<1>1. CASE cmd = "discover"
  <2>1. p = <<"open", "bar", "discover", "stop", "list", "render", "stop", "cancel", "close">>
    BY <1>1 DEF Plan, DeviceCommands
  <2>2. \A i \in 1..Len(p) : p[i] \in Checks => \A j \in 1..i : p[j] \in Checks
    BY <2>1 DEF Checks
  <2>3. (\E i \in 1..Len(p) : p[i] = "render") <=> WritesResult(cmd)
    BY <1>1, <2>1 DEF WritesResult
  <2> QED
    BY <2>2, <2>3 DEF ChecksFirst, Has
<1>2. CASE cmd = "discover --info"
  <2>1. p = <<"open", "bar", "discover", "stop", "list", "soft", "soft", "render",
             "stop", "cancel", "close">>
    BY <1>2 DEF Plan, DeviceCommands
  <2>2. \A i \in 1..Len(p) : p[i] \in Checks => \A j \in 1..i : p[j] \in Checks
    BY <2>1 DEF Checks
  <2>3. (\E i \in 1..Len(p) : p[i] = "render") <=> WritesResult(cmd)
    <3>1. 8 \in 1..Len(p) /\ p[8] = "render"
      BY <2>1
    <3> QED
      BY <1>2, <3>1 DEF WritesResult
  <2> QED
    BY <2>2, <2>3 DEF ChecksFirst, Has
<1>3. CASE cmd = "info"
  <2>1. p = <<"input", "open", "bar", "find", "stop", "soft", "render", "stop", "cancel", "close">>
    BY <1>3 DEF Plan, DeviceCommands
  <2>2. \A i \in 1..Len(p) : p[i] \in Checks => \A j \in 1..i : p[j] \in Checks
    BY <2>1 DEF Checks
  <2>3. (\E i \in 1..Len(p) : p[i] = "render") <=> WritesResult(cmd)
    BY <1>3, <2>1 DEF WritesResult
  <2> QED
    BY <2>2, <2>3 DEF ChecksFirst, Has
<1>4. CASE cmd \in {"getip", "get", "read"}
  <2>1. p = <<"input", "open", "bar", "find", "call", "stop", "render", "stop", "cancel", "close">>
    BY <1>4 DEF Plan, DeviceCommands
  <2>2. \A i \in 1..Len(p) : p[i] \in Checks => \A j \in 1..i : p[j] \in Checks
    BY <2>1 DEF Checks
  <2>3. (\E i \in 1..Len(p) : p[i] = "render") <=> WritesResult(cmd)
    <3>1. 7 \in 1..Len(p) /\ p[7] = "render"
      BY <2>1
    <3> QED
      BY <1>4, <3>1 DEF WritesResult
  <2> QED
    BY <2>2, <2>3 DEF ChecksFirst, Has
<1>5. CASE cmd = "set"
  <2>1. p = <<"input", "sources", "open", "bar", "find", "call", "default", "call", "stop",
             "render", "stop", "cancel", "close">>
    BY <1>5 DEF Plan, DeviceCommands
  <2>2. \A i \in 1..Len(p) : p[i] \in Checks => \A j \in 1..i : p[j] \in Checks
    BY <2>1 DEF Checks
  <2>3. (\E i \in 1..Len(p) : p[i] = "render") <=> WritesResult(cmd)
    BY <1>5, <2>1 DEF WritesResult
  <2> QED
    BY <2>2, <2>3 DEF ChecksFirst, Has
<1>6. CASE cmd = "set --reboot"
  <2>1. p = <<"input", "sources", "open", "bar", "find", "call", "default", "call", "reset",
             "stop", "render", "stop", "cancel", "close">>
    BY <1>6 DEF Plan, DeviceCommands
  <2>2. \A i \in 1..Len(p) : p[i] \in Checks => \A j \in 1..i : p[j] \in Checks
    BY <2>1 DEF Checks
  <2>3. (\E i \in 1..Len(p) : p[i] = "render") <=> WritesResult(cmd)
    <3>1. 11 \in 1..Len(p) /\ p[11] = "render"
      BY <2>1
    <3> QED
      BY <1>6, <3>1 DEF WritesResult
  <2> QED
    BY <2>2, <2>3 DEF ChecksFirst, Has
<1>7. CASE cmd = "reboot"
  <2>1. p = <<"input", "open", "bar", "find", "reset", "stop", "cancel", "close">>
    BY <1>7 DEF Plan, DeviceCommands
  <2>2. \A i \in 1..Len(p) : p[i] \in Checks => \A j \in 1..i : p[j] \in Checks
    BY <2>1 DEF Checks
  <2>3. (\E i \in 1..Len(p) : p[i] = "render") <=> WritesResult(cmd)
    BY <1>7, <2>1 DEF WritesResult
  <2> QED
    BY <2>2, <2>3 DEF ChecksFirst, Has
<1>8. CASE cmd = "interfaces"
  <2>1. p = <<"enumerate", "render">>
    BY <1>8 DEF Plan, DeviceCommands
  <2>2. \A i \in 1..Len(p) : p[i] \in Checks => \A j \in 1..i : p[j] \in Checks
    BY <2>1 DEF Checks
  <2>3. (\E i \in 1..Len(p) : p[i] = "render") <=> WritesResult(cmd)
    BY <1>8, <2>1 DEF WritesResult
  <2> QED
    BY <2>2, <2>3 DEF ChecksFirst, Has
<1>9. CASE cmd = "--version"
  <2>1. p = <<"input", "render">>
    BY <1>9 DEF Plan, DeviceCommands
  <2>2. \A i \in 1..Len(p) : p[i] \in Checks => \A j \in 1..i : p[j] \in Checks
    BY <2>1 DEF Checks
  <2>3. (\E i \in 1..Len(p) : p[i] = "render") <=> WritesResult(cmd)
    BY <1>9, <2>1 DEF WritesResult
  <2> QED
    BY <2>2, <2>3 DEF ChecksFirst, Has
<1>10. CASE cmd = ""
  <2>1. p = <<>>
    BY <1>10 DEF Plan, DeviceCommands
  <2>2. 1..Len(<<>>) = {}
    OBVIOUS
  <2> QED
    BY <1>10, <2>1, <2>2 DEF ChecksFirst, Has, WritesResult
<1> QED
  BY <1>1, <1>2, <1>3, <1>4, <1>5, <1>6, <1>7, <1>8, <1>9, <1>10 DEF Commands, DeviceCommands

LEMMA FirstIsHead ==
  ASSUME NEW t \in Seq(Kinds), t # <<>>
  PROVE  1 \in 1..Len(t) /\ t[1] = Head(t)
OBVIOUS

LEMMA TailChecks ==
  ASSUME NEW t \in Seq(Kinds), t # <<>>, ChecksFirst(t)
  PROVE  /\ ChecksFirst(Tail(t))
         /\ Head(t) \notin Checks => Unchecked(t)
         /\ Unchecked(t) => Unchecked(Tail(t))
         /\ \A step : Has(t, step) /\ Head(t) # step => Has(Tail(t), step)
<1>1. /\ Len(t) \in Nat \ {0} /\ Len(Tail(t)) = Len(t) - 1 /\ Head(t) = t[1]
      /\ \A i \in 1..Len(Tail(t)) : i + 1 \in 1..Len(t) /\ Tail(t)[i] = t[i + 1]
  OBVIOUS
<1>2. ChecksFirst(Tail(t))
  <2>1. ASSUME NEW i \in 1..Len(Tail(t)), Tail(t)[i] \in Checks, NEW j \in 1..i
        PROVE  Tail(t)[j] \in Checks
    <3>1. /\ i + 1 \in 1..Len(t) /\ t[i + 1] \in Checks
          /\ j \in 1..Len(Tail(t)) /\ j + 1 \in 1..(i + 1)
      BY <1>1, <2>1
    <3> QED
      BY <1>1, <3>1 DEF ChecksFirst
  <2> QED
    BY <2>1 DEF ChecksFirst
<1>3. Head(t) \notin Checks => Unchecked(t)
  BY <1>1 DEF ChecksFirst, Unchecked
<1>4. Unchecked(t) => Unchecked(Tail(t))
  BY <1>1 DEF Unchecked
<1>5. ASSUME NEW step, Has(t, step), Head(t) # step
      PROVE  Has(Tail(t), step)
  <2>1. PICK i \in 1..Len(t) : t[i] = step
    BY <1>5 DEF Has
  <2>2. i - 1 \in 1..Len(Tail(t)) /\ Tail(t)[i - 1] = step
    BY <1>1, <1>5, <2>1
  <2> QED
    BY <2>2 DEF Has
<1> QED
  BY <1>2, <1>3, <1>4, <1>5

LEMMA DeferredChecksNothing ==
  /\ Deferred \in Seq(Kinds) /\ <<>> \in Seq(Kinds) /\ Len(<<>>) = 0
  /\ \A t \in {Deferred, <<>>} : ChecksFirst(t) /\ Unchecked(t) /\ ~Has(t, "render")
<1>1. Deferred = <<"stop", "cancel", "close">>
  BY DEF Deferred
<1>2. \A i \in 1..Len(Deferred) : Deferred[i] \notin Checks \cup {"render"}
  BY <1>1 DEF Checks
<1>3. Deferred \in Seq(Kinds)
  BY <1>1 DEF Kinds
<1> QED
  BY <1>2, <1>3 DEF ChecksFirst, Unchecked, Has

(* Main stays where it is, *)
LEMMA StayTells ==
  ASSUME IInv, Told, UNCHANGED <<inv, reached, code, todo, err, client, printed>>,
         reached, pc \notin {"returned", "exit"}, pc' \notin {"parse", "prerun", "groups", "exit"},
         sent' => sent \/ client # "none"
  PROVE  Told'
<1> USE DEF Told
<1>1. Begun'
  BY DEF Begun, WellFormed
<1>2. ChecksCome'
  BY DEF ChecksCome
<1>3. ResultComes' /\ Blamed'
  BY DEF ResultComes, Blamed, WellFormed
<1> QED
  BY <1>1, <1>2, <1>3

(* does a step, *)
LEMMA DoneTells ==
  ASSUME IInv, Told, UNCHANGED <<inv, reached, code>>, Done, todo # <<>>, reached,
         pc \notin {"returned", "exit"},
         sent' => sent,
         printed' \in BOOLEAN, printed => printed',
         printed' => printed \/ Head(todo) = "render",
         Head(todo) = "render" => printed',
         client' = client \/ (client' \in {"open", "closed"} /\ Head(todo) \notin Checks),
         client' = "none" => client = "none",
         Head(todo) = "input" => inv.wrong # "argument",
         Head(todo) = "sources" => inv.wrong # "source"
  PROVE  Told'
<1> USE DEF Told
<1>1. /\ todo \in Seq(Kinds) /\ todo' = Tail(todo) /\ pc' = "run" /\ err' = err
      /\ Has(todo, Head(todo))
  <2>1. todo \in Seq(Kinds) /\ todo' = Tail(todo) /\ pc' = "run" /\ err' = err
    BY DEF Done, IInv, Covered, Sound
  <2>2. 1 \in 1..Len(todo) /\ todo[1] = Head(todo)
    BY <2>1, FirstIsHead
  <2> QED
    BY <2>1, <2>2 DEF Has
<1>2. err # "usage"
  BY DEF Blamed
<1>3. Begun'
  BY <1>1 DEF Begun, WellFormed
<1>4. ChecksCome'
  <2>1. /\ ChecksFirst(todo') /\ (Head(todo) \notin Checks => Unchecked(todo'))
        /\ (Unchecked(todo) => Unchecked(todo'))
        /\ \A step : Has(todo, step) /\ Head(todo) # step => Has(todo', step)
    BY <1>1, TailChecks DEF ChecksCome
  <2>2. client' # "none" => Unchecked(todo')
    BY <2>1 DEF ChecksCome
  <2>3. sent' => client' # "none"
    BY DEF ChecksCome
  <2>4. reached' /\ err' = "none" =>
          /\ inv'.wrong = "argument" => Has(todo', "input")
          /\ inv'.wrong = "source" => Has(todo', "sources")
    BY <1>1, <2>1 DEF ChecksCome
  <2> QED
    BY <2>1, <2>2, <2>3, <2>4 DEF ChecksCome
<1>5. ResultComes'
  <2>1. /\ Has(todo', "render") => Has(todo, "render")
        /\ Has(todo, "render") /\ Head(todo) # "render" => Has(todo', "render")
    BY <1>1, TailHas, TailChecks DEF ChecksCome
  <2> QED
    BY <1>1, <2>1 DEF ResultComes
<1>6. Blamed'
  BY <1>1, <1>2 DEF Blamed, WellFormed
<1> QED
  BY <1>3, <1>4, <1>5, <1>6

(* or fails. *)
LEMMA FailTells ==
  ASSUME IInv, Told, NEW kind, Fail(kind), todo # <<>>, reached, pc \notin {"returned", "exit"},
         UNCHANGED <<inv, reached, code, client, sent, printed>>,
         \/ kind \in {"failure", "not found"} /\ Head(todo) \notin Checks
         \/ kind = "usage" /\ Head(todo) \in Checks /\ inv.wrong # "nothing"
  PROVE  Told'
<1> USE DEF Told
<1>1. /\ todo \in Seq(Kinds) /\ pc' = "run" /\ err' = kind
      /\ todo' = IF client = "open" THEN Deferred ELSE <<>>
  BY DEF Fail, IInv, Covered, Sound
<1>2. todo' \in {Deferred, <<>>}
  BY <1>1
<1>3. Begun'
  BY <1>1 DEF Begun, WellFormed
<1>4. ChecksCome' /\ ResultComes'
  BY <1>1, <1>2, DeferredChecksNothing DEF ChecksCome, ResultComes
<1>5. CASE kind \in {"failure", "not found"} /\ Head(todo) \notin Checks
  <2>1. Unchecked(todo)
    BY <1>1, <1>5, TailChecks DEF ChecksCome
  <2>2. ~Has(todo, "input") /\ ~Has(todo, "sources")
    BY <2>1 DEF Unchecked, Has, Checks
  <2>3. err = "none" => WellFormed /\ inv.wrong = "nothing"
    BY <2>2 DEF ChecksCome, Begun, IInv, Typed, AllInvocations
  <2>4. err \in {"none", "failure", "not found"}
    BY DEF Blamed
  <2> QED
    BY <1>1, <1>3, <1>4, <1>5, <2>3, <2>4 DEF Blamed, WellFormed
<1>6. CASE kind = "usage" /\ Head(todo) \in Checks /\ inv.wrong # "nothing"
  <2>1. 1 \in 1..Len(todo) /\ todo[1] = Head(todo)
    BY <1>1, FirstIsHead
  <2>2. client = "none" /\ todo' = <<>>
    BY <1>1, <1>6, <2>1 DEF ChecksCome, Unchecked
  <2> QED
    BY <1>1, <1>3, <1>4, <1>6, <2>2 DEF Blamed, WellFormed
<1> QED
  BY <1>5, <1>6

(* Until RunE starts only the invocation is judged. *)
LEMMA CobraTells ==
  ASSUME IInv, Searched, Told, Cobra \/ PreRunFails
  PROVE  Told'
<1> USE DEF Told
<1>1. /\ pc \in {"parse", "prerun", "groups"} /\ todo = <<>> /\ client = "none" /\ err = "none"
      /\ ~reached /\ inv \in Invocations /\ inv \in AllInvocations
      /\ UNCHANGED <<inv, code, client, sent, printed>>
  BY DEF Cobra, PreRunFails, Parse, PreRun, Groups, Searched, IInv, Typed, Main, Idle, Begun, work
<1>2. CASE /\ pc' = "returned" /\ UNCHANGED <<todo, reached>>
           /\ \/ err' \in {"untyped", "usage"} /\ ~WellFormed
              \/ err' = "failure" /\ inv.iface = "named"
  <2>1. Begun' /\ ChecksCome' /\ ResultComes'
    BY <1>1, <1>2 DEF Begun, ChecksCome, ResultComes, Idle
  <2>2. Blamed'
    BY <1>1, <1>2 DEF Blamed, WellFormed
  <2> QED
    BY <2>1, <2>2
<1>3. CASE Parse
  <2>1. CASE inv.parses
    BY <1>1, <1>3, <2>1
       DEF Parse, Begun, ChecksCome, ResultComes, Blamed, WellFormed, Idle
  <2>2. CASE ~inv.parses
    <3>1. ~WellFormed
      BY <2>2 DEF WellFormed
    <3> QED
      BY <1>2, <1>3, <2>2, <3>1 DEF Parse, Rejected
  <2> QED
    BY <2>1, <2>2
<1>4. CASE PreRun
  <2>1. CASE \/ inv.format # "default" /\ ~WritesResult(inv.cmd)
             \/ inv.iface = "both"
             \/ inv.iface = "named" /\ ~inv.usable
    <3>1. ~WellFormed
      BY <2>1 DEF WellFormed
    <3>2. Rejected("usage")
      BY <1>4, <2>1 DEF PreRun
    <3> QED
      BY <1>2, <3>1, <3>2 DEF Rejected
  <2>2. CASE ~(\/ inv.format # "default" /\ ~WritesResult(inv.cmd)
               \/ inv.iface = "both"
               \/ inv.iface = "named" /\ ~inv.usable)
    <3>1. pc = "prerun" /\ pc' = "groups" /\ UNCHANGED <<todo, reached, err>>
      BY <1>4, <2>2 DEF PreRun
    <3>2. Begun'
      BY <1>1, <2>2, <3>1 DEF Begun, WellFormed, Idle
    <3> QED
      BY <1>1, <3>1, <3>2 DEF ChecksCome, ResultComes, Blamed, WellFormed
  <2> QED
    BY <2>1, <2>2
<1>5. CASE PreRunFails
  BY <1>2, <1>5 DEF PreRunFails, Rejected
<1>6. CASE Groups
  <2>1. CASE inv.format = "both" \/ inv.iface = "unnamed"
    <3>1. ~WellFormed
      BY <2>1 DEF WellFormed
    <3> QED
      BY <1>2, <1>6, <2>1, <3>1 DEF Groups, Rejected
  <2>2. CASE ~(inv.format = "both" \/ inv.iface = "unnamed")
    <3>1. /\ pc = "groups" /\ pc' = "run" /\ todo' = Plan(inv.cmd) /\ reached' = TRUE
          /\ err' = err
      BY <1>6, <2>2 DEF Groups
    <3>2. WellFormed
      BY <2>2, <3>1 DEF Begun, WellFormed
    <3>3. Begun' /\ Blamed'
      BY <1>1, <3>1, <3>2 DEF Begun, Blamed, WellFormed
    <3>4. /\ ChecksFirst(Plan(inv.cmd))
          /\ Has(Plan(inv.cmd), "render") <=> WritesResult(inv.cmd)
      BY <1>1, PlansCheckFirst DEF AllInvocations
    <3>5. /\ inv.wrong = "argument" => Has(Plan(inv.cmd), "input")
          /\ inv.wrong = "source" => Has(Plan(inv.cmd), "sources")
      BY <1>1, WrongAssumption DEF Has
    <3>6. ChecksCome' /\ ResultComes'
      BY <1>1, <3>1, <3>4, <3>5 DEF ChecksCome, ResultComes
    <3> QED
      BY <3>3, <3>6
  <2> QED
    BY <2>1, <2>2
<1> QED
  BY <1>3, <1>4, <1>5, <1>6 DEF Cobra

(* Where main is once RunE has started. *)
LEMMA UnderWay ==
  ASSUME IInv, Told, pc \notin Idle
  PROVE  /\ reached /\ pc \notin {"parse", "prerun", "groups", "returned", "exit"}
         /\ pc # "run" => todo # <<>> /\ Head(todo) \notin Checks \cup {"open", "render", "close"}
BY DEF IInv, Typed, Main, Told, Begun, Idle, Waiting, Checks, Calls

(* The checks themselves, and the steps that neither open nor call. *)
LEMMA PlainStepsTell ==
  ASSUME IInv, Told,
         \/ Input \/ Sources \/ OpenFails \/ StartBar \/ List \/ Enumerate \/ Cancel \/ Open
         \/ Close \/ Render
  PROVE  Told'
<1> USE DEF process, work, discovery, progress
<1>1. /\ pc = "run" /\ todo # <<>> /\ reached /\ pc \notin {"returned", "exit"}
      /\ UNCHANGED <<inv, reached, code, sent>>
  BY UnderWay
     DEF Input, Sources, OpenFails, StartBar, List, Enumerate, Cancel, Open, Close, Render, Do, Idle
<1>2. printed \in BOOLEAN /\ inv.wrong \in {"nothing", "argument", "source"}
  BY DEF Told, ResultComes, IInv, Typed, AllInvocations
<1>3. CASE Input
  <2>1. Head(todo) = "input" /\ UNCHANGED <<client, printed>>
    BY <1>3 DEF Input, Do
  <2>2. CASE inv.wrong = "argument"
    BY <1>1, <1>3, <2>1, <2>2, FailTells DEF Input, Checks
  <2>3. CASE inv.wrong # "argument"
    BY <1>1, <1>2, <1>3, <2>1, <2>3, DoneTells DEF Input
  <2> QED
    BY <2>2, <2>3
<1>4. CASE Sources
  <2>1. Head(todo) = "sources" /\ UNCHANGED <<client, printed>>
    BY <1>4 DEF Sources, Do
  <2>2. CASE inv.wrong = "source"
    BY <1>1, <1>4, <2>1, <2>2, FailTells DEF Sources, Checks
  <2>3. CASE inv.wrong # "source"
    BY <1>1, <1>2, <1>4, <2>1, <2>3, DoneTells DEF Sources
  <2> QED
    BY <2>2, <2>3
<1>5. CASE OpenFails \/ Enumerate
  <2>1. Head(todo) \in {"open", "enumerate"} /\ UNCHANGED <<client, printed>>
    BY <1>5 DEF OpenFails, Enumerate, Do
  <2>2. Done \/ Fail("failure")
    BY <1>5 DEF OpenFails, Enumerate
  <2> QED
    BY <1>1, <1>2, <2>1, <2>2, DoneTells, FailTells DEF Checks
<1>6. CASE StartBar \/ List \/ Cancel
  <2>1. Head(todo) \in {"bar", "list", "default", "cancel"} /\ UNCHANGED <<client, printed>> /\ Done
    BY <1>6 DEF StartBar, List, Cancel, Do
  <2> QED
    BY <1>1, <1>2, <2>1, DoneTells
<1>7. CASE Open \/ Close
  <2>1. /\ Head(todo) \in {"open", "close"} /\ UNCHANGED printed /\ Done
        /\ client' \in {"open", "closed"}
    BY <1>7 DEF Open, Close, Do
  <2> QED
    BY <1>1, <1>2, <2>1, DoneTells DEF Checks
<1>8. CASE Render
  <2>1. Head(todo) = "render" /\ UNCHANGED client
    BY <1>8 DEF Render, Do
  <2>2. \/ Done /\ printed' = TRUE
        \/ Fail("failure") /\ UNCHANGED printed
    BY <1>8 DEF Render
  <2> QED
    BY <1>1, <1>2, <2>1, <2>2, DoneTells, FailTells DEF Checks
<1> QED
  BY <1>3, <1>4, <1>5, <1>6, <1>7, <1>8

LEMMA StopTells ==
  ASSUME IInv, Told, Stop \/ StopReturns
  PROVE  Told'
<1> USE DEF process, work, discovery, progress
<1>1. /\ pc \notin Idle /\ UNCHANGED <<inv, reached, code, client, sent, printed>>
      /\ pc' \in {"run", "stopping"} /\ todo # <<>> /\ Head(todo) = "stop"
  BY DEF IInv, Main, Idle, Stop, StopReturns, Do, Done
<1>2. reached /\ pc \notin {"returned", "exit"} /\ printed \in BOOLEAN
  BY <1>1, UnderWay DEF Told, ResultComes
<1>3. CASE Stop
  BY <1>1, <1>2, <1>3, StayTells DEF Stop
<1>4. CASE StopReturns
  BY <1>1, <1>2, <1>4, DoneTells DEF StopReturns
<1> QED
  BY <1>3, <1>4

(* An operation sends only what an open client can. *)
LEMMA CallsTell ==
  ASSUME IInv, Told,
         CallSends \/ CallSkipped \/ CallSendFails \/ CallChecks \/ CallReadsOn \/ CallAnswered
  PROVE  Told'
<1> USE DEF process, work, discovery, progress
<1>1. /\ pc \notin Idle /\ todo # <<>> /\ Head(todo) \in Calls
      /\ UNCHANGED <<inv, reached, code, client, printed>>
  BY DEF IInv, Main, Idle, Calls, Do,
         CallSends, CallSkipped, CallSendFails, CallChecks, CallReadsOn, CallAnswered
<1>2. reached /\ pc \notin {"returned", "exit"} /\ printed \in BOOLEAN
  BY <1>1, UnderWay DEF Told, ResultComes
<1>3. client = "open"
  BY <1>1, Turns DEF IInv, NeedsClient
<1>4. \/ UNCHANGED <<todo, err>> /\ pc' \in {"recv", "reading"}
      \/ Done /\ UNCHANGED sent
      \/ Fail("failure") /\ UNCHANGED sent
  BY DEF CallSends, CallSkipped, CallSendFails, CallChecks, CallReadsOn, CallAnswered, CallFails
<1>5. CASE UNCHANGED <<todo, err>> /\ pc' \in {"recv", "reading"}
  BY <1>1, <1>2, <1>3, <1>5, StayTells
<1>6. CASE Done /\ UNCHANGED sent
  BY <1>1, <1>2, <1>6, DoneTells DEF Calls
<1>7. CASE Fail("failure") /\ UNCHANGED sent
  BY <1>1, <1>2, <1>7, FailTells DEF Calls, Checks
<1> QED
  BY <1>4, <1>5, <1>6, <1>7

LEMMA SearchTells ==
  ASSUME IInv, Told,
         \/ Discover \/ FindStarts
         \/ FindPolls \/ FindTicks \/ DiscoverReturns \/ FindJoins \/ FindEnds
  PROVE  Told'
<1> USE DEF process, work, discovery, progress
<1>1. /\ pc \notin Idle /\ todo # <<>> /\ Head(todo) \in {"discover", "find"}
      /\ UNCHANGED <<inv, reached, code, client, sent, printed>>
  BY DEF IInv, Main, Idle, Waiting, Do, Discover, FindStarts,
         FindPolls, FindTicks, DiscoverReturns, FindJoins, FindEnds
<1>2. reached /\ pc \notin {"returned", "exit"} /\ printed \in BOOLEAN
  BY <1>1, UnderWay DEF Told, ResultComes
<1>3. \/ UNCHANGED <<todo, err>> /\ pc' \in Waiting
      \/ Done \/ Fail("failure") \/ Fail("not found")
  BY DEF Waiting, Discover, FindStarts, FindPolls, FindTicks, DiscoverReturns, FindJoins, FindEnds
<1>4. CASE UNCHANGED <<todo, err>> /\ pc' \in Waiting
  BY <1>1, <1>2, <1>4, StayTells DEF Waiting
<1>5. CASE Done
  BY <1>1, <1>2, <1>5, DoneTells
<1>6. CASE Fail("failure") \/ Fail("not found")
  BY <1>1, <1>2, <1>6, FailTells DEF Checks
<1> QED
  BY <1>3, <1>4, <1>5, <1>6

LEMMA EndTells ==
  ASSUME IInv, Told, RunReturns \/ Exit
  PROVE  Told'
<1> USE DEF process, work, discovery, progress
<1>1. /\ UNCHANGED <<inv, reached, todo, err, client, sent, printed>>
      /\ \/ pc = "run" /\ pc' = "returned"
         \/ pc = "returned" /\ pc' = "exit" /\ code' = ExitCode(err)
  BY DEF RunReturns, Exit
<1>2. Begun'
  BY <1>1 DEF Told, Begun, WellFormed, Idle
<1>3. ChecksCome' /\ ResultComes'
  BY <1>1 DEF Told, ChecksCome, ResultComes
<1>4. Blamed'
  BY <1>1 DEF Told, Blamed, WellFormed, ExitCode
<1> QED
  BY <1>2, <1>3, <1>4 DEF Told

(* The discovery sends only while the client is open. *)
LEMMA OthersTell ==
  ASSUME IInv, Told,
         \/ StdinEnds \/ Deadline \/ Bar \/ Discovers
         \/ \E w \in Writers : WriteLocks(w) \/ WriteEnds(w)
         \/ UNCHANGED vars
  PROVE  Told'
<1>1. /\ UNCHANGED <<inv, reached, code, pc, todo, err, client, printed>>
      /\ sent' => sent \/ client # "none"
  <2>1. CASE Discovers
    <3>1. disc \in {"send", "check", "read"}
      BY <2>1 DEF Discovers, DiscSends, DiscChecks, DiscTimesOut, DiscReads, DiscFails
    <3>2. client = "open"
      BY <3>1 DEF IInv, Discovering
    <3> QED
      BY <2>1, <3>2
         DEF Discovers, DiscSends, DiscChecks, DiscTimesOut, DiscReads, DiscFails,
             process, flow, work
  <2>2. CASE ~Discovers
    BY <2>2
       DEF StdinEnds, Deadline, Bar, BarCancelled, BarShows, BarDraws, BarDrawn, BarTicks,
           BarStops, BarClears, WriteLocks, WriteEnds, process, flow, work, vars
  <2> QED
    BY <2>1, <2>2
<1>2. Begun'
  BY <1>1 DEF Told, Begun, WellFormed
<1>3. ChecksCome' /\ ResultComes'
  BY <1>1 DEF Told, ChecksCome, ResultComes
<1>4. Blamed'
  BY <1>1 DEF Told, Blamed, WellFormed, ExitCode
<1> QED
  BY <1>2, <1>3, <1>4 DEF Told

LEMMA ToldHolds == Spec => []Told
<1>1. Init => Told
  <2> SUFFICES ASSUME Init PROVE Told
    OBVIOUS
  <2>1. 1..Len(<<>>) = {}
    OBVIOUS
  <2>2. ~Has(<<>>, "render") /\ ChecksFirst(<<>>)
    BY <2>1 DEF Has, ChecksFirst
  <2> QED
    BY <2>2 DEF Init, Told, Begun, ChecksCome, ResultComes, Blamed, Idle
<1>2. ASSUME IInv, Searched, Told, [Next]_vars
      PROVE  Told'
  <2>1. CASE UNCHANGED vars
    BY <1>2, <2>1, OthersTell
  <2>2. CASE Next
    BY <1>2, <2>2, CobraTells, PlainStepsTell, StopTells, CallsTell, SearchTells, EndTells,
       OthersTell
       DEF Next, Steps, Choices
  <2> QED
    BY <1>2, <2>1, <2>2
<1> QED
  BY <1>1, <1>2, InvHolds, VerdictHolds, PTL DEF Spec

(* The exit code tells a script the truth, for every invocation: 2 only for *)
(* an invocation that is wrong and of which nothing was attempted, 1 only   *)
(* for one that was right, or whose interface could not be looked up, and 0 *)
(* only when every step is done and the result printed (cli.go:30-65,       *)
(* 178-224).                                                                *)
THEOREM ExitTells == Spec => []ExitCodeTells
<1>1. ASSUME IInv, Told, pc = "exit"
      PROVE  /\ code = 2 => client = "none" /\ ~sent /\ ~(WellFormed /\ inv.wrong = "nothing")
             /\ code = 1 => inv.iface = "named" \/ (WellFormed /\ inv.wrong = "nothing")
             /\ code = 0 => WellFormed /\ printed = WritesResult(inv.cmd)
  <2>1. todo = <<>> /\ ~Has(todo, "render")
    <3>1. 1..Len(<<>>) = {}
      OBVIOUS
    <3> QED
      BY <1>1, <3>1 DEF IInv, Main, Idle, Has
  <2>2. code = ExitCode(err)
    BY <1>1 DEF Told, Blamed
  <2>3. CASE err = "none"
    <3>1. code = 0 /\ reached
      BY <1>1, <2>2, <2>3 DEF ExitCode, Told, Begun
    <3>2. WellFormed /\ printed = WritesResult(inv.cmd)
      BY <1>1, <2>1, <2>3, <3>1 DEF Told, Begun, ResultComes, WritesResult
    <3> QED
      BY <3>1, <3>2
  <2>4. CASE err \in {"untyped", "usage"}
    <3>1. code = 2
      BY <1>1, <2>2, <2>4 DEF ExitCode, Told, Blamed
    <3>2. client = "none" /\ ~sent /\ ~(WellFormed /\ inv.wrong = "nothing")
      BY <1>1, <2>4 DEF Told, Begun, ChecksCome, Blamed
    <3> QED
      BY <3>1, <3>2
  <2>5. CASE err \in {"failure", "not found"}
    <3>1. code = 1
      BY <2>2, <2>5 DEF ExitCode
    <3>2. inv.iface = "named" \/ (WellFormed /\ inv.wrong = "nothing")
      BY <1>1, <2>5 DEF Told, Blamed
    <3> QED
      BY <3>1, <3>2
  <2> QED
    BY <1>1, <2>3, <2>4, <2>5 DEF Told, Blamed
<1>2. IInv /\ Told => ExitCodeTells
  BY <1>1 DEF ExitCodeTells
<1> QED
  BY <1>2, InvHolds, ToldHolds, PTL

-----------------------------------------------------------------------------
(* Types.  What is left to do is the rest of the command's plan: the        *)
(* deferred calls that a failure leaves are the last three of a plan that   *)
(* opens.                                                                   *)

Rest(t, p) == t = <<>> \/ \E i \in 1..Len(p) : t = SubSeq(p, i, Len(p))

Shaped ==
  /\ Rest(todo, Plan(inv.cmd))
  /\ client = "open" => Has(Plan(inv.cmd), "open")
  /\ code \in 0..2 /\ eof \in BOOLEAN /\ ctx \in {"none", "live", "done"}
  /\ sent \in BOOLEAN /\ stopped \in BOOLEAN /\ known \in BOOLEAN
  /\ packets \in 0..MaxPackets /\ barStop \in BOOLEAN

LEMMA PlansAreSequences ==
  ASSUME NEW cmd \in Commands
  PROVE  Plan(cmd) \in Seq(Kinds) /\ Len(Plan(cmd)) \in Nat
<1>1. ~Live("none") /\ "none" # "open"
  BY DEF Live
<1>2. Covered(Plan(cmd), "none", "none")
  BY <1>1, PlansCovered
<1> QED
  BY <1>2 DEF Covered, Sound

LEMMA TailRests ==
  ASSUME NEW p \in Seq(Kinds), NEW t, Rest(t, p), t # <<>>
  PROVE  Rest(Tail(t), p)
<1>1. PICK i \in 1..Len(p) : t = SubSeq(p, i, Len(p))
  BY DEF Rest
<1>2. Len(p) \in Nat /\ Len(p) \in i..Len(p)
  BY LenProperties
<1>3. Tail(t) = SubSeq(p, i + 1, Len(p))
  BY <1>1, <1>2, HeadTailOfSubSeq
<1>4. CASE i = Len(p)
  <2>1. Tail(t) = <<>>
    BY <1>2, <1>3, <1>4, SubSeqEmpty
  <2> QED
    BY <2>1 DEF Rest
<1>5. CASE i # Len(p)
  <2>1. i + 1 \in 1..Len(p)
    BY <1>2, <1>5
  <2> QED
    BY <1>3, <2>1 DEF Rest
<1> QED
  BY <1>4, <1>5

LEMMA AllRests ==
  ASSUME NEW p \in Seq(Kinds)
  PROVE  Rest(p, p) /\ Rest(<<>>, p)
<1>1. SubSeq(p, 1, Len(p)) = p
  BY SubSeqFull
<1>2. p = <<>> \/ 1 \in 1..Len(p)
  BY EmptySeq
<1> QED
  BY <1>1, <1>2 DEF Rest

(* A sequence ends in the deferred calls. *)
LEMMA EndsDeferred ==
  ASSUME NEW p \in Seq(Kinds), Len(p) > 2,
         p[Len(p) - 2] = "stop", p[Len(p) - 1] = "cancel", p[Len(p)] = "close"
  PROVE  Rest(Deferred, p)
<1> DEFINE i == Len(p) - 2
           d == SubSeq(p, i, Len(p))
<1>1. i \in 1..Len(p) /\ i \in Int /\ Len(p) \in Int /\ \A j \in i..Len(p) : p[j] \in Kinds
  OBVIOUS
<1>2. d \in Seq(Kinds) /\ Len(d) = 3 /\ \A j \in 1..3 : d[j] = p[i + j - 1]
  BY <1>1, SubSeqProperties
<1>3. d[1] = "stop" /\ d[2] = "cancel" /\ d[3] = "close"
  BY <1>1, <1>2
<1>4. Deferred \in Seq(Kinds) /\ Len(Deferred) = 3
      /\ Deferred[1] = "stop" /\ Deferred[2] = "cancel" /\ Deferred[3] = "close"
  BY DEF Deferred, Kinds
<1>5. d = Deferred
  <2>1. Len(d) = Len(Deferred) /\ \A j \in 1..Len(d) : d[j] = Deferred[j]
    BY <1>2, <1>3, <1>4
  <2> QED
    BY <1>2, <1>4, <2>1, SeqEqual
<1> QED
  BY <1>1, <1>5 DEF Rest

LEMMA PlansEnd ==
  ASSUME NEW cmd \in Commands, Has(Plan(cmd), "open")
  PROVE  Rest(Deferred, Plan(cmd))
<1> DEFINE p == Plan(cmd)
<1>0. p \in Seq(Kinds)
  BY PlansAreSequences
<1>1. CASE cmd = "discover"
  <2>1. p = <<"open", "bar", "discover", "stop", "list", "render", "stop", "cancel", "close">>
    BY <1>1 DEF Plan, DeviceCommands
  <2>2. Len(p) = 9 /\ p[7] = "stop" /\ p[8] = "cancel" /\ p[9] = "close"
    BY <2>1
  <2>3. Len(p) > 2 /\ Len(p) - 2 = 7 /\ Len(p) - 1 = 8
    BY <2>2
  <2> QED
    BY <1>0, <2>2, <2>3, EndsDeferred
<1>2. CASE cmd = "discover --info"
  <2>1. p = <<"open", "bar", "discover", "stop", "list", "soft", "soft", "render",
             "stop", "cancel", "close">>
    BY <1>2 DEF Plan, DeviceCommands
  <2>2. Len(p) = 11 /\ p[9] = "stop" /\ p[10] = "cancel" /\ p[11] = "close"
    BY <2>1
  <2>3. Len(p) > 2 /\ Len(p) - 2 = 9 /\ Len(p) - 1 = 10
    BY <2>2
  <2> QED
    BY <1>0, <2>2, <2>3, EndsDeferred
<1>3. CASE cmd = "info"
  <2>1. p = <<"input", "open", "bar", "find", "stop", "soft", "render", "stop", "cancel", "close">>
    BY <1>3 DEF Plan, DeviceCommands
  <2>2. Len(p) = 10 /\ p[8] = "stop" /\ p[9] = "cancel" /\ p[10] = "close"
    BY <2>1
  <2>3. Len(p) > 2 /\ Len(p) - 2 = 8 /\ Len(p) - 1 = 9
    BY <2>2
  <2> QED
    BY <1>0, <2>2, <2>3, EndsDeferred
<1>4. CASE cmd \in {"getip", "get", "read"}
  <2>1. p = <<"input", "open", "bar", "find", "call", "stop", "render", "stop", "cancel", "close">>
    BY <1>4 DEF Plan, DeviceCommands
  <2>2. Len(p) = 10 /\ p[8] = "stop" /\ p[9] = "cancel" /\ p[10] = "close"
    BY <2>1
  <2>3. Len(p) > 2 /\ Len(p) - 2 = 8 /\ Len(p) - 1 = 9
    BY <2>2
  <2> QED
    BY <1>0, <2>2, <2>3, EndsDeferred
<1>5. CASE cmd = "set"
  <2>1. p = <<"input", "sources", "open", "bar", "find", "call", "default", "call", "stop",
             "render", "stop", "cancel", "close">>
    BY <1>5 DEF Plan, DeviceCommands
  <2>2. Len(p) = 13 /\ p[11] = "stop" /\ p[12] = "cancel" /\ p[13] = "close"
    BY <2>1
  <2>3. Len(p) > 2 /\ Len(p) - 2 = 11 /\ Len(p) - 1 = 12
    BY <2>2
  <2> QED
    BY <1>0, <2>2, <2>3, EndsDeferred
<1>6. CASE cmd = "set --reboot"
  <2>1. p = <<"input", "sources", "open", "bar", "find", "call", "default", "call", "reset",
             "stop", "render", "stop", "cancel", "close">>
    BY <1>6 DEF Plan, DeviceCommands
  <2>2. Len(p) = 14 /\ p[12] = "stop" /\ p[13] = "cancel" /\ p[14] = "close"
    BY <2>1
  <2>3. Len(p) > 2 /\ Len(p) - 2 = 12 /\ Len(p) - 1 = 13
    BY <2>2
  <2> QED
    BY <1>0, <2>2, <2>3, EndsDeferred
<1>7. CASE cmd = "reboot"
  <2>1. p = <<"input", "open", "bar", "find", "reset", "stop", "cancel", "close">>
    BY <1>7 DEF Plan, DeviceCommands
  <2>2. Len(p) = 8 /\ p[6] = "stop" /\ p[7] = "cancel" /\ p[8] = "close"
    BY <2>1
  <2>3. Len(p) > 2 /\ Len(p) - 2 = 6 /\ Len(p) - 1 = 7
    BY <2>2
  <2> QED
    BY <1>0, <2>2, <2>3, EndsDeferred
<1>8. CASE cmd \in {"interfaces", "--version"}
  <2>1. p \in {<<"enumerate", "render">>, <<"input", "render">>}
    BY <1>8 DEF Plan, DeviceCommands
  <2> QED
    BY <2>1 DEF Has
<1>9. CASE cmd = ""
  <2>1. p = <<>>
    BY <1>9 DEF Plan, DeviceCommands
  <2>2. 1..Len(<<>>) = {}
    OBVIOUS
  <2> QED
    BY <2>1, <2>2 DEF Has
<1> QED
  BY <1>1, <1>2, <1>3, <1>4, <1>5, <1>6, <1>7, <1>8, <1>9 DEF Commands, DeviceCommands

LEMMA RestHas ==
  ASSUME NEW p \in Seq(Kinds), NEW t, Rest(t, p), NEW step, Has(t, step)
  PROVE  Has(p, step)
<1>1. PICK j \in 1..Len(t) : t[j] = step
  BY DEF Has
<1>2. t # <<>>
  <2>1. 1..Len(<<>>) = {}
    OBVIOUS
  <2> QED
    BY <1>1, <2>1
<1>3. PICK i \in 1..Len(p) : t = SubSeq(p, i, Len(p))
  BY <1>2 DEF Rest
<1>4. i \in Int /\ Len(p) \in Int /\ \A k \in i..Len(p) : p[k] \in Kinds
  OBVIOUS
<1>5. Len(t) = Len(p) - i + 1 /\ \A k \in 1..(Len(p) - i + 1) : t[k] = p[i + k - 1]
  BY <1>3, <1>4, SubSeqProperties
<1>6. i + j - 1 \in 1..Len(p) /\ p[i + j - 1] = step
  BY <1>1, <1>4, <1>5
<1> QED
  BY <1>6 DEF Has

(* Main's steps leave a rest of the plan. *)
LEMMA MainShapes ==
  ASSUME IInv, Told, Shaped, UNCHANGED inv,
         \/ todo' = todo
         \/ Done /\ todo # <<>>
         \/ \E kind : Fail(kind)
         \/ todo' = Plan(inv.cmd),
         client' = "open" => client = "open" \/ Has(todo, "open")
  PROVE  Rest(todo', Plan(inv'.cmd)) /\ (client' = "open" => Has(Plan(inv'.cmd), "open"))
<1> DEFINE p == Plan(inv.cmd)
<1>1. inv.cmd \in Commands /\ p \in Seq(Kinds)
  BY PlansAreSequences DEF IInv, Typed, AllInvocations
<1>2. Rest(todo, p) /\ (client = "open" => Has(p, "open"))
  BY DEF Shaped
<1>3. Rest(todo', p)
  <2>1. CASE todo' = todo
    BY <1>2, <2>1
  <2>2. CASE Done /\ todo # <<>>
    BY <1>1, <1>2, <2>2, TailRests DEF Done
  <2>3. CASE \E kind : Fail(kind)
    BY <1>1, <1>2, <2>3, PlansEnd, AllRests DEF Fail
  <2>4. CASE todo' = p
    BY <1>1, <2>4, AllRests
  <2> QED
    BY <2>1, <2>2, <2>3, <2>4
<1>4. client' = "open" => Has(p, "open")
  BY <1>1, <1>2, RestHas
<1> QED
  BY <1>3, <1>4

LEMMA CobraShapes ==
  ASSUME IInv, Told, Shaped, Cobra \/ PreRunFails
  PROVE  Shaped'
<1> USE DEF process, work, discovery, progress
<1>1. /\ UNCHANGED <<inv, code, eof, client, ctx, sent, stopped, known, packets, barStop>>
      /\ todo' = todo \/ todo' = Plan(inv.cmd)
  BY DEF Cobra, PreRunFails, Parse, PreRun, Groups, Rejected
<1>2. Rest(todo', Plan(inv'.cmd)) /\ (client' = "open" => Has(Plan(inv'.cmd), "open"))
  BY <1>1, MainShapes
<1> QED
  BY <1>1, <1>2 DEF Shaped

LEMMA RunShapes ==
  ASSUME IInv, Told, Shaped,
         \/ Input \/ Sources \/ OpenFails \/ StartBar \/ List \/ Enumerate \/ Cancel \/ Open
         \/ Close \/ Render \/ Stop \/ StopReturns
  PROVE  Shaped'
<1> USE DEF process, work, discovery, progress
<1>1. /\ UNCHANGED <<inv, code, eof, stopped, known, packets>>
      /\ sent' = sent /\ ctx' \in {ctx, "live", "done"} /\ barStop' \in {barStop, TRUE}
      /\ todo # <<>>
  BY DEF IInv, Main, Do, Input, Sources, OpenFails, StartBar, List, Enumerate, Cancel, Open,
         Close, Render, Stop, StopReturns
<1>2. \/ todo' = todo
      \/ Done /\ todo # <<>>
      \/ \E kind : Fail(kind)
  <2>1. CASE Input
    BY <1>1, <2>1 DEF Input
  <2>2. CASE Sources
    BY <1>1, <2>2 DEF Sources
  <2>3. CASE OpenFails \/ StartBar \/ List \/ Enumerate \/ Cancel \/ Open \/ Close
    BY <1>1, <2>3 DEF OpenFails, StartBar, List, Enumerate, Cancel, Open, Close
  <2>4. CASE Render \/ Stop \/ StopReturns
    BY <1>1, <2>4 DEF Render, Stop, StopReturns
  <2> QED
    BY <2>1, <2>2, <2>3, <2>4
<1>3. client' = "open" => client = "open" \/ Has(todo, "open")
  <2>1. CASE Open
    BY <2>1, HeadHas DEF Open
  <2>2. CASE ~Open
    BY <2>2
       DEF Input, Sources, OpenFails, StartBar, List, Enumerate, Cancel, Close, Render, Stop,
           StopReturns
  <2> QED
    BY <2>1, <2>2
<1>4. Rest(todo', Plan(inv'.cmd)) /\ (client' = "open" => Has(Plan(inv'.cmd), "open"))
  BY <1>1, <1>2, <1>3, MainShapes
<1> QED
  BY <1>1, <1>4 DEF Shaped

LEMMA DeviceShapes ==
  ASSUME IInv, Told, Shaped,
         \/ CallSends \/ CallSkipped \/ CallSendFails \/ CallChecks \/ CallReadsOn \/ CallAnswered
         \/ Discover \/ FindStarts
         \/ FindPolls \/ FindTicks \/ DiscoverReturns \/ FindJoins \/ FindEnds
  PROVE  Shaped'
<1> USE DEF process, work, discovery, progress
<1>1. todo # <<>>
  BY DEF IInv, Main, Waiting, Do, CallSends, CallSkipped, CallSendFails, CallChecks, CallReadsOn,
         CallAnswered, Discover, FindStarts, FindPolls, FindTicks, DiscoverReturns, FindJoins,
         FindEnds
<1>2. CASE CallSends \/ CallSkipped \/ CallSendFails \/ CallChecks \/ CallReadsOn \/ CallAnswered
  <2>1. /\ UNCHANGED <<inv, code, eof, client, ctx, stopped, known, packets, barStop>>
        /\ sent' \in {sent, TRUE}
    BY <1>2 DEF CallSends, CallSkipped, CallSendFails, CallChecks, CallReadsOn, CallAnswered
  <2>2. todo' = todo \/ Done \/ Fail("failure")
    BY <1>2
       DEF CallSends, CallSkipped, CallSendFails, CallChecks, CallReadsOn, CallAnswered, CallFails
  <2>3. Rest(todo', Plan(inv'.cmd)) /\ (client' = "open" => Has(Plan(inv'.cmd), "open"))
    BY <1>1, <2>1, <2>2, MainShapes
  <2> QED
    BY <2>1, <2>3 DEF Shaped
<1>3. CASE \/ Discover \/ FindStarts
           \/ FindPolls \/ FindTicks \/ DiscoverReturns \/ FindJoins \/ FindEnds
  <2>1. /\ UNCHANGED <<inv, code, eof, client, ctx, sent, known, packets, barStop>>
        /\ stopped' \in {stopped, TRUE}
    BY <1>3 DEF Discover, FindStarts, FindPolls, FindTicks, DiscoverReturns, FindJoins, FindEnds
  <2>2. todo' = todo \/ Done \/ Fail("failure") \/ Fail("not found")
    BY <1>3 DEF Discover, FindStarts, FindPolls, FindTicks, DiscoverReturns, FindJoins, FindEnds
  <2>3. Rest(todo', Plan(inv'.cmd)) /\ (client' = "open" => Has(Plan(inv'.cmd), "open"))
    BY <1>1, <2>1, <2>2, MainShapes
  <2> QED
    BY <2>1, <2>3 DEF Shaped
<1> QED
  BY <1>2, <1>3

LEMMA OthersShape ==
  ASSUME Told, Shaped,
         \/ StdinEnds \/ Deadline \/ Bar \/ Discovers \/ RunReturns \/ Exit
         \/ \E w \in Writers : WriteLocks(w) \/ WriteEnds(w)
         \/ UNCHANGED vars
  PROVE  Shaped'
<1>1. UNCHANGED <<inv, todo, client, stopped, barStop>>
  BY DEF StdinEnds, Deadline, Bar, BarCancelled, BarShows, BarDraws, BarDrawn, BarTicks,
         BarStops, BarClears, Discovers, DiscSends, DiscChecks, DiscTimesOut, DiscReads, DiscFails,
         RunReturns, Exit, WriteLocks, WriteEnds, process, flow, work, discovery, progress, vars
<1>2. /\ code' \in {0, 1, 2, code} /\ eof' \in {eof, TRUE} /\ ctx' \in {ctx, "done"}
      /\ sent' \in {sent, TRUE}
  BY DEF StdinEnds, Deadline, Bar, BarCancelled, BarShows, BarDraws, BarDrawn, BarTicks,
         BarStops, BarClears, Discovers, DiscSends, DiscChecks, DiscTimesOut, DiscReads, DiscFails,
         RunReturns, Exit, ExitCode, WriteLocks, WriteEnds,
         process, flow, work, discovery, progress, vars
<1>3. packets' \in 0..MaxPackets /\ known' \in BOOLEAN
  <2>1. CASE DiscReads
    <3>1. packets' \in 0..MaxPackets
      BY <2>1, PacketAssumption DEF DiscReads, Shaped
    <3>2. known' \in BOOLEAN
      BY <2>1 DEF DiscReads, Shaped
    <3> QED
      BY <3>1, <3>2
  <2>2. CASE ~DiscReads
    <3>1. UNCHANGED <<packets, known>>
      BY <2>2
         DEF StdinEnds, Deadline, Bar, BarCancelled, BarShows, BarDraws, BarDrawn, BarTicks,
             BarStops, BarClears, Discovers, DiscSends, DiscChecks, DiscTimesOut, DiscFails,
             RunReturns, Exit, WriteLocks, WriteEnds, process, flow, work, discovery, progress, vars
    <3> QED
      BY <3>1 DEF Shaped
  <2> QED
    BY <2>1, <2>2
<1>4. code' \in 0..2
  BY <1>2 DEF Shaped
<1>5. /\ eof' \in BOOLEAN /\ ctx' \in {"none", "live", "done"} /\ sent' \in BOOLEAN
      /\ stopped' \in BOOLEAN /\ barStop' \in BOOLEAN
  BY <1>1, <1>2 DEF Shaped
<1>6. Rest(todo', Plan(inv'.cmd)) /\ (client' = "open" => Has(Plan(inv'.cmd), "open"))
  BY <1>1 DEF Shaped
<1> QED
  BY <1>3, <1>4, <1>5, <1>6 DEF Shaped

(* The types: a command never does anything but the rest of its own plan.   *)
(* A step that fails leaves it the deferred calls (cli.go:186-224, and the  *)
(* defers of every RunE).                                                   *)
THEOREM TypeCorrect == Spec => []TypeOK
<1>1. Init => Shaped
  <2> SUFFICES ASSUME Init PROVE Shaped
    OBVIOUS
  <2>1. eof \in BOOLEAN
    BY DEF Init
  <2>2. packets \in 0..MaxPackets /\ code \in 0..2
    <3>1. packets = 0 /\ code = 0
      BY DEF Init
    <3> QED
      BY <3>1, PacketAssumption
  <2> QED
    BY <2>1, <2>2 DEF Init, Shaped, Rest
<1>2. ASSUME IInv, Told, Shaped, [Next]_vars
      PROVE  Shaped'
  <2>1. CASE UNCHANGED vars
    BY <1>2, <2>1, OthersShape
  <2>2. CASE Next
    BY <1>2, <2>2, CobraShapes, RunShapes, DeviceShapes, OthersShape DEF Next, Steps, Choices
  <2> QED
    BY <1>2, <2>1, <2>2
<1>3. IInv /\ Told /\ Shaped => TypeOK
  BY DEF IInv, Typed, Idle, Waiting, Told, Begun, ResultComes, Blamed, Shaped, Rest, TypeOK
<1> QED
  BY <1>1, <1>2, <1>3, InvHolds, ToldHolds, PTL DEF Spec

=============================================================================
