----------------------------- MODULE CliProcess -----------------------------
(***************************************************************************)
(* One run of the go-udap program (main.go, cli/): cobra's checks of the   *)
(* invocation, the steps of a subcommand with its deferred clean-up, and   *)
(* the goroutines that live beside it: the discovery discoverAndFind polls *)
(* (cli/find.go) and the progress bar (cli/progress.go).  Both write to    *)
(* the terminal through stderrSync (cli/stderr.go); the result and main's  *)
(* last words do not.                                                      *)
(*                                                                         *)
(* What the requests and replies of an operation say is the business of    *)
(* UdapSession; here an operation is answered, fails or runs out of time.  *)
(* The definitions named X_Y are wrong variants of X, each with the bug Y. *)
(***************************************************************************)
EXTENDS Naturals, Sequences

CONSTANTS
  Invocations, \* the invocations considered
  MaxPackets   \* bound: packets a discovery receives

DeviceCommands == {"info", "getip", "get", "read", "set", "set --reboot", "reboot"}
Commands == {"discover", "discover --info", "interfaces", "--version", ""} \cup DeviceCommands

(* What the command line, and the terminal it is typed at, come to. *)
AllInvocations ==
  [cmd    : Commands,
   parses : BOOLEAN,                             \* a known command, known flags, the right arguments
   format : {"default", "one", "both"},          \* --json and --format
   iface  : {"default", "named", "unnamed", "all", "both"},
                     \* --bind-interface NAME; "" with --all-interfaces; the latter; both with NAME
   usable : BOOLEAN,                             \* NAME is a usable interface
   wrong  : {"nothing", "argument", "source"},   \* what RunE finds wrong; a source: of set only
   piped  : BOOLEAN,                             \* set takes parameters from standard input
   tty    : BOOLEAN]                             \* stderr is a terminal

ASSUME InvocationAssumption == Invocations \subseteq AllInvocations
ASSUME PacketAssumption == MaxPackets \in Nat

WritesResult(cmd) == cmd \notin {"reboot", ""}

(* The deferred calls of a command, last first. *)
Deferred == <<"stop", "cancel", "close">>

(* What each command does from RunE on, its deferred calls included.        *)
(* "call" may fail, "soft" fails silently, and "reset" takes silence for    *)
(* success; a second "stop" does nothing.                                   *)
Plan(cmd) ==
  CASE cmd = "discover" ->
         <<"open", "bar", "discover", "stop", "list", "render", "stop", "cancel", "close">>
    [] cmd = "discover --info" ->
         <<"open", "bar", "discover", "stop", "list", "soft", "soft", "render",
           "stop", "cancel", "close">>
    [] cmd = "info" ->
         <<"input", "open", "bar", "find", "stop", "soft", "render", "stop", "cancel", "close">>
    [] cmd \in {"getip", "get", "read"} ->
         <<"input", "open", "bar", "find", "call", "stop", "render", "stop", "cancel", "close">>
    [] cmd = "set" ->
         <<"input", "sources", "open", "bar", "find", "call", "default", "call", "stop", "render",
           "stop", "cancel", "close">>
    [] cmd = "set --reboot" ->
         <<"input", "sources", "open", "bar", "find", "call", "default", "call", "reset", "stop",
           "render", "stop", "cancel", "close">>
    [] cmd = "reboot" ->
         <<"input", "open", "bar", "find", "reset", "stop", "cancel", "close">>
    [] cmd = "interfaces" -> <<"enumerate", "render">>
    [] cmd = "--version"  -> <<"input", "render">>
    [] OTHER              -> <<>>      \* help

(* A command finds nothing wrong where it does not look. *)
ASSUME WrongAssumption ==
  \A i \in Invocations :
    /\ i.wrong = "argument" => \E k \in 1..Len(Plan(i.cmd)) : Plan(i.cmd)[k] = "input"
    /\ i.wrong = "source" => \E k \in 1..Len(Plan(i.cmd)) : Plan(i.cmd)[k] = "sources"

VARIABLES
  inv,      \* the invocation
  pc,       \* where the main goroutine is
  todo,     \* the steps of RunE and its deferred calls still to do
  reached,  \* reachedRunE
  err,      \* the error on its way up
  code,     \* the exit code
  eof,      \* standard input has been read to its end
  client,   \* "none", "open" or "closed"
  ctx,      \* the command's context: "none", "live" or "done"
  sent,     \* ghost: a packet has been sent
  printed,  \* ghost: the result is on stdout
  disc,     \* the discovery: what DiscoverDevicesWithContext does
  stopped,  \* discoverAndFind has cancelled its discovery
  known,    \* the device is in the client's map
  packets,  \* packets received by the discovery
  bar,      \* what the progress goroutine does
  barStop,  \* its context is cancelled
  lock,     \* who holds stderrSync.mu, or "free"
  active,   \* stderrSync.barActive
  row,      \* the terminal's current line: "blank" or "bar"
  line,     \* the line each goroutine writes to stderr
  smashed   \* ghost: text has been written on the bar's line

process == <<inv, reached, code, eof>>
flow == <<pc, todo, err>>
work == <<client, ctx, sent, printed>>
discovery == <<disc, stopped, known, packets>>
progress == <<bar, barStop>>
screen == <<lock, active, row, line, smashed>>
vars == <<inv, pc, todo, reached, err, code, eof, client, ctx, sent, printed, disc, stopped,
          known, packets, bar, barStop, lock, active, row, line, smashed>>

Writers == {"main", "disc"}

Init ==
  /\ inv \in Invocations
  /\ pc = "parse" /\ todo = <<>> /\ reached = FALSE /\ err = "none" /\ code = 0
  /\ eof = ~(inv.piped /\ inv.cmd \in {"set", "set --reboot"})
  /\ client = "none" /\ ctx = "none" /\ sent = FALSE /\ printed = FALSE
  /\ disc = "none" /\ stopped = FALSE /\ known = FALSE /\ packets = 0
  /\ bar = "none" /\ barStop = FALSE
  /\ lock = "free" /\ active = FALSE /\ row = "blank"
  /\ line = [w \in Writers |-> "none"] /\ smashed = FALSE

-----------------------------------------------------------------------------
(* cobra: parse, PersistentPreRunE, flag groups, RunE. *)

Rejected(kind) == pc' = "returned" /\ err' = kind /\ UNCHANGED <<todo, reached>>

Parse ==
  /\ pc = "parse"
  /\ IF inv.parses THEN pc' = "prerun" /\ UNCHANGED <<todo, reached, err>> ELSE Rejected("untyped")
  /\ UNCHANGED <<inv, code, eof, work, discovery, progress, screen>>

PreRun ==
  /\ pc = "prerun"
  /\ IF \/ inv.format # "default" /\ ~WritesResult(inv.cmd)
        \/ inv.iface = "both"
        \/ inv.iface = "named" /\ ~inv.usable
     THEN Rejected("usage")
     ELSE pc' = "groups" /\ UNCHANGED <<todo, reached, err>>
  /\ UNCHANGED <<inv, code, eof, work, discovery, progress, screen>>

(* The interfaces cannot be enumerated. *)
PreRunFails ==
  /\ pc = "prerun" /\ inv.iface = "named"
  /\ ~(inv.format # "default" /\ ~WritesResult(inv.cmd))
  /\ Rejected("failure")
  /\ UNCHANGED <<inv, code, eof, work, discovery, progress, screen>>

(* cobra checks the flags that exclude each other; then RunE starts. *)
Groups ==
  /\ pc = "groups"
  /\ IF inv.format = "both" \/ inv.iface = "unnamed" THEN Rejected("untyped")
     ELSE pc' = "run" /\ todo' = Plan(inv.cmd) /\ reached' = TRUE /\ UNCHANGED err
  /\ UNCHANGED <<inv, code, eof, work, discovery, progress, screen>>

-----------------------------------------------------------------------------
(* The steps of RunE.  Whoever has a line to write does nothing else. *)

Quiet(w) == line[w] = "none"
MayLog(w) == line' \in {line, [line EXCEPT ![w] = "wait"]} /\ UNCHANGED <<lock, active, row, smashed>>

Do(step) == pc = "run" /\ Quiet("main") /\ todo # <<>> /\ Head(todo) = step
Done == pc' = "run" /\ todo' = Tail(todo) /\ UNCHANGED err
Fail_Unwinds(kind) == pc' = "run" /\ err' = kind /\ todo' = Deferred
Fail(kind) ==
  pc' = "run" /\ err' = kind /\ todo' = IF client = "open" THEN Deferred ELSE <<>>

Input ==
  /\ Do("input")
  /\ IF inv.wrong = "argument" THEN Fail("usage") ELSE Done
  /\ UNCHANGED <<process, work, discovery, progress, screen>>

(* mergeSources reads standard input to its end; the warning about ignored  *)
(* input comes before the bar.                                              *)
Sources ==
  /\ Do("sources") /\ eof
  /\ IF inv.wrong = "source" THEN Fail("usage") ELSE Done
  /\ MayLog("main")
  /\ UNCHANGED <<process, work, discovery, progress>>

StdinEnds ==
  /\ ~eof /\ eof' = TRUE
  /\ UNCHANGED <<inv, reached, code, flow, work, discovery, progress, screen>>

(* newClient, and the context of the command. *)
Open ==
  /\ Do("open")
  /\ client' = "open" /\ ctx' = "live" /\ Done
  /\ MayLog("main")
  /\ UNCHANGED <<process, sent, printed, discovery, progress>>

OpenFails ==
  /\ Do("open") /\ Fail("failure")
  /\ UNCHANGED <<process, work, discovery, progress, screen>>

(* startProgress: no goroutine unless stderr is a terminal. *)
StartBar ==
  /\ Do("bar") /\ Done
  /\ bar' = IF inv.tty THEN "delay" ELSE "none"
  /\ UNCHANGED <<process, work, discovery, barStop, screen>>

Stop_NoWait ==
  /\ Do("stop") /\ barStop' = TRUE /\ Done
  /\ UNCHANGED <<process, work, discovery, bar, screen>>

Stop_NoCancel ==
  /\ Do("stop") /\ UNCHANGED barStop
  /\ pc' = "stopping" /\ UNCHANGED <<todo, err>>
  /\ UNCHANGED <<process, work, discovery, bar, screen>>

(* stop(): cancel, then wait for the goroutine; again if called again. *)
Stop ==
  /\ Do("stop") /\ barStop' = TRUE
  /\ pc' = "stopping" /\ UNCHANGED <<todo, err>>
  /\ UNCHANGED <<process, work, discovery, bar, screen>>

StopReturns ==
  /\ pc = "stopping" /\ bar \in {"none", "done"} /\ Done
  /\ UNCHANGED <<process, work, discovery, progress, screen>>

(* What discover says when it found nothing, and the interface set chooses. *)
List ==
  /\ Do("list") \/ Do("default")
  /\ Done /\ MayLog("main")
  /\ UNCHANGED <<process, work, discovery, progress>>

Enumerate ==
  /\ Do("enumerate")
  /\ \/ Done /\ MayLog("main")
     \/ Fail("failure") /\ UNCHANGED screen
  /\ UNCHANGED <<process, work, discovery, progress>>

Writes == smashed' = (smashed \/ row = "bar") /\ UNCHANGED <<lock, active, row, line>>

(* renderResult writes to stdout, past stderrSync. *)
Render ==
  /\ Do("render")
  /\ \/ Done /\ printed' = TRUE
     \/ Fail("failure") /\ UNCHANGED printed
  /\ Writes
  /\ UNCHANGED <<process, client, ctx, sent, discovery, progress>>

Cancel ==
  /\ Do("cancel") /\ ctx' = "done" /\ Done
  /\ UNCHANGED <<process, client, sent, printed, discovery, progress, screen>>

Close ==
  /\ Do("close") /\ client' = "closed" /\ Done
  /\ UNCHANGED <<process, ctx, sent, printed, discovery, progress, screen>>

-----------------------------------------------------------------------------
(* The operations on a device: send, then Recv until an answer or the       *)
(* deadline.                                                                *)

Calls == {"call", "soft", "reset"}

CallSends ==
  /\ \E step \in Calls : Do(step)
  /\ sent' = TRUE /\ pc' = "recv" /\ UNCHANGED <<todo, err>>
  /\ MayLog("main")
  /\ UNCHANGED <<process, client, ctx, printed, discovery, progress>>

(* No device was found, or its discovery reply had the UUID. *)
CallSkipped ==
  /\ Do("soft") /\ Done
  /\ UNCHANGED <<process, work, discovery, progress, screen>>

(* The operation ends; a soft failure is a line in the log. *)
CallFails ==
  IF Head(todo) = "soft" THEN Done /\ MayLog("main") ELSE Fail("failure") /\ UNCHANGED screen

CallSendFails ==
  /\ \E step \in Calls : Do(step)
  /\ CallFails
  /\ UNCHANGED <<process, work, discovery, progress>>

CallChecks ==
  /\ pc = "recv" /\ Quiet("main")
  /\ IF ctx = "live" THEN pc' = "reading" /\ UNCHANGED <<todo, err, screen>>
     ELSE IF Head(todo) = "reset" THEN Done /\ UNCHANGED screen ELSE CallFails
  /\ UNCHANGED <<process, work, discovery, progress>>

(* The 200 ms read deadline, or a packet that is not the reply. *)
CallReadsOn ==
  /\ pc = "reading" /\ pc' = "recv"
  /\ MayLog("main")
  /\ UNCHANGED <<process, todo, err, work, discovery, progress>>

CallAnswered ==
  /\ pc = "reading"
  /\ \/ Done /\ UNCHANGED screen
     \/ CallFails
  /\ UNCHANGED <<process, work, discovery, progress>>

Deadline ==
  /\ ctx = "live" /\ ctx' = "done"
  /\ UNCHANGED <<process, flow, client, sent, printed, discovery, progress, screen>>

-----------------------------------------------------------------------------
(* DiscoverDevicesWithContext; discover runs it on the main goroutine.      *)

Over == disc \in {"ended", "failed"} /\ Quiet("disc")

DiscSends ==
  /\ disc = "send" /\ Quiet("disc")
  /\ \/ disc' = "check" /\ sent' = TRUE
     \/ disc' = "failed" /\ UNCHANGED sent
  /\ MayLog("disc")
  /\ UNCHANGED <<process, flow, client, ctx, printed, stopped, known, packets, progress>>

DiscChecks ==
  /\ disc = "check" /\ Quiet("disc")
  /\ disc' = IF ctx = "done" \/ stopped THEN "ended" ELSE "read"
  /\ UNCHANGED <<process, flow, work, stopped, known, packets, progress, screen>>

DiscTimesOut ==
  /\ disc = "read" /\ disc' = "check"
  /\ UNCHANGED <<process, flow, work, stopped, known, packets, progress, screen>>

(* A packet: the device is recorded before it is logged; anything else is   *)
(* at most a line in the log.                                               *)
DiscReads ==
  /\ disc = "read" /\ packets < MaxPackets
  /\ packets' = packets + 1 /\ disc' = "check"
  /\ known' \in {known, TRUE}
  /\ MayLog("disc")
  /\ UNCHANGED <<process, flow, work, stopped, progress>>

DiscFails ==
  /\ disc = "read" /\ disc' = "failed"
  /\ UNCHANGED <<process, flow, work, stopped, known, packets, progress, screen>>

Discover ==
  /\ Do("discover")
  /\ disc' = "send" /\ pc' = "await" /\ UNCHANGED <<todo, err>>
  /\ UNCHANGED <<process, work, stopped, known, packets, progress, screen>>

DiscoverReturns ==
  /\ pc = "await" /\ Over
  /\ IF disc = "failed" THEN Fail("failure") ELSE Done
  /\ UNCHANGED <<process, work, discovery, progress, screen>>

(* discoverAndFind: start the discovery, then look at the map each 50 ms.   *)
FindStarts ==
  /\ Do("find")
  /\ disc' = "send" /\ pc' = "poll" /\ UNCHANGED <<todo, err>>
  /\ UNCHANGED <<process, work, stopped, known, packets, progress, screen>>

FindPolls_NoJoin ==
  /\ pc = "poll"
  /\ IF known THEN stopped' = TRUE /\ Done
     ELSE pc' = "select" /\ UNCHANGED <<todo, err, stopped>>
  /\ UNCHANGED <<process, work, disc, known, packets, progress, screen>>

FindPolls ==
  /\ pc = "poll"
  /\ IF known THEN pc' = "join" /\ stopped' = TRUE ELSE pc' = "select" /\ UNCHANGED stopped
  /\ UNCHANGED <<process, todo, err, work, disc, known, packets, progress, screen>>

FindTicks ==
  /\ pc = "select" /\ pc' = "poll"
  /\ UNCHANGED <<process, todo, err, work, discovery, progress, screen>>

FindJoins ==
  /\ pc = "join" /\ Over /\ Done
  /\ UNCHANGED <<process, work, discovery, progress, screen>>

FindEnds_NoLastLook ==
  /\ pc = "select" /\ Over
  /\ Fail(IF disc = "failed" /\ ctx # "done" THEN "failure" ELSE "not found")
  /\ UNCHANGED <<process, work, stopped, disc, known, packets, progress, screen>>

(* The discovery is over: look once more. *)
FindEnds ==
  /\ pc = "select" /\ Over
  /\ CASE known -> Done
       [] ~known /\ disc = "failed" /\ ctx # "done" -> Fail("failure")
       [] OTHER -> Fail("not found")
  /\ UNCHANGED <<process, work, stopped, disc, known, packets, progress, screen>>

-----------------------------------------------------------------------------
(* The terminal.  stderrSync.Write locks, erases the bar, writes the line;  *)
(* barDraw locks, prints, marks the bar active.                             *)

WriteLocks(w) ==
  /\ line[w] = "wait" /\ lock = "free" /\ lock' = w
  /\ row' = (IF active THEN "blank" ELSE row) /\ active' = FALSE
  /\ line' = [line EXCEPT ![w] = "write"]
  /\ UNCHANGED <<process, flow, work, discovery, progress, smashed>>

WriteEnds(w) ==
  /\ line[w] = "write" /\ lock' = "free"
  /\ line' = [line EXCEPT ![w] = "none"]
  /\ smashed' = (smashed \/ row = "bar")
  /\ UNCHANGED <<process, flow, work, discovery, progress, active, row>>

(* The bar waits 500 ms, then draws itself each 100 ms until it is stopped. *)
BarCancelled ==
  /\ bar = "delay" /\ barStop /\ bar' = "done"
  /\ UNCHANGED <<process, flow, work, discovery, barStop, screen>>

BarShows ==
  /\ bar = "delay" /\ bar' = "draw"
  /\ UNCHANGED <<process, flow, work, discovery, barStop, screen>>

BarDraws_Unlocked ==
  /\ bar = "draw" /\ bar' = "drawn"
  /\ row' = "bar" /\ UNCHANGED <<lock, active, line, smashed>>
  /\ UNCHANGED <<process, flow, work, discovery, barStop>>

BarDraws ==
  /\ bar = "draw" /\ lock = "free" /\ bar' = "drawn"
  /\ lock' = "bar" /\ row' = "bar" /\ UNCHANGED <<active, line, smashed>>
  /\ UNCHANGED <<process, flow, work, discovery, barStop>>

BarDrawn ==
  /\ bar = "drawn" /\ bar' = "tick"
  /\ active' = TRUE /\ lock' = "free" /\ UNCHANGED <<row, line, smashed>>
  /\ UNCHANGED <<process, flow, work, discovery, barStop>>

BarTicks ==
  /\ bar = "tick" /\ bar' = "draw"
  /\ UNCHANGED <<process, flow, work, discovery, barStop, screen>>

BarStops ==
  /\ bar = "tick" /\ barStop /\ bar' = "clear"
  /\ UNCHANGED <<process, flow, work, discovery, barStop, screen>>

BarClears ==
  /\ bar = "clear" /\ lock = "free" /\ bar' = "done"
  /\ row' = (IF active THEN "blank" ELSE row) /\ active' = FALSE
  /\ UNCHANGED <<process, flow, work, discovery, barStop, lock, line, smashed>>

-----------------------------------------------------------------------------
(* Execute returns its error, main prints it and exits. *)

RunReturns ==
  /\ pc = "run" /\ todo = <<>> /\ Quiet("main")
  /\ pc' = "returned"
  /\ UNCHANGED <<process, todo, err, work, discovery, progress, screen>>

ExitCode_Untyped(e) == CASE e = "none" -> 0 [] e = "usage" -> 2 [] OTHER -> 1

(* An untyped error is cobra's own as long as no RunE has started. *)
ExitCode(e) ==
  CASE e = "none" -> 0
    [] e = "usage" \/ (e = "untyped" /\ ~reached) -> 2
    [] OTHER -> 1

Exit ==
  /\ pc = "returned" /\ pc' = "exit"
  /\ code' = ExitCode(err)
  /\ IF err = "none" THEN UNCHANGED screen ELSE Writes
  /\ UNCHANGED <<inv, reached, eof, todo, err, work, discovery, progress>>

-----------------------------------------------------------------------------
Cobra == Parse \/ PreRun \/ Groups
Steps ==
  \/ Input \/ Sources \/ Open \/ StartBar \/ Stop \/ StopReturns \/ List \/ Enumerate
  \/ Render \/ Cancel \/ Close \/ CallSends \/ CallChecks \/ CallReadsOn
  \/ Discover \/ DiscoverReturns \/ FindStarts \/ FindPolls \/ FindTicks \/ FindJoins
  \/ RunReturns \/ Exit
Choices == PreRunFails \/ OpenFails \/ CallSendFails \/ CallSkipped \/ CallAnswered
Discovers == DiscSends \/ DiscChecks \/ DiscTimesOut \/ DiscReads \/ DiscFails
Bar == BarCancelled \/ BarShows \/ BarDraws \/ BarDrawn \/ BarTicks \/ BarStops \/ BarClears

Next ==
  /\ pc # "exit"
  /\ \/ Cobra \/ Steps \/ Choices \/ FindEnds \/ Discovers \/ Bar \/ StdinEnds \/ Deadline
     \/ \E w \in Writers : WriteLocks(w) \/ WriteEnds(w)

Spec == Init /\ [][Next]_vars

(* The goroutines and the clock run; a mutex goes to whoever waits for it   *)
(* (sync.Mutex hands over after 1 ms), and select finds a closed channel    *)
(* before the next tick is due.  Nobody need answer or end standard input.  *)
Fairness ==
  /\ WF_vars(Cobra) /\ WF_vars(Steps) /\ SF_vars(FindEnds)
  /\ WF_vars(DiscSends \/ DiscChecks \/ DiscTimesOut) /\ WF_vars(Deadline)
  /\ \A w \in Writers : SF_vars(WriteLocks(w)) /\ WF_vars(WriteEnds(w))
  /\ WF_vars(BarCancelled) /\ SF_vars(BarDraws) /\ WF_vars(BarDrawn)
  /\ SF_vars(BarStops) /\ SF_vars(BarClears)

FairSpec == Spec /\ Fairness

-----------------------------------------------------------------------------
TypeOK ==
  /\ inv \in Invocations /\ reached \in BOOLEAN /\ code \in 0..2 /\ eof \in BOOLEAN
  /\ pc \in {"parse", "prerun", "groups", "run", "stopping", "recv", "reading", "await",
             "poll", "select", "join", "returned", "exit"}
  /\ todo = <<>> \/ \E i \in 1..Len(Plan(inv.cmd)) :
                       todo = SubSeq(Plan(inv.cmd), i, Len(Plan(inv.cmd)))
  /\ err \in {"none", "untyped", "usage", "failure", "not found"}
  /\ client \in {"none", "open", "closed"} /\ ctx \in {"none", "live", "done"}
  /\ sent \in BOOLEAN /\ printed \in BOOLEAN
  /\ disc \in {"none", "send", "check", "read", "ended", "failed"}
  /\ stopped \in BOOLEAN /\ known \in BOOLEAN /\ packets \in 0..MaxPackets
  /\ bar \in {"none", "delay", "draw", "drawn", "tick", "clear", "done"} /\ barStop \in BOOLEAN
  /\ lock \in Writers \cup {"free", "bar"} /\ active \in BOOLEAN /\ row \in {"blank", "bar"}
  /\ line \in [Writers -> {"none", "wait", "write"}] /\ smashed \in BOOLEAN

(* One goroutine at a time receives from the client's transport, and none   *)
(* once the client is closed: discoverAndFind joins its discovery before    *)
(* the operation begins (find.go:104-108).  UdapSession's single receiver   *)
(* rests on it.                                                             *)
OneReceiver == disc = "read" => client = "open" /\ pc # "reading"

(* Neither a log line, nor the result, nor main's error message is ever     *)
(* written on the line the bar occupies, whichever goroutine was scheduled  *)
(* between a draw and its mark (stderr.go:41-70, progress.go:66-92).        *)
NeverSmashed == ~smashed

(* "not found before timeout" is only said of a device that is not in the   *)
(* map, once the time has really run out (find.go:112-120).                 *)
NotFoundIsTrue == err = "not found" => ~known /\ ctx = "done"

WellFormed ==
  /\ inv.parses /\ (WritesResult(inv.cmd) \/ inv.format = "default") /\ inv.format # "both"
  /\ inv.iface \notin {"both", "unnamed"} /\ (inv.iface = "named" => inv.usable)

(* Exit codes: 2 says the invocation or its input is wrong and nothing was  *)
(* attempted, 1 that something was attempted and failed, 0 that all is done *)
(* and the result printed (cli.go:30-34, 178-204).                          *)
ExitCodeTells ==
  pc = "exit" =>
    /\ code = 2 => client = "none" /\ ~sent /\ ~(WellFormed /\ inv.wrong = "nothing")
    /\ code = 1 => inv.iface = "named" \/ (WellFormed /\ inv.wrong = "nothing")
    /\ code = 0 => WellFormed /\ printed = WritesResult(inv.cmd)

(* When Execute returns, on every path, no goroutine is left, the socket is *)
(* closed and the bar is gone (the deferred calls of the commands).         *)
NothingLeft ==
  pc = "returned" =>
    /\ bar \in {"none", "done"} /\ disc \in {"none", "ended", "failed"}
    /\ client # "open" /\ row = "blank" /\ lock = "free"

(* The command ends by itself, whatever the network does, once standard     *)
(* input has ended: nothing bounds that wait (source.go:45).                *)
Terminates == <>eof => <>(pc = "exit")

=============================================================================
