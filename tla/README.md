# A TLA+ model of go-udap

go-udap is a single-shot command line tool, and a library (`udap`), that finds Squeezebox
network players in set-up mode and configures them over UDP broadcast (port 17784). The
repository also holds `mocksbr`, a software mock of the players that the tests and a small
server binary use. This directory models the program in TLA+, checks the models with TLC on
small instances and proves the central results for every instance with TLAPS. Paths such as
`udap/config.go` are relative to the root of the repository's sources. `PROJECT.json` maps
every definition that models code to its lines.

## The system

| Part | State | Operations | What makes it correct |
|---|---|---|---|
| `udap.Client` (`udap/client.go`, `config.go`, `discovery.go`, `getip.go`, `getuuid.go`) | sequence counter, map of `Device` entries with their parameter cache, number of retransmissions | discover, get, get all, set (read-modify-write), reset, get_ip, get_uuid | the reply that concludes an operation answers its request; a verdict is true; the cache never shows what the device never held; a set changes only what it names; every call returns |
| `udap.UDPTransport` (`udap/transport.go`, `loopback.go`) | a socket | Send, Recv (context check, 200 ms read, loop-back filter), Close | a Recv ends with its context |
| `udap.MultiTransport` (`udap/multi_transport.go`) | one pump and one watcher goroutine per child, the bounded channel `merged`, `stop` | Recv (starts the pumps), Close (once, joins the pumps) | implements the same port as one socket, nothing moves after Close, Close returns, no goroutine is left |
| CLI commands (`cli/*.go`) | one context for everything a command does | discover, info, getip, get, read, set, reboot | scripts of client operations; the deadline is shared |
| Values (`udap/parameters.go`, `validation.go`, `getdata_response.go`, `cli/config.go`, `source.go`, `set_interface_default.go`, `read.go`, `get.go`, `output.go`) | NVRAM fields and their text | parse, validate, merge, complete, encode, format, filter, print | what read prints set accepts and rebuilds; conversions round-trip; layers and names resolve to one value |
| `mocksbr.Network` and devices (`mocksbr/handlers.go`, `device.go`, `network.go`, `responses.go`) | per device: working memory, NVRAM, reboot deadline, failure knobs | handle one request | an acknowledged write survives resets; a rebooting device is silent |
| `mocksbr.MockTransport` (`mocksbr/transport.go`) | queue, one-token wake-up channel, timers of delayed replies | Send, Recv, Close | the port again; no receiver sleeps beside a pending reply |
| One run of the program (`main.go`, `cli/cli.go`, `find.go`, `progress.go`, `stderr.go`, the `RunE` of each command) | reached RunE, the error on its way up, deferred calls, the discovery goroutine, the bar's goroutine, `stderrSync` | parse, checks, RunE, clean-up, exit | exit codes tell what happened, one receiver at a time, no text on the bar's line, nothing left behind, an end |
| Payload codec (`udap/client.go`, `getdata_response.go`, `protocol.go`, `discovery.go`, `getip.go`, `getuuid.go`, `mocksbr/responses.go`) | the position in a payload | build and read requests and replies | no reader leaves the payload, what is taken is what was said, a set arrives whole |
| Completion (`cli/completion.go`), mock binary (`cmd/mocksbr`), JSON, CSV and table output, interface enumeration and socket options, logger, documentation tools | | | not modelled, see the end |

How they interact: a command creates a client, the client sends through a `Transport`
(UDP, Multi or Mock) and waits in `Recv` for packets; nothing is called back. A request is a
broadcast, so every node hears it and the addressed one answers by unicast. `discoverAndFind`
runs discovery in a second goroutine and polls the client's map; the progress bar is a third,
which shares the terminal with every log line through `stderrSync`. A device is real hardware,
known only from what the client and the mock assume of it.

What is hard: replies are matched by MAC address and source, never by sequence number or
method, so anything late, repeated or refused may be taken for the answer to the next
request; packets are lost; a reset is assumed after a timeout; the cached parameters of a
`Device` may be stale when a set is built from them; another controller may write in
between; goroutines, a bounded channel and Close race in `MultiTransport`; delayed replies,
reboot windows and a one-token wake-up race in the mock; a command's early returns must undo
exactly what it has started, while two other goroutines run; counts and lengths of a packet
promise what the packet may not hold; and values go through four text conversions that must
fit together. `PROJECT.json` lists each of these hazards at its line,
with the properties that would catch it, or why there is none.

## The modules

**`UdapSession`** is the core: one client, a caller that runs a script of operations on one
device, the wire, the device and its neighbours. `caller` is what the CLI command (or library
user) has asked so far, `recv` the client's `Recv` loop (`phase`, `reading`, `expired`), `entry`
the `Device` (`known`, `meta`, `ip`, `cache`), `wire` and `inbox` the packets on their way out
and back. A packet carries the number of its request as ghost data, because the code compares
none. `Start*` are the calls up to the end of `sendRetried`; `Transmit` puts a copy per link and
retransmission on the wire; `RecvCheck`, `ReadTimesOut`, `TimesOut`, `RecvFails` are the branches
of `UDPTransport.Recv` and of the callers that handle its error; `HandleDiscoveryReply`,
`IgnoreReply`, `PreludeReply` and `OperationReply` are what a reply does. The device answers as
`mocksbr` does, one request per step; a real device may moreover blank parameters that a SetData
leaves out (that is why `udap/config.go` reads before it writes). `CliScripts` are the operations
of each subcommand in order.

**`DeviceCalls`** is the abstract specification of what a call promises its user, without any
packet: carried out at most once, between its start and its return, and its verdict says
whether it was; a call that ran out of time says nothing, and a set may then still come late.
`UdapSession!Calls` instantiates it: `call` is the step in progress, `done` says that the latest
request was served, `late` that a SetData still travels after its call is over.

**`UdapSessionInv`** states the inductive invariants, **`UdapSessionProofs`** proves what holds of
any session in turn, **`UdapCommandProofs`** what holds of a command of the CLI. **`MCUdapSession`**
gives the constants of the runs.

**`CliProcess`** is one run of the program. `pc` is where the main goroutine is, `todo` the steps
of `RunE` it has still to do with the deferred calls at its end (`Plan` lists both for every
command, in the code's order), `disc` the discovery goroutine (or main, in `discover`), `bar` the
progress goroutine, `line` the line each goroutine writes to stderr, `lock` and `active`
the fields of `stderrSync`, `row` what the terminal's current line shows. An error replaces `todo` by
the deferred calls that are registered. What requests say is left to `UdapSession`: here an
operation is answered, fails, or runs out of time. `WrongAssumption` says that an invocation is wrong only
where its command looks: no other one can be told from a right one. **`CliProcessProofs`** holds the theorems.

**`PayloadReader`** is every loop that takes a payload apart, one item per step, on bytes: the
reply of a GetData, the requests as the mock reads them, and the type-length-value entries that
`DecodeTLV`, discovery, get_ip and get_uuid each write out. **`WireExchange`** builds on it one
exchange: a request as the client builds it, the mock that reads it, acts and answers, the client that
takes the answer; a reply may be broken in the ways the mock's failure knobs can break it, cut
anywhere, or longer than Recv's buffer, and the request of other software may be cut. What a
payload says is a list of entries in the order of their offsets (`GetRequest`, `SetRequest`,
`GetReply`; `Nth` of `Selection` stands for the sort), and `Payload` writes such a list as bytes. What the
reader of the items makes of them (`Applied`, `GetData`, `Addresses`) goes by their places: of
several with one key the last. **`WireExchangeProofs`** holds the theorems about both.

**`PacketPort`** is the abstract specification of a `Transport` as the client sees it: packets
of each link arrive in order, each is delivered at most once, a link may fail, Close may lose
what was not delivered, and nothing is lost otherwise.

**`Selection`** says what the elements of a sequence in a given set are, by their ranks: the
refinement mappings of both transports need the packets of one link, or one device, out of a
sequence of many, and of the library's recursive filter nothing can be proved. `WireExchange` sorts
with the same ranks. **`SelectionProofs`** shows that it behaves as a filter should under Append, Tail,
concatenation and renaming, that every finite set of numbers has an n-th element, and where the elements of a
sequence of sequences are once it is flattened.

**`MultiTransport`** is the goroutine-level model: `Recv` starts the pumps one by one under
`sync.Once` (a Close may come between two of them), a pump's context check, read, hand-over to
the channel, the watcher that cancels it, `Recv`'s select, `Close`'s three steps under its own
`sync.Once`. `Owed` is the refinement mapping: what is in the channel, then in the pump's hand,
then in the socket. Send has no state and appears as the copies per link in `UdapSession`.
**`MultiTransportProofs`** holds the theorems.

**`MockNetwork`** is the mock at the level of its critical sections: `Awake`, `AppliesSet`, `Saves`
and the others are the steps of `ReceiveScheduled` for one sender, timers fire in any order, the
wake-up channel is one token, `Recv` looks, sleeps and wakes. The sender hands the replies
over one by one. It implements `PacketPort` with one link for each prompt device and one for
every reply of a slow one: `Name` tells the replies of a slow device apart, `Queue` is what a link has
in the transport's queue, `Late` what its timers hold. **`MockNetworkProofs`** holds the theorems.

**`ConfigPipeline`** is about values. A value is a number, an address or a text with a length,
in a written form (plain, padded, blank at an end, bytes after a zero byte, a line break inside):
what the code's branches tell apart. Printing is modelled by what it does: `Lines` is the file that
`paramList.WriteText` makes of a configuration, in the order of the names; a text with a line break
ends its line there (`FirstLine`) and goes on with lines of its own (`Rest`), which `Parses`
refuses or takes for parameters like any others. `Breaks` says, for each form of such a text, how many of its
bytes are not in the first line and what the lines after it look like. `set` is three steps: parse and merge, read the device, write; `read`, `get`,
a factory reset and another controller's write surround it. Ten rows of the parameter table
stand for all kinds and rules; no row of the table has two bytes, so that branch of `Encode` is
left out. Within one command nobody else writes, which `UdapSession` covers.
**`ConfigPipelineProofs`** holds the theorems.

## The runs

| Run | Instance | Shows |
|---|---|---|
| `session_cli` | all CLI scripts, two nodes, two parameters with two values, one loss, one write by another controller, a device that may refuse what matters, no retransmission, `FairSpec` | replies answer their requests, verdicts are true, the cache is real and current, a set writes what it names, the session implements `DeviceCalls`, every command returns |
| `session_library` | six two- or three-call scripts of a library user, a device with two possible addresses, each context outlasts the round trip (`Patient`) | the inductive invariant `Turn`, and an entry that only discovery writes |
| `session_retries` | one retransmission, up to two losses, the scripts that find and act, `Patient` | an operation goes unanswered, and a reset taken for done at the deadline was not, only after two losses or by a silent device |
| `session_phantom` | one retransmission (violation) | the second reply to the read concludes the set; the cache shows values the device does not hold |
| `session_info` | discover --info (violation) | get_ip is never answered although the device answers |
| `session_twosets` | two sets of a library user (violation) | the second undoes the first, whose answer was lost |
| `multi` | two links, one may fail, two packets, one receiver, two callers of Close, a channel of one, `FairSpec` | MultiTransport implements PacketPort; silence after Close; Close returns, no goroutine stays, every reply of a sound link comes |
| `mock_network` | a prompt and a slow device, three requests, one sender and one receiver, the two parameters alike (`SYMMETRY`) | the mock implements PacketPort, keeps acknowledged writes, is silent in its window, loses no wake-up |
| `cli_process` | every command with every kind of wrong invocation, terminal or not, a discovery of up to two packets, `FairSpec` | one receiver at a time, a clean line for every text, "not found" and exit codes true, nothing left behind, an end |
| `wire` | 35 322 states of every exchange with three parameters, with each fault of a reply, each cut | readers stay inside, what is learnt is what was said, a set arrives whole |
| `pipeline` | five parameters of every kind, sixteen files, two pipes, six sets of flags, two forms of texts with a line break, one typed and one written by another controller | validation, layers, conversions, printing, filter and interface default fit together |
| `pipeline_alias` | one file that uses an alias (violation) | an acknowledged set may leave the server as it was |

Bounds. `MaxLoss`, `ForeignParams`, `Arrivals`, `MaxSends` and the lists of files and flags bound
what the environment does; two of each kind are enough for a packet to overtake, replace or be
mistaken for another, and the channels are smaller than the packets in flight, so they fill.
The `wire` run counts bytes to 16 instead of 256 and a UUID of three bytes, so that counts and lengths
reach and pass their limits in payloads of a few bytes; a `Buffer` of 27 is passed by a reply with all
three parameters and the unknown offset, and not by one with two. `Considered` takes every ill-formed invocation and, of the well-formed ones
that go to the network, one for each choice of flags that the rest of the run can tell apart;
two packets let the discovery hear the target first, last, or not at all.
Packets of one session form an unordered set: any reordering is possible, of which the order
per link is a special case. `ConfigPipeline` forgets a backup when the next set is given another
file, because the restore is judged on a factory-fresh device. Its two forms of line breaks are the two
things the rest of a text can be to `ParseINI`: a line it refuses (`torn`), and one that names a
parameter (`naming`); comments and blank lines it skips. `mock_network` takes states that differ
by exchanging its two parameters for one: no definition tells them apart, and the run checks no liveness. `CHECK_DEADLOCK FALSE` is said of
sessions and of the mock, which really end; MultiTransport ends only in states that still
stutter through a context or a packet.

`cli_process` and `wire` say it for the same reason: a process that has exited, an exchange that is over.

Fairness. Goroutines run and timers fire: in `session_cli` weak fairness of the client's steps,
of `Deadline` and of the device; a lost packet owes nothing, and Recv's failure is never owed. In
`multi` the channel and the socket are under strong fairness: Go serves blocked senders of
a channel in order, and a packet that lies in a socket's buffer is found by the next read before
its 200 ms are over. Nobody needs to call Recv or Close, except the client in the hypothesis of
`EveryReplyComes`. In `cli_process` strong fairness stands for two promises of the runtime: a
`sync.Mutex` is handed to whoever has waited a millisecond (`WriteLocks`, `BarDraws`,
`BarClears`), and a select sees its closed channel before the next tick is due (`FindEnds`,
`BarStops`). Nothing makes the device answer or standard input end; `Terminates` is said of runs
in which it does, since the code waits for it before any deadline exists. The safety runs under
`Patient` do not assume anything of liveness: a context is only kept from ending while packets
travel.

Each property has a mutant: a variant of a definition, in the module and named after it
(`StartSet_NoMerge`, `PumpSends_Drops`, `Stop_NoWait`, `ValueCut_Kept`), which is the bug that the property is
there to find. No specification uses them.

## What is proved

Every theorem holds for all values of the constants that meet the named assumptions of its
module (TLC evaluates them in the runs). Every safety property of a passing run has a theorem.

**The session, in turn.** `UdapSessionProofs.TypeCorrect` proves `Spec => []TypeOK`. The next ones are
about a session *in turn* (`InTurn`: no retransmission, one link, and one context for the command or a
patient one per call), which has no need of the sequence check the code lacks:

* `TurnHolds`: `Turn` is invariant. `CorrelatedReplies` alone is not inductive, since it says
  nothing of the packets that travel. `Turn` says that while the client listens at most one
  packet of the target travels, the request waited on or the one reply to it
  (`RequestOutstanding`, `ReplyOutstanding`), and that between operations nothing is left to
  be mistaken (`NothingLeft`); the rest ties the map entry and the last verdict to requests
  that were served. Each action has one lemma.
* `Correlated` and `Truthful`: `CorrelatedReplies` and `VerdictIsTrue` follow.
* `NoPhantom`: `CacheNeverPhantom`. On top of `Turn` the invariant follows the values: those of a
  reply that travels were the device's when it answered, those of an acknowledged set are
  already in it when the client enters them.
* `EntryIsDiscovered`: `EntryFromDiscovery`, because in turn the only packet that discovery, which
  checks no method, can be handed is an answer to itself. Out of turn it is false: with contexts that may end before the answer
  (`Patient` FALSE in the instance of `session_library`) TLC finds the late acknowledgement of a reset
  taken for an answer to the next discovery, a finding.

The `InTurn` condition is exact in the sense that `session_phantom` breaks it in one point
(`--retries 1`). It also explains why `session_info` cannot simply be cured with a fresh context
for each query: the mutant `Begin_FreshContext` then breaks `CorrelatedReplies`.

**A command.** `UdapCommandProofs` adds what holds of the scripts of the CLI, in turn
(`CommandInTurn`): a library's two sets refute it (`session_twosets`), because a set that failed is not
the last step there. `Command`, beside `Turn`, says that nothing of the target is under way when a step
begins and a failed set ends the command (`StepsInSilence`); that a full read is of everything and of
the present (`ReadsAll`); that a SetData in flight is alone, belongs to the set in progress or to one that
was given up, and would leave every other parameter as it is (`SetAlone`); and that the cache is the
device's configuration, but for the set in progress (`CacheFollows`).

* `CacheCurrent` (`CacheIsCurrent`) and `OnlyNamed` (`OnlyNamedWritten`) follow, the second also for a
  set that is carried out after the client has given up.
* `CallsKept`: `Spec => KeepsCalls`, the refinement of `DeviceCalls`. There is a lemma for every abstract
  step (`CallStarts`, `CallReturns`, `CallCarriedOut`, `CallComesLate`, ...) that names what a concrete
  one must bring, and one for every group of concrete steps. `RequestsOnce`, invariant too, is what
  makes "at most once" of a lost, late or refused request.
* `LossMasked` (`RetriesMaskLoss`) is not about turn but about retransmission: any number of repeats,
  links and losses, for a command that starts with a find and is patient (`FindsPatiently`).
  `RetriesMaskLoss` alone says nothing before the verdict. `Masking` counts, on every link, the repeats
  of the current request that neither travel to the target nor come back as a reply: never more than the
  losses (`LossesCounted`), as long as no reset has been carried out (`Going`) and so the target hears
  and keeps the address it was found at (`TargetThere`). A patient deadline finds nothing in flight, so
  all `Retries + 1` are gone (`PatienceTaken`), be it for an operation without an answer or for a reset
  taken for done; a reset that succeeded needs no such excuse, since it is the last step (`Course`).

**The process.** `CliProcessProofs` proves `NothingSmashed`, `ReceivesAlone` and `LeavesNothing` from one
inductive invariant. Its heart is `Covered`: what a command still has to do ends with a close if a
client is open, and has a stop before anything the bar must not live to see if the bar lives;
that the twelve plans start covered and every step, failure and deferred call keeps it so is
proved once for all commands. `Main` and `Discovering` place the goroutines, `Screen` orders
draw, mark and erase by the lock: between a draw and its mark the lock is held, so no writer
finds a bar it does not know of. `NotFoundTrue` needs more (`Searched`, `Verdict`): a command opens its
client once, a discovery ends of itself only with the command's own time, and after the
verdict nobody is left who could hear the device. `ExitTells` (`ExitCodeTells`) needs `Told`: the checks of
a plan come before everything else in it, so a wrong invocation is still to be found wrong as long as
anything else is; and a result is printed or still on the way. `TypeCorrect` is not what its name
suggests: that `todo` is always the rest of the command's own plan (`Shaped`) holds because the deferred calls
a failure leaves are the plan's end.

**The bytes.** `WireExchangeProofs` holds for every table of parameters, every device, every exchange,
every size of a byte and of Recv's buffer that meet the assumptions of `WireExchange`: offsets, lengths
and counts have two bytes, what a device adds to a reply is not in the table, a device says each thing of
itself once and all of it fits the buffer, and what is set was validated.

* `ReadsTrue`: on any sequence of bytes, under any count and length it announces, no reader looks past
  the end, the items lie side by side from the first on and hold the payload's own bytes, and a GetData
  reply is taken whole or not at all. `ReaderInv` is inductive because it follows what the count still
  promises (`Promise`). `ExchangeReadsTrue` says it of both sides of an exchange.
* `TakenTrue` (`TakenIsTrue`) and `SetWhole` (`SetIsWhole`). First, about payloads: `PayloadLists` finds every
  entry in the bytes at its place, one next to the other; `ReadsEntries` shows that the reader of a payload,
  or of its beginning, has read those entries in their order; `ReadsAll` that with "whole" it has read
  all of them, `NothingMissed` that of a payload that is all there it refuses nothing. Then, about
  an exchange: `TakenIsTrue` says nothing before the call returns, so `WireInv` says what the readers hold
  on the way there. The device reads what the client asked (`RequestPart`), the client reads what the device
  owes it (`ReplyPart`), or bytes that no reader takes (`Unreadable`); they are all there unless somebody
  cut them. One lemma for each action keeps it, one for each reply shows that what is learnt from the items is
  what was said.

The induction over the length of a payload that these need is carried out over the set of its places
(`EveryNumber`, `AllOf`, from the least element of a set of numbers), because the library's induction
theorems take an operator and no prover here can instantiate one; the recursive function inside the
library's `FlattenSeq` gets its values the same way (`FlattenSteps`). These lemmas are in `SelectionProofs`,
because `ConfigPipelineProofs` finds the printed lines of a parameter with them too.

**The values.** `ConfigPipelineProofs` is for any subset of the table, any files, pipes, flags and other
controllers. `TypeCorrect` and `SetIsWhole` (`ValidatedFits`) rest on one lemma for what validation lets
through, encoded (`EncodeFits`); `IInv` adds to the types that a `set` which has read the device
holds what it read (`Kept`), from which come `ShownTruly` (`ShownIsStored`), `OthersKept`
(`OthersReadTheSame`), `LayersInOrder` (`LastLayerWins`), `InterfaceComesUp` (`InterfaceUsable`) and
`BackupRestores` (`RestoreRebuilds`).

`BackupRestores` holds for every device and every file that was accepted, with texts of every form in
it. What it excepts is what the code does not do: a text that is not plain (trimmed, cut at its zero byte or at its
line break), and a parameter that a line inside another text names (`Overruled`). `LinesShape` and
`SavedLines` say that the file has a line for each saved parameter, wherever the lines of
the broken texts push it; `ParsedBackup` that `ParseINI` reads that one back, if no other text names it. `BackupParses` (`BackupAccepted`)
is about a device whose texts are all plain and other controllers that write only what the rules of the
names or the defaults admit (`ForeignSensible`): without the first `ParseINI` may meet a line that is
none, without the second `set` validates what it once printed. Its invariant `Sensible` says that every
field keeps to those rules.

**The transports.** `MultiTransportProofs.TypeCorrect`, and `QuietAfterClose` for `NothingAfterClose`. That one
is not inductive: a first `Recv` may start pumps after `wg.Wait` has returned, and they run.
`Silenced` adds that by then every socket is closed, so such a pump can only fail its read. `PortKept`
proves the refinement, `Spec => IsPort`, for any number of links, callers and packets: what a child owes changes
at one end with each step, the hand-over to the channel moves it, and what Close leaves behind is an
end of it (`Begins`). It needs that before Close has begun no socket is closed and no pump cancelled
(`Stopping`), so nothing is lost before.

**The mock.** `MockNetworkProofs.TypeCorrect`; `AckedIsKept` (`AckedSurvives`) and `SilentWhileRebooting`
(`SilentInWindow`) for one sender, which is how the tests and the serve loop use it: with two, one
may reset the device between the other's two critical sections. `WakesUp` (`NoLostWakeup`) holds for
any number of senders and timers but one receiver, because the one token wakes only one. `PortKept`
(`IsPort`) holds for any number of both. The mapping sees a reply in the queue, or as what a timer holds; only
slow devices have timers (`LateSlow`), so the links of the prompt ones are the queue alone.

Only model-checked: liveness (`Terminates`, `CloseReturns`, `NoLeak`, `EveryReplyComes`), because the
prover has no ENABLED. The abstract specifications are safety specifications, so the refinements
are proved whole.

## Findings

`PROJECT.json` lists them with their lines. Four have a run: the phantom cache under
retransmission, the lost network of `discover --info`, the undone set of a library user, and the
alias that may not be written. Others were met while modelling: `set --reboot` under
retransmission reports an error for a reset carried out; piped stdin is ignored beside
`--config`; blanks at the ends of a text, what follows a line break in it and bytes behind a zero
byte do not survive a backup (the bytes not even a set of something else), and a line break may have
`set` refuse the whole file or write the rest of the text to another parameter; the late
acknowledgement of a reset, taken for a discovery reply, empties a map entry; `--device` overrides of
the mock binary shift each other; the source address of a packet decides although the interface says it does not.

## Simplifications

* A client is used by one goroutine, as the CLI uses it; `discoverAndFind`'s second goroutine
  has ended when it returns. A library user fetches the `Device` again after a discovery.
* A session that meets a broken socket ends. `discover --info` queries only the target.
* "Error" stands for MethodError, MethodCredentialsError and unexpected methods in `UdapSession`; a
  packet whose header does not parse is as good as lost there. Malformed payloads are in `WireExchange`.
* `wg.Add` of a first Recv may overlap `wg.Wait` of Close: Close waits for the pumps it finds, the
  others find their sockets closed. The panic of a WaitGroup that is reused before its Wait has
  returned is not modelled.
* `CliProcess` leaves out a panic of a command and a signal that kills the process: nothing handles them.
* The mock handles requests of one sender at a time, as its tests and its serve loop do; with
  two, a set and the reload of a reset could interleave between two critical sections. It has one
  receiver: with two, the single token may wake only one.
* `set` reads standard input to its end before any deadline exists: `Terminates` of `CliProcess` assumes that it ends.
* What another controller writes between the read and the write of a set is lost, and nothing in the protocol
  could tell: the properties of `UdapSession` except the parameters written so.
* get_ip and get_uuid of the mock answer from constants; they are in `WireExchange` and left out of
  `MockNetwork`.

Not modelled: shell completion (a discovery with a timeout read from a state file; a wrong choice
shortens a list of suggestions), the mock binary's start-up and flags (their override order is a
finding; its loop hands each packet to `mocksbr.Network`), JSON, CSV and table output (rendering), the enumeration of
interfaces and the socket options (system calls; the links are a constant), the logger, the text of
MAC addresses and the fixed-width packet header, and the documentation tools.

## Plan

1. What is left of a session that retransmits: `CacheNeverPhantom` fails (`session_phantom`), but `OnlyNamedWritten`
   should hold of one set with any number of repeats.
2. `AckedSurvives` for several senders to different devices, each its own critical sections.
3. Completion's state file and the overrides of the mock binary, should either come to carry more than
   a suggestion or a test's set-up.
