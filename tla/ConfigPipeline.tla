--------------------------- MODULE ConfigPipeline ---------------------------
(***************************************************************************)
(* What happens to the values: a file, piped stdin and flags are parsed,   *)
(* validated and merged by `set`, completed with an interface, encoded     *)
(* into NVRAM fields, read back as text by `read` and `get`, and given to  *)
(* `set` again as a backup.  Exchanges succeed here and no other           *)
(* controller writes during a command: UdapSession is about those.         *)
(*                                                                         *)
(* A value is what the code tells apart: a number or an address by its     *)
(* value, a text by its length, and the form it is written in:             *)
(*   "plain"   the form the device's bytes are printed in                  *)
(*   "padded"  a number with leading zeros, an IPv4 address written as v6  *)
(*   "blank"   a text that begins or ends in a blank                       *)
(*   "nul"     a plain text, a zero byte and more (only in a device)       *)
(*   a form of Breaks: a text with a line break in it (from a flag or      *)
(*             another controller: a file's values have none)              *)
(***************************************************************************)
EXTENDS Integers, Sequences, FiniteSets, SequencesExt

CONSTANTS
  Params,    \* the parameters looked at, among those of Table
  Files,     \* the --config files users have: sequences of <<key, value>>
  Stdins,    \* what may be piped into stdin: sequences of <<key, value>>
  FlagSets,  \* the --PARAM flags of one command: functions from parameters
  Requests,  \* the names given to one `get`: sequences of names
  Foreign,   \* fields other controllers write: pairs <<parameter, field>>
  Extra,     \* keys read for offsets the table does not know
  Breaks     \* texts with a line break, by their forms.  bytes: how many are not
             \* in the first line, once trimmed; lines: what the lines after it
             \* are to ParseINI, but for comments and blank ones

Value(sort, n, form) == [sort |-> sort, n |-> n, form |-> form]
Number(n)  == Value("number", n, "plain")
Address(n) == Value("address", n, "plain")
Text(n)    == Value("text", n, "plain")

Row(length, default) == [length |-> length, default |-> default]

\* The rows of Parameters, one for every kind of field and every rule.
Table ==
  [ interface        |-> Row(1,  Number(128)),
    bridging         |-> Row(1,  Number(0)),
    wireless_mode    |-> Row(1,  Number(0)),
    wireless_channel |-> Row(1,  Number(6)),
    wireless_keylen  |-> Row(1,  Number(0)),
    server_address   |-> Row(4,  Address(0)),
    hostname         |-> Row(33, Text(0)),
    wireless_SSID    |-> Row(33, Text(0)),
    wireless_wep_key |-> Row(13, Text(0)),
    wireless_wpa_psk |-> Row(64, Text(0)) ]

Aliases == [ slimserver_address    |-> "server_address",
             squeezecenter_address |-> "server_address" ]

\* Texts of one line and of several, what may be typed, and the bytes a field
\* may hold: one zero byte at least stands before the last byte of a "nul" text.
OneLine == [sort : {"text"}, n : Nat, form : {"plain"}]
             \cup [sort : {"text"}, n : Nat \ {0}, form : {"blank"}]
Broken == {v \in [sort : {"text"}, n : Nat, form : DOMAIN Breaks] : v.n >= Breaks[v.form].bytes}
Texts == OneLine \cup Broken
Typed == [sort : {"number"}, n : Int, form : {"plain", "padded"}]
           \cup [sort : {"address"}, n : Nat, form : {"plain", "padded"}] \cup Texts
Stored == [sort : {"number", "address"}, n : Nat, form : {"plain"}]
            \cup Texts \cup [sort : {"text"}, n : Nat \ {0, 1}, form : {"nul"}]

ASSUME ParamsAssumption == Params \subseteq DOMAIN Table
ASSUME ExtraAssumption == \A k \in Extra : k \notin DOMAIN Table /\ k \notin DOMAIN Aliases
ASSUME BreaksAssumption ==
  /\ DOMAIN Breaks \cap {"plain", "padded", "blank", "nul"} = {}
  /\ \A form \in DOMAIN Breaks :
       LET text == Breaks[form]
       IN  /\ text.bytes \in Nat \ {0}
           /\ text.lines \in Seq(ToSet(text.lines))
           /\ \A i \in DOMAIN text.lines : text.lines[i][2] \in Typed \ Broken
ASSUME InputAssumption ==
  /\ \A lines \in Files \cup Stdins :
       lines \in Seq(ToSet(lines)) /\ \A i \in DOMAIN lines : lines[i][2] \in Typed \ Broken
  /\ \A flags \in FlagSets :
       DOMAIN flags \subseteq Params /\ \A p \in DOMAIN flags : flags[p] \in Typed

Known(name) ==
  name \in Params \/ (name \in DOMAIN Aliases /\ Aliases[name] \in Params)

\* ParameterByName, for a name that is known.
Canonical(name) == IF name \in Params THEN name ELSE Aliases[name]

Factory == [p \in Params |-> Table[p].default]

SortOf(p) == CASE Table[p].length = 1 -> "number"
               [] Table[p].length = 4 -> "address"
               [] OTHER               -> "text"

-----------------------------------------------------------------------------
(* Conversions between what is typed, what is stored and what is printed. *)

\* The value suits the kind of the parameter's field.
Fits(p, v) == /\ v.sort = SortOf(p)
              /\ v.sort = "number" => v.n \in 0..255
              /\ v.sort = "text"   => v.n <= Table[p].length

\* The rules some parameters add.  They go by the name as it was given.
Rule(name, v) ==
  /\ name = "wireless_mode"    => v.n \in {0, 1}  /\ v.form = "plain"
  /\ name = "wireless_keylen"  => v.n \in {5, 13} /\ v.form = "plain"
  /\ name = "wireless_channel" => v.n \in 1..13
  /\ name = "wireless_wpa_psk" => v.n \in 8..63
  /\ name = "wireless_SSID"    => v.n \in 1..32

\* As it would be with the kind of the value left unbounded.
Valid_NoBounds(name, v) == v.sort = SortOf(Canonical(name)) /\ Rule(name, v)

\* validateParameter, for a name that is known.
Valid(name, v) == Fits(Canonical(name), v) /\ Rule(name, v)

\* Parameter.Encode: numbers and addresses are parsed and may fail, a text is
\* padded or cut to the field.
Encodable(p, v) == SortOf(p) = "text" \/ Fits(p, v)
Encode_Verbatim(p, v) == v
Encode(p, v) ==
  IF SortOf(p) # "text"          THEN [v EXCEPT !.form = "plain"]
  ELSE IF v.n <= Table[p].length THEN v
  ELSE Text(Table[p].length)

\* formatGetDataValue: a text ends at its first zero byte, which "nul" bytes
\* have before their last one.
Format(field) == IF field.form = "nul" THEN Text(field.n - 2) ELSE field

\* strings.TrimSpace on a value of a file.
Trim(v) == IF v.form = "blank" THEN Text(v.n - 1) ELSE v

\* What a field can hold.
IsField(p, f) == f \in Stored /\ Fits(p, f)

ASSUME ForeignAssumption == \A w \in Foreign : w[1] \in Params /\ IsField(w[1], w[2])

-----------------------------------------------------------------------------
(* Sources of `set`.  A file is a sequence of lines <<key, value>>; one that  *)
(* has no '=' has no key, and is refused like one of an unknown key.          *)

NoPair == <<"", Text(0)>>

Empty == [k \in {} |-> Text(0)]
Over(upper, lower) ==
  [k \in DOMAIN upper \cup DOMAIN lower |-> IF k \in DOMAIN upper THEN upper[k] ELSE lower[k]]

Key(line) == line[1]

\* ParseINI accepts: lines of a known name each, values valid once trimmed, and
\* never two names for one parameter.
Parses(lines) ==
  /\ \A i \in DOMAIN lines : Known(Key(lines[i])) /\ Valid(Key(lines[i]), Trim(lines[i][2]))
  /\ \A i, j \in DOMAIN lines :
       Canonical(Key(lines[i])) = Canonical(Key(lines[j])) => Key(lines[i]) = Key(lines[j])

\* The map it returns: the last line of a key counts.
Parsed(lines) ==
  [k \in {Key(lines[i]) : i \in DOMAIN lines} |->
     Trim(lines[SelectLastInSeq(lines, LAMBDA line : Key(line) = k)][2])]

\* Piped stdin is read only when there is no --config; no file is <<>>.
Source(args) == IF args.config THEN args.file ELSE args.stdin

FlagsValid(flags) == \A p \in DOMAIN flags : Valid(p, flags[p])

Merged_FileWins(args) == Over(Parsed(Source(args)), args.flags)
Merged(args) == Over(args.flags, Parsed(Source(args)))

Accepted(args) == FlagsValid(args.flags) /\ Parses(Source(args)) /\ Merged(args) # Empty

\* As it would be without the read that fills device.Parameters first.
WithInterface_Unread(merged, current) == merged

\* applyInterfaceDefault, given what the device was read to hold.
WithInterface(merged, current) ==
  IF "interface" \notin Params \/ "interface" \in DOMAIN merged \/ current["interface"] # Number(128)
  THEN merged
  ELSE LET wireless == "wireless_SSID" \in DOMAIN merged /\ merged["wireless_SSID"].n > 0
       IN  Over([k \in {"interface"} |-> Number(IF wireless THEN 0 ELSE 1)], merged)

-----------------------------------------------------------------------------
(* What is printed. *)

\* device.Parameters after a read of everything.
ReadBack(nvram) == [k \in Params \cup Extra |-> IF k \in Params THEN Format(nvram[k]) ELSE Text(4)]

FilterReadOutput_KeepsDefaults(out) == [k \in DOMAIN out \ Extra |-> out[k]]
FilterReadOutput_DropsZeros(out) ==
  [k \in {k \in DOMAIN out \ Extra : out[k] # Table[k].default /\ out[k].n # 0} |-> out[k]]
FilterReadOutput(out) ==
  [k \in {k \in DOMAIN out \ Extra : Known(k) => out[k] # Table[k].default} |-> out[k]]

\* slices.Sorted of the names: by their bytes, capitals before small letters.
ByName == << "bridging", "hostname", "interface", "server_address", "wireless_SSID", "wireless_channel",
             "wireless_keylen", "wireless_mode", "wireless_wep_key", "wireless_wpa_psk" >>

\* A value is printed as it is: one with a line break ends its line at the
\* break, and the rest of it makes lines of its own.
FirstLine(v) == IF v.form \in DOMAIN Breaks THEN Text(v.n - Breaks[v.form].bytes) ELSE v
Rest(v) == IF v.form \in DOMAIN Breaks THEN Breaks[v.form].lines ELSE <<>>

\* The printed lines of a parameter, and of all of them, as those of a file.
Entry(out, k) == IF k \in DOMAIN out THEN <<<<k, FirstLine(out[k])>>>> \o Rest(out[k]) ELSE <<>>
Lines(out) == FlattenSeq([i \in DOMAIN ByName |-> Entry(out, ByName[i])])

\* canonicalParamNames accepts: names known, each parameter once.
Requestable(names) ==
  /\ \A i \in DOMAIN names : Known(names[i])
  /\ \A i, j \in DOMAIN names : Canonical(names[i]) = Canonical(names[j]) => i = j

\* The values of `get`, by the names they were asked by.
Got_ByName(names, values) ==
  [k \in ToSet(names) |-> IF k \in DOMAIN values THEN values[k] ELSE Text(0)]
Got(names, values) == [k \in ToSet(names) |-> values[Canonical(k)]]

-----------------------------------------------------------------------------
VARIABLES
  nvram,   \* the device's fields
  phase,   \* of a running `set`: "parsed" its sources, "read" the device
  args,    \* its sources
  cache,   \* device.Parameters of its process
  saved,   \* the output of the last `read`, kept as a file
  image,   \* what the device held at that read
  shown    \* the output of the last `get`, until the device changes

vars == <<nvram, phase, args, cache, saved, image, shown>>

NoArgs == [config |-> FALSE, file |-> <<>>, stdin |-> <<>>, flags |-> Empty]

Init == /\ nvram = Factory
        /\ phase = "idle" /\ args = NoArgs /\ cache = Empty
        /\ saved = Empty /\ image = Factory /\ shown = Empty

\* runRead without --all, its output saved.
Read ==
  /\ phase = "idle"
  /\ saved' = FilterReadOutput(ReadBack(nvram))
  /\ image' = nvram
  /\ shown' = Empty
  /\ UNCHANGED <<nvram, phase, args, cache>>

\* runGet; it refuses unknown and repeated names before it looks for a device.
Get(names) ==
  /\ phase = "idle" /\ Requestable(names)
  /\ shown' = Got(names, ReadBack(nvram))
  /\ UNCHANGED <<nvram, phase, args, cache, saved, image>>

\* runSet up to mergeSources; a usage error would leave everything as it is.
\* The backup is kept for as long as the next `set` is given it: a restore is
\* judged on a factory-fresh device, where what was set in between is gone.
Invoke(given) ==
  /\ phase = "idle" /\ Accepted(given)
  /\ phase' = "parsed" /\ args' = given
  /\ shown' = Empty
  /\ IF given.file = Lines(saved) THEN UNCHANGED <<saved, image>>
     ELSE saved' = Empty /\ image' = Factory
  /\ UNCHANGED <<nvram, cache>>

\* The explicit read of everything before the write.
ReadsDevice ==
  /\ phase = "parsed"
  /\ phase' = "read" /\ cache' = ReadBack(nvram)
  /\ UNCHANGED <<nvram, args, saved, image, shown>>

\* SetDeviceConfigWithContext's merge.
AllParams_NoMerge ==
  Over(WithInterface(Merged(args), cache), [k \in DOMAIN cache |-> IF k \in Params THEN Factory[k] ELSE cache[k]])
AllParams == Over(WithInterface(Merged(args), cache), cache)

\* The entries of the packet for one parameter are applied in their order.
\* A map has no order and the sort by offset is not stable: when an alias
\* and the canonical name are both there, either may come last.
Written(all, late) ==
  [p \in Params |->
     Encode(p, LET names == {k \in late : Canonical(k) = p}
               IN  IF names = {} THEN all[p] ELSE all[CHOOSE k \in names : TRUE])]

\* CreateSetDataPacket skips names it does not know and fails on a value it
\* cannot encode; the device stores the rest.
Writes ==
  /\ phase = "read"
  /\ phase' = "idle" /\ args' = NoArgs /\ cache' = Empty
  /\ IF \A k \in {k \in DOMAIN AllParams : Known(k)} : Encodable(Canonical(k), AllParams[k])
     THEN \E late \in SUBSET {k \in DOMAIN AllParams : Known(k) /\ k \notin Params} :
            nvram' = Written(AllParams, late)
     ELSE UNCHANGED nvram
  /\ UNCHANGED <<saved, image, shown>>

\* The factory reset on the device itself.
FactoryReset ==
  /\ phase = "idle"
  /\ nvram' = Factory /\ shown' = Empty
  /\ UNCHANGED <<phase, args, cache, saved, image>>

\* Another controller writes a field.
ForeignWrite(p, field) ==
  /\ phase = "idle"
  /\ nvram' = [nvram EXCEPT ![p] = field] /\ shown' = Empty
  /\ UNCHANGED <<phase, args, cache, saved, image>>

\* --config FILE with or without a pipe, or only a pipe, or flags alone.
Given ==
  [config : {TRUE}, file : Files \cup {Lines(saved)}, stdin : {<<>>} \cup Stdins, flags : FlagSets]
    \cup [config : {FALSE}, file : {<<>>}, stdin : {<<>>} \cup Stdins, flags : FlagSets]

Next == \/ Read
        \/ \E names \in Requests : Get(names)
        \/ \E given \in Given : Invoke(given)
        \/ ReadsDevice
        \/ Writes
        \/ FactoryReset
        \/ \E w \in Foreign : ForeignWrite(w[1], w[2])

Spec == Init /\ [][Next]_vars

-----------------------------------------------------------------------------
(* Properties *)

\* Every field holds bytes of its own kind and length (Parameter.Encode), and
\* the process only keeps what it read (device.Parameters).
TypeOK ==
  /\ DOMAIN nvram = Params /\ \A p \in Params : IsField(p, nvram[p])
  /\ DOMAIN image = Params /\ \A p \in Params : IsField(p, image[p])
  /\ phase \in {"idle", "parsed", "read"}
  /\ cache # Empty <=> phase = "read"
  /\ DOMAIN saved \subseteq Params
  /\ phase # "idle" => Accepted(args)

\* What `set` accepted is written whole: CreateSetDataPacket cannot fail on it
\* and Encode cuts nothing off, as the comment on Encode claims of the CLI.
ValidatedFits ==
  phase = "read" =>
    \A k \in {k \in DOMAIN AllParams : Known(k)} : Fits(Canonical(k), AllParams[k])

Printable(device) == {p \in Params : device[p].form = "plain"}

\* What others write, printed, is a default or follows the rules of its name.
Obeys(p, field) == Format(field) = Table[p].default \/ Rule(p, Format(field))
ForeignSensible == \A w \in Foreign : Obeys(w[1], w[2])

\* The file a `read` wrote is accepted by `set`, whatever the device went
\* through, if other controllers keep to defaults and the rules `set` validates,
\* and every text is plain: no blank at an end of it, which ParseINI trims, no
\* line break, at which it splits, and nothing after a zero byte.
BackupAccepted == ForeignSensible /\ Printable(image) = Params => Parses(Lines(saved))

Names(p) == {p} \cup {k \in DOMAIN Aliases : Aliases[k] = p}

\* The keys that lines in the texts of a device name.
Overruled(device) ==
  UNION {{Key(Rest(Format(device[p]))[i]) : i \in DOMAIN Rest(Format(device[p]))} : p \in Params}

\* Given to `set` on a device fresh from a factory reset, that file, if it is
\* accepted, rebuilds every field that holds a plain value, unless a line in
\* another text of the device names that parameter.  An interface at the
\* factory's 128 is left out of the file and becomes a usable one.
RestoreRebuilds ==
  [][ phase = "read" /\ args = [NoArgs EXCEPT !.config = TRUE, !.file = Lines(saved)] /\ nvram = Factory
      => \A p \in Printable(image) :
           \/ nvram'[p] = image[p]
           \/ p = "interface" /\ image[p] = Number(128)
           \/ Names(p) \cap Overruled(image) # {} ]_vars

Mentioned(p) == Names(p) \cap DOMAIN Merged(args) # {}

\* A `set` rewrites the whole NVRAM from text, and yet every parameter it does
\* not mention reads as it did before, the interface excepted when it was at
\* the factory's 128.
OthersReadTheSame ==
  [][ phase = "read" =>
      \A p \in Params :
        \/ Mentioned(p)
        \/ Format(nvram'[p]) = Format(nvram[p])
        \/ p = "interface" /\ nvram[p] = Number(128) ]_vars

\* A parameter named by its own name only, in the file or by a flag, ends up
\* with the value of the last layer that names it, flags above the file.
LastLayerWins ==
  [][ phase = "read" =>
      \A p \in Params :
        Names(p) \cap DOMAIN Merged(args) = {p} =>
          nvram'[p] = Encode(p, IF p \in DOMAIN args.flags THEN args.flags[p] ELSE Parsed(Source(args))[p]) ]_vars

\* After a `set` the interface is one the firmware can bring up, unless the
\* user asked for another: wireless when a network name was given, else wired.
InterfaceUsable ==
  [][ phase = "read" /\ "interface" \in Params /\ ~Mentioned("interface")
      => /\ nvram'["interface"] # Number(128)
         /\ nvram["interface"] = Number(128) =>
              nvram'["interface"] = Number(IF "wireless_SSID" \in Params /\ Mentioned("wireless_SSID") THEN 0 ELSE 1) ]_vars

\* `get` shows, under every name it was asked for, alias or not, what the
\* device holds for it.
ShownIsStored == \A k \in DOMAIN shown : shown[k] = Format(nvram[Canonical(k)])

\* The names parameterAliases accepts are names like others: what a `set`
\* writes by one is what the device holds afterwards.
AliasWrites ==
  [][ phase = "read" =>
      \A k \in DOMAIN Merged(args) \ Params :
        Canonical(k) \notin DOMAIN Merged(args) => nvram'[Canonical(k)] = Encode(Canonical(k), Merged(args)[k]) ]_vars
=============================================================================
